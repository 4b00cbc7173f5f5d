------------------------------- MODULE Engine -------------------------------
(***************************************************************************)
(* The Dohnuts engine, src/src/engine.cpp: score() splits the rows of a    *)
(* call into groups, and a pass scores each group over one llama context,  *)
(* reusing the state of a shared prefix of the prompts and the encoded     *)
(* images of earlier calls.                                                *)
(*                                                                         *)
(* The memory of the context holds what each sequence has read.  A hidden  *)
(* state depends on exactly what its sequence has read up to its token, so *)
(* a logit is represented by that context.  Any llama or mtmd call may     *)
(* fail; nothing here runs concurrently, the hazard is what a failed or a  *)
(* restored pass leaves behind for the next one.                           *)
(***************************************************************************)
EXTENDS PrefixCache, FiniteSetsExt

CONSTANTS
  Calls,       \* the calls of score(): nonempty sequences of rows
  Images,      \* encoded_image pointers
  ImageId,     \* [Images -> ids]: mtmd's content id of the bytes
  Corrupt,     \* images the decoder rejects
  NoImage,
  Marker,      \* the candidate marker token
  Vision,      \* an mmproj is loaded
  MaxSeqs,     \* MAX_SEQS
  MaxLength,   \* options.max_length
  ImageTokens, \* IMAGE_TOKENS
  ImageLimit,  \* IMAGE_CACHE_LIMIT, in images
  CacheLimit,  \* PREFIX_CACHE_LIMIT
  Align,       \* 64: the shared prefix is a multiple of it
  MinPrefix,   \* PREFIX_MIN_TOKENS
  BatchOption, \* options.n_batch
  Partial      \* numbers of tokens a failed call may have written: a bound for TLC

ASSUME EngineAssumption ==
  /\ Corrupt \subseteq Images /\ NoImage \notin Images /\ DOMAIN ImageId = Images
  /\ {MaxSeqs, MaxLength, ImageTokens, ImageLimit, Align, MinPrefix, BatchOption}
       \subseteq Nat \ {0}
  /\ CacheLimit \in Nat /\ Partial \subseteq Nat
  /\ \A call \in Calls : call # <<>> /\ call \in Seq(Range(call))
  /\ \A r \in UNION {Range(call) : call \in Calls} :
       /\ r.tokens \in Seq(Range(r.tokens)) /\ r.labels \in Nat
       /\ r.image \in Images \cup {NoImage}
       /\ Range(r.tokens) \cap Range(ImageId) = {}  \* an image is no token

VARIABLES
  rows,       \* the rows of the call in progress, or of the last one
  start,      \* first row not scored yet
  phase,
  memory,     \* [0..MaxSeqs - 1 -> what the sequence has read]
  shared,     \* length of the prefix the rows of the group share
  prefixes,   \* the checkpoints of decoded prefixes
  images,     \* the LRU of encoded images, front first
  imageBytes, \* image_cache_bytes
  row,        \* of an image group, the row whose tail is next
  results,    \* per row and candidate, the context its logit was read over
  error,      \* how the last call ended
  width       \* tokens in the last llama_process() of the engine

callVars  == <<rows, start, results, error>>
cacheVars == <<prefixes, images, imageBytes>>
vars == <<callVars, cacheVars, phase, memory, shared, row, width>>

Sequences0 == 0..MaxSeqs - 1
Cleared == [s \in Sequences0 |-> <<>>]
Phases == {"idle", "group", "restore", "prefix", "share", "suffix", "read",
           "image", "encoded", "tail", "rows"}

TypeOK ==
  /\ rows \in Calls \cup {<<>>}
  /\ start \in 1..Len(rows) + 1
  /\ phase \in Phases
  /\ DOMAIN memory = Sequences0
  /\ shared \in 0..MaxLength
  /\ shared % Align = 0
  /\ row \in Sequences0
  /\ DOMAIN results = DOMAIN rows
  /\ error \in {"none", "input", "internal", "device"}
  /\ width \in 0..MaxSeqs * MaxLength

Init ==
  /\ rows = <<>> /\ start = 1 /\ results = <<>> /\ error = "none"
  /\ phase = "idle"
  /\ memory = Cleared
  /\ shared = 0 /\ row = 0 /\ width = 0
  /\ prefixes = EmptyCache
  /\ images = <<>> /\ imageBytes = 0

-----------------------------------------------------------------------------
(***************************************************************************)
(* Rows and groups.  Positions of tokens count from 1.                     *)
(***************************************************************************)
MarkersOf(tokens) == {i \in DOMAIN tokens : tokens[i] = Marker}

\* Position of the k-th marker.
MarkerAt(tokens, k) ==
  CHOOSE i \in MarkersOf(tokens) : Cardinality({m \in MarkersOf(tokens) : m <= i}) = k

\* score() refuses the whole call before it decodes anything.
Refused(call) ==
  \/ ~Vision /\ \E i \in DOMAIN call : call[i].image # NoImage
  \/ \E i \in DOMAIN call : call[i].labels \notin 2..128

\* The rows decoded in one pass: all without image, or all with the same image object.
GroupSize ==
  Max({n \in 1..MaxSeqs :
         /\ start + n - 1 <= Len(rows)
         /\ \A i \in start..start + n - 1 : rows[i].image = rows[start].image})

Group == SubSeq(rows, start, start + GroupSize - 1)

IsImageGroup == rows[start].image # NoImage

MarkerFlaw(r) == IF Cardinality(MarkersOf(r.tokens)) = r.labels THEN "none" ELSE "internal"

\* Mutant: an image does not count against the budget.
Budgeted_TextOnly(r) == Len(r.tokens)

\* Tokens of a row that count against max_length.
Budgeted(r) == Len(r.tokens) + (IF r.image = NoImage THEN 0 ELSE ImageTokens)

\* What score_text_rows() and score_image_group() object to in a row.
FlawOf(r) ==
  CASE r.image = NoImage /\ r.tokens = <<>> -> "input"
    [] r.image \in Corrupt                  -> "internal"
    [] r.image \notin Corrupt /\ Budgeted(r) > MaxLength -> "input"
    [] OTHER -> MarkerFlaw(r)

\* The first flawed row of the group decides.
GroupFlaw ==
  IF \A i \in DOMAIN Group : FlawOf(Group[i]) = "none" THEN "none"
  ELSE FlawOf(Group[Min({i \in DOMAIN Group : FlawOf(Group[i]) # "none"})])

\* The tokens all rows of a group start with.
CommonLength(group) ==
  Max({n \in 0..Len(group[1].tokens) :
         \A i \in DOMAIN group :
           /\ n <= Len(group[i].tokens)
           /\ SubSeq(group[i].tokens, 1, n) = SubSeq(group[1].tokens, 1, n)})

Longest(group) == Max({Len(group[i].tokens) : i \in DOMAIN group})

\* Mutant: the prefix is not aligned.
Aligned_Any(n) == n

Aligned(n) == (n \div Align) * Align

\* Mutant: does not stop before the first marker.
SharedLength_PastMarkers(group) ==
  IF Len(group) = 1 THEN 0
  ELSE Aligned(Min({CommonLength(group), Max({Longest(group) - 2, 0})}))

\* Length of the prefix a pass decodes once: before any marker, aligned.
SharedLength(group) ==
  IF Len(group) = 1 THEN 0
  ELSE LET beforeMarkers == {MarkerAt(group[i].tokens, 1) - 1 : i \in DOMAIN group}
       IN  Aligned(Min(beforeMarkers \cup {CommonLength(group), Max({Longest(group) - 2, 0})}))

-----------------------------------------------------------------------------
(***************************************************************************)
(* score()                                                                 *)
(***************************************************************************)
Score(call) ==
  /\ phase = "idle"
  /\ rows' = call
  /\ start' = 1
  /\ results' = [i \in DOMAIN call |-> <<>>]
  /\ IF Refused(call) THEN phase' = "idle" /\ error' = "input"
                      ELSE phase' = "group" /\ error' = "none"
  /\ UNCHANGED <<cacheVars, memory, shared, row, width>>

Return ==
  /\ phase = "group"
  /\ start > Len(rows)
  /\ phase' = "idle"
  /\ UNCHANGED <<callVars, cacheVars, memory, shared, row, width>>

\* An exception leaves the context and the caches as they are.
Throw(kind) ==
  /\ phase' = "idle"
  /\ error' = kind
  /\ UNCHANGED <<rows, start, results, shared, row>>

RejectGroup ==
  /\ phase = "group"
  /\ start <= Len(rows)
  /\ GroupFlaw # "none"
  /\ Throw(GroupFlaw)
  /\ UNCHANGED <<cacheVars, memory, width>>

\* decode_pass() and score_image_group() clear the memory and plan the prefix.
BeginGroup ==
  /\ phase = "group"
  /\ start <= Len(rows)
  /\ GroupFlaw = "none"
  /\ memory' = Cleared
  /\ shared' = SharedLength(Group)
  /\ row' = 0
  /\ phase' = IF IsImageGroup THEN "image" ELSE IF shared' > 0 THEN "restore" ELSE "suffix"
  /\ UNCHANGED <<callVars, cacheVars, width>>

-----------------------------------------------------------------------------
(***************************************************************************)
(* decode_pass(): the rows of a text group.                                *)
(***************************************************************************)
PrefixTokens == SubSeq(Group[1].tokens, 1, shared)

Cacheable == shared >= MinPrefix

\* The checkpoint is there, llama takes all of it and its last position fits.
Restore ==
  /\ phase = "restore"
  /\ Cacheable /\ Holds(prefixes, PrefixTokens)
  /\ prefixes' = Touch(prefixes, PrefixTokens)
  /\ Len(FrontState(prefixes')) = shared
  /\ memory' = [memory EXCEPT ![0] = FrontState(prefixes')]
  /\ phase' = "share"
  /\ UNCHANGED <<callVars, images, imageBytes, shared, row, width>>

\* Mutant: goes on with what a failed restore has left in the memory.
MemoryAfterFailedRestore_Kept(restored) == [memory EXCEPT ![0] = restored]

MemoryAfterFailedRestore(restored) == Cleared

\* Mutant: the checkpoint that could not be restored stays.
CacheAfterFailedRestore_Kept(touched) == touched

CacheAfterFailedRestore(touched) == DropFront(touched)

\* llama does not take the checkpoint: it is dropped and the memory cleared.
RestoreFails ==
  /\ phase = "restore"
  /\ Cacheable /\ Holds(prefixes, PrefixTokens)
  /\ LET touched == Touch(prefixes, PrefixTokens) IN
       /\ prefixes' = CacheAfterFailedRestore(touched)
       /\ memory' = MemoryAfterFailedRestore(FrontState(touched))
  /\ phase' = "prefix"
  /\ UNCHANGED <<callVars, images, imageBytes, shared, row, width>>

RestoreMisses ==
  /\ phase = "restore"
  /\ ~Cacheable \/ ~Holds(prefixes, PrefixTokens)
  /\ phase' = "prefix"
  /\ UNCHANGED <<callVars, cacheVars, memory, shared, row, width>>

\* The prefix is decoded into sequence 0 and checkpointed, if llama hands its state out.
DecodePrefix ==
  /\ phase = "prefix"
  /\ memory' = [memory EXCEPT ![0] = @ \o PrefixTokens]
  /\ \E state \in {memory'[0], <<>>} :
       prefixes' = IF Cacheable THEN Put(prefixes, PrefixTokens, state, CacheLimit) ELSE prefixes
  /\ width' = shared
  /\ phase' = "share"
  /\ UNCHANGED <<callVars, images, imageBytes, shared, row>>

\* llama_memory_seq_cp() of the first n positions of sequence 0 to the other rows.
Copied(mem, n) ==
  [s \in Sequences0 |-> IF s \in 1..GroupSize - 1 THEN SubSeq(mem[0], 1, n) ELSE mem[s]]

Share ==
  /\ phase = "share"
  /\ memory' = Copied(memory, shared)
  /\ phase' = "suffix"
  /\ UNCHANGED <<callVars, cacheVars, shared, row, width>>

SuffixOf(r) == SubSeq(r.tokens, shared + 1, Len(r.tokens))

\* The suffixes of the first n rows of the group in one batch: row and position of each
\* token, and whether an embedding is asked for.
SuffixBatch(n) ==
  FlattenSeq([i \in 1..n |->
    [k \in DOMAIN SuffixOf(Group[i]) |->
      [seq |-> i - 1, pos |-> shared + k, out |-> SuffixOf(Group[i])[k] = Marker]]])

Batch == SuffixBatch(GroupSize)

\* Where the suffix of the i-th row of the group begins in the batch, from 0.
Base(i) == Len(SuffixBatch(i - 1))

\* Index in the batch, from 0, of the k-th marker of the i-th row.
ReadIndex(i, k) == Base(i) + MarkerAt(Group[i].tokens, k) - 1 - shared

Readable(index) == index + 1 \in DOMAIN Batch /\ Batch[index + 1].out

AllReadable == \A i \in DOMAIN Group : \A k \in 1..Group[i].labels : Readable(ReadIndex(i, k))

\* The results of the group's rows, taken from `contexts`.
WithResults(contexts) ==
  [i \in DOMAIN rows |-> IF i - start + 1 \in DOMAIN contexts THEN contexts[i - start + 1]
                         ELSE results[i]]

\* All the suffixes go into one batch.
DecodeSuffixes ==
  /\ phase = "suffix"
  /\ memory' = [s \in Sequences0 |->
                  IF s < GroupSize THEN memory[s] \o SuffixOf(Group[s + 1]) ELSE memory[s]]
  /\ width' = Len(Batch)
  /\ phase' = "read"
  /\ UNCHANGED <<callVars, cacheVars, shared, row>>

\* The hidden state of every marker of the group, or "Marker hidden state unavailable".
ReadStates ==
  /\ phase = "read"
  /\ IF AllReadable
     THEN /\ results' = WithResults(
               [i \in DOMAIN Group |-> [k \in 1..Group[i].labels |->
                  LET token == Batch[ReadIndex(i, k) + 1]
                  IN  SubSeq(memory[token.seq], 1, token.pos)]])
          /\ start' = start + GroupSize
          /\ phase' = "group"
          /\ UNCHANGED <<rows, error, shared, row>>
     ELSE Throw("internal")
  /\ UNCHANGED <<cacheVars, memory, width>>

-----------------------------------------------------------------------------
(***************************************************************************)
(* score_image_group(): rows that share one image.                         *)
(***************************************************************************)
GroupImage == ImageId[rows[start].image]

ImageEntries(id) == {i \in DOMAIN images : images[i].id = id}

\* Mutant: the entry found is not moved to the front.
TouchImage_InPlace(id) == images

\* image_cache_get() of an id the cache holds.
TouchImage(id) ==
  LET i == Min(ImageEntries(id)) IN <<images[i]>> \o RemoveAt(images, i)

\* How many of the entries image_cache_put() may keep: never less than the new one.
KeptImages(all) == {n \in 1..Len(all) : n <= ImageLimit \/ n = 1}

\* image_cache_put(), `all` with the new entry in front.
PutImage(all) ==
  LET kept == Max(KeptImages(all))
  IN  /\ images' = SubSeq(all, 1, kept)
      /\ imageBytes' = imageBytes + 1 - (Len(all) - kept)

\* The image is taken from the cache, or encoded and cached.
FindImage ==
  /\ phase = "image"
  /\ IF ImageEntries(GroupImage) # {}
     THEN images' = TouchImage(GroupImage) /\ UNCHANGED imageBytes
     ELSE PutImage(<<[id |-> GroupImage, embeddings |-> GroupImage]>> \o images)
  /\ phase' = "encoded"
  /\ UNCHANGED <<callVars, prefixes, memory, shared, row, width>>

\* The embeddings at the front are decoded into sequence 0, one unit for the image.
DecodeImage ==
  /\ phase = "encoded"
  /\ images # <<>>
  /\ memory' = [memory EXCEPT ![0] = <<Head(images).embeddings>>]
  /\ phase' = "tail"
  /\ UNCHANGED <<callVars, cacheVars, shared, row, width>>

\* The shared part of the tails follows the image and all of it is copied.
DecodeSharedTail ==
  /\ phase = "tail"
  /\ LET lead == [memory EXCEPT ![0] = @ \o PrefixTokens]
     IN  memory' = Copied(lead, Len(lead[0]))
  /\ width' = IF shared > 0 THEN shared ELSE width
  /\ phase' = "rows"
  /\ UNCHANGED <<callVars, cacheVars, shared, row>>

\* One row's remaining tail, its marker states read before the next row is decoded.
DecodeTail ==
  /\ phase = "rows"
  /\ LET r    == Group[row + 1]
         past == Len(memory[row])
     IN  /\ memory' = [memory EXCEPT ![row] = @ \o SuffixOf(r)]
         /\ results' = [results EXCEPT ![start + row] =
              [k \in 1..r.labels |->
                 SubSeq(memory'[row], 1, past + MarkerAt(SuffixOf(r), k))]]
         /\ width' = Len(SuffixOf(r))
  /\ IF row + 1 = GroupSize
     THEN row' = 0 /\ start' = start + GroupSize /\ phase' = "group"
     ELSE row' = row + 1 /\ UNCHANGED <<start, phase>>
  /\ UNCHANGED <<rows, error, cacheVars, shared>>

\* What the llama call of a phase is to add to a sequence.
Due(s) ==
  CASE phase \in {"prefix", "tail"} /\ s = 0      -> PrefixTokens
    [] phase = "suffix" /\ s < GroupSize         -> SuffixOf(Group[s + 1])
    [] phase = "encoded" /\ s = 0                -> <<Head(images).embeddings>>
    [] phase = "rows" /\ s = row                 -> SuffixOf(Group[row + 1])
    [] OTHER                                     -> <<>>

\* llama or mtmd reports an error, having written some of its tokens or none.
DeviceFails ==
  /\ phase \in {"prefix", "suffix", "image", "encoded", "tail", "rows"}
  /\ phase = "tail" => shared > 0
  /\ Throw("device")
  /\ \E s \in Sequences0 : \E n \in Partial \cap 0..Len(Due(s)) :
       memory' = [memory EXCEPT ![s] = @ \o SubSeq(Due(s), 1, n)]
  /\ UNCHANGED <<cacheVars, width>>

-----------------------------------------------------------------------------
Scoring ==
  \/ Return \/ RejectGroup \/ BeginGroup
  \/ Restore \/ RestoreFails \/ RestoreMisses \/ DecodePrefix \/ Share \/ DecodeSuffixes
  \/ ReadStates
  \/ FindImage \/ DecodeImage \/ DecodeSharedTail \/ DecodeTail
  \/ DeviceFails

Next == Scoring \/ \E call \in Calls : Score(call)

Spec == Init /\ [][Next]_vars

-----------------------------------------------------------------------------
\* What the k-th candidate of a row must be judged on: the image and the row's own prompt.
OwnContexts(r) ==
  [k \in 1..r.labels |->
     (IF r.image = NoImage THEN <<>> ELSE <<ImageId[r.image]>>)
       \o SubSeq(r.tokens, 1, MarkerAt(r.tokens, k))]

\* The sequence starts with an image.
IsImage(read) == read # <<>> /\ read[1] \in Range(ImageId)

Answered == phase = "idle" /\ error = "none"

(***************************************************************************)
(* Every candidate of every row is scored over the row's own image and     *)
(* prompt up to its own marker, whether the prefix was decoded, shared or  *)
(* restored, and whatever earlier calls and failures have left behind.     *)
(***************************************************************************)
ResultsOwn ==
  Answered => \A i \in DOMAIN rows : results[i] = OwnContexts(rows[i])

(***************************************************************************)
(* A call is refused only for a flaw of one of its rows or a failure of    *)
(* the device: sharing a prefix never makes a marker unreadable.           *)
(***************************************************************************)
OnlyFlawsReject ==
  error \in {"input", "internal"} =>
    Refused(rows) \/ \E i \in DOMAIN rows : FlawOf(rows[i]) # "none"

\* The checkpoint cache stays exact through restores that fail and passes that throw.
CheckpointsExact == Exact(prefixes, CacheLimit)

(***************************************************************************)
(* The image cache accounts for what it holds, holds no id twice, exceeds  *)
(* its limit with a single image at most, and still holds the embeddings   *)
(* whose reference the pass is using.                                      *)
(***************************************************************************)
ImagesHeld ==
  /\ imageBytes = Len(images)
  /\ \A i, k \in DOMAIN images : images[i].id = images[k].id => i = k
  /\ Len(images) > ImageLimit => Len(images) = 1
  /\ phase \in {"encoded", "tail", "rows"} => images # <<>> /\ Head(images).id = GroupImage

(***************************************************************************)
(* No sequence of a pass outgrows its budget, engine.hpp: "Per-sequence    *)
(* token budget (the context each sequence needs)."  The context is        *)
(* created with max_length positions for each of MAX_SEQS sequences, so    *)
(* what is restored, copied and appended must stay within that, image      *)
(* included.                                                               *)
(***************************************************************************)
ContextFits ==
  \A s \in Sequences0 :
    Len(memory[s]) + (IF IsImage(memory[s]) THEN ImageTokens - 1 ELSE 0) <= MaxLength

(***************************************************************************)
(* The comment of engine_options::n_batch, src/include/dohnuts/engine.hpp: *)
(* "Max tokens decoded in one pass."  The context is created for the       *)
(* larger of the option and max_length (engine.cpp:158).                   *)
(***************************************************************************)
PassWithinBatch == width <= Max({BatchOption, MaxLength})
=============================================================================
