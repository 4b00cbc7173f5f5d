----------------------------- MODULE PrefixCache -----------------------------
(***************************************************************************)
(* The LRU of state checkpoints of src/include/dohnuts/prefix_cache.hpp,   *)
(* as operators on a record [entries, bytes]: the engine and the side      *)
(* runner each keep one.  The front of `entries` is the latest used.  A    *)
(* token stands for one unit of the size of a checkpoint; limit is         *)
(* PREFIX_CACHE_LIMIT, which whoever keeps a cache knows.                  *)
(***************************************************************************)
EXTENDS Integers, SequencesExt

EmptyCache == [entries |-> <<>>, bytes |-> 0]

Filed(cache, key) == {i \in DOMAIN cache.entries : cache.entries[i].ids = key}

Holds(cache, key) == Filed(cache, key) # {}

\* get() of a key the cache holds: the first entry with that key goes to the front.
Touch(cache, key) ==
  LET i == CHOOSE i \in Filed(cache, key) : \A k \in Filed(cache, key) : i <= k
  IN  [cache EXCEPT !.entries = <<@[i]>> \o RemoveAt(@, i)]

FrontState(cache) == Head(cache.entries).state

\* drop_front()
DropFront(cache) ==
  IF cache.entries = <<>> THEN cache
  ELSE [entries |-> Tail(cache.entries),
        bytes   |-> cache.bytes - Len(FrontState(cache))]

SizeOf(entries) == FoldLeft(LAMBDA sum, e : sum + Len(e.state), 0, entries)

\* put(): checkpoints that are empty or too large are ignored; the oldest give way.
Put(cache, key, state, limit) ==
  IF state = <<>> \/ Len(state) > limit THEN cache
  ELSE LET all   == <<[ids |-> key, state |-> state]>> \o cache.entries
           total == cache.bytes + Len(state)
           without(n) == total - SizeOf(SubSeq(all, n + 1, Len(all)))
           kept  == CHOOSE n \in 0..Len(all) :
                      /\ without(n) <= limit \/ n = 0
                      /\ \A m \in n + 1..Len(all) : without(m) > limit
       IN  [entries |-> SubSeq(all, 1, kept), bytes |-> without(kept)]

-----------------------------------------------------------------------------
(***************************************************************************)
(* What the users of a cache rely on: a checkpoint is the state of exactly *)
(* the tokens it is filed under, no key is filed twice (drop_front() would *)
(* leave the stale one), and `bytes` accounts for what is held, within the *)
(* limit.                                                                  *)
(***************************************************************************)
Exact(cache, limit) ==
  /\ \A i \in DOMAIN cache.entries : cache.entries[i].state = cache.entries[i].ids
  /\ \A i, k \in DOMAIN cache.entries : cache.entries[i].ids = cache.entries[k].ids => i = k
  /\ cache.bytes = SizeOf(cache.entries)
  /\ cache.bytes <= limit
=============================================================================
