------------------------------ MODULE IsoCache ------------------------------
(***************************************************************************)
(* The cache of isomorphs (canonization.cpp) with its optional Bloom       *)
(* filter (bloom_filtering.cpp), across checkpoints and new processes.     *)
(* Every call is made inside critical(isomorph) or by one thread alone.    *)
(*                                                                         *)
(* The canonical graph of a puzzle, which nauty computes, is abstracted to *)
(* a key: Key(p) is the same exactly for isomorphic puzzles.  While the    *)
(* filter is enabled the keys go there, otherwise into the map.  The maps  *)
(* that swap_stored_state would exchange are left out: nothing calls it.   *)
(***************************************************************************)
EXTENDS Integers, FiniteSets

CONSTANTS
  Puzzles, Key(_),    \* the puzzles looked up, and their canonical graphs
  HashA(_), HashB(_), \* hash_bytes with the two seeds, of a key; the second is
                      \* replaced by a constant when it is zero
  NumBits, NumHashes, \* the size enable_bloom_filtering computes
  MaxSeen             \* bound: lookups that may add to the map or the filter

Keys == {Key(p) : p \in Puzzles}

ASSUME CacheAssumption ==
  /\ NumBits \in Nat \ {0} /\ NumHashes \in Nat \ {0} /\ MaxSeen \in Nat
  /\ \A key \in Keys : HashA(key) \in Nat /\ HashB(key) \in Nat \ {0}

VARIABLES
  initialized,      \* initilized
  seen, numSeen,    \* seen_isomorphs, num_seen
  bloom,            \* g_bloom_enabled, g_bits, g_inserted
  file,             \* the checkpoint: Search's copies and the filter's block
  answer,           \* the last answer of have_seen_isomorph (ghost)
  told,             \* the keys remembered since the cache was emptied (ghost)
  lost              \* those of them a resumption lost with the filter (ghost)

mapVars   == <<initialized, seen, numSeen>>
cacheVars == <<mapVars, bloom, file, answer, told, lost>>

\* A map from keys to indices is the set of its pairs.
KeysOf(map)  == {e[1] : e \in map}
Bits         == 0 .. (NumBits - 1)
Disabled     == [enabled |-> FALSE, bits |-> {}, inserted |-> 0]
Enabled      == [enabled |-> TRUE, bits |-> {}, inserted |-> 0]
NoFile       == [kind |-> "none"]
NoAnswer     == [key |-> "none"]

CacheInit ==
  /\ initialized = FALSE
  /\ seen = {} /\ numSeen = 0
  /\ bloom = Disabled
  /\ file = NoFile
  /\ answer = NoAnswer
  /\ told = {} /\ lost = {}

-----------------------------------------------------------------------------
\* Double hashing.
BitsOf(key) == {(HashA(key) + i * HashB(key)) % NumBits : i \in 0 .. (NumHashes - 1)}

\* Faulty: the first bit only.  (A variant with a plausible bug; no specification
\* uses it.)
SetFirst(filter, key) ==
  [filter EXCEPT !.bits = @ \cup {HashA(key) % NumBits}, !.inserted = @ + 1]

\* bloom_filter_check_and_add, remembering: all missing bits are set.
SetAll(filter, key) ==
  IF BitsOf(key) \subseteq filter.bits THEN filter
  ELSE [filter EXCEPT !.bits = @ \cup BitsOf(key), !.inserted = @ + 1]

\* have_seen_isomorph
Lookup(p, remember) ==
  LET key == Key(p)
      known == IF bloom.enabled THEN BitsOf(key) \subseteq bloom.bits ELSE key \in KeysOf(seen)
      add   == remember /\ ~known
  IN  /\ add => Cardinality(told \ {key}) < MaxSeen
      /\ initialized' = TRUE
      /\ answer' = [key |-> key, seen |-> known, filter |-> bloom.enabled,
                     told |-> key \in told, lost |-> key \in lost]
      /\ bloom' = IF add /\ bloom.enabled THEN SetAll(bloom, key) ELSE bloom
      /\ numSeen' = IF add /\ ~bloom.enabled THEN numSeen + 1 ELSE numSeen
      /\ seen' = IF add /\ ~bloom.enabled THEN seen \cup {<<key, numSeen + 1>>} ELSE seen
      /\ told' = IF remember THEN told \cup {key} ELSE told
      /\ lost' = IF remember THEN lost \ {key} ELSE lost
      /\ UNCHANGED file

\* reset_isomorphs, then enable_bloom_filtering or disable_bloom_filtering: a new
\* search.
StartSearch(withFilter) ==
  /\ initialized' = TRUE
  /\ seen' = {} /\ numSeen' = 0
  /\ bloom' = IF withFilter THEN Enabled ELSE Disabled
  /\ answer' = NoAnswer /\ told' = {} /\ lost' = {}
  /\ UNCHANGED file

\* reset_isomorphs; a disabled filter is left alone.
Reset ==
  /\ initialized' = TRUE
  /\ seen' = {} /\ numSeen' = 0
  /\ bloom' = IF bloom.enabled THEN Enabled ELSE bloom
  /\ answer' = NoAnswer /\ told' = {} /\ lost' = {}
  /\ UNCHANGED file

-----------------------------------------------------------------------------
\* Search::serialize: save_isomorph_state and bloom_filter_serialize.
SaveCache ==
  /\ file' = [kind |-> "whole", initialized |-> initialized,
              seen |-> IF initialized THEN seen ELSE {}, numSeen |-> numSeen,
              bloom |-> bloom, told |-> told, lost |-> lost]
  /\ UNCHANGED <<mapVars, bloom, answer, told, lost>>

\* The file comes from before there was a filter, so it has no block of one, or its
\* last block is cut off or does not fit together.
SpoilFilter(kind) ==
  /\ file.kind = "whole"
  /\ kind = "old" => ~file.bloom.enabled
  /\ file' = [file EXCEPT !.kind = kind]
  /\ UNCHANGED <<mapVars, bloom, answer, told, lost>>

\* bloom_filter_deserialize: nothing but a whole block enables the filter.
ReadFilter(f) == IF f.kind = "whole" THEN f.bloom ELSE Disabled

\* A new process that resumes from the file: Search::deserialize,
\* restore_isomorph_state, bloom_filter_deserialize, whose result is ignored: a
\* search that had a filter goes on without it and without the filter's keys.
Resume ==
  /\ file.kind # "none"
  /\ initialized' = file.initialized
  /\ seen' = (IF file.initialized THEN file.seen ELSE {})
  /\ numSeen' = file.numSeen
  /\ bloom' = ReadFilter(file)
  /\ told' = file.told
  /\ lost' = (IF file.bloom.enabled /\ file.kind # "whole" THEN file.told ELSE file.lost)
  /\ answer' = NoAnswer
  /\ UNCHANGED file

CacheNext ==
  \/ \E p \in Puzzles, remember \in BOOLEAN : Lookup(p, remember)
  \/ \E withFilter \in BOOLEAN : StartSearch(withFilter)
  \/ Reset
  \/ SaveCache \/ (\E kind \in {"old", "damaged"} : SpoilFilter(kind)) \/ Resume

CacheSpec == CacheInit /\ [][CacheNext]_cacheVars

-----------------------------------------------------------------------------
\* Whatever the cache has been told since it was emptied, through resets, checkpoints
\* and restarts, it recognises (have_seen_isomorph), with one exception: when a
\* resumption finds the block of a filter that was in use missing or damaged, all the
\* keys told until then are forgotten, and only those told again are known again.
\* Without a filter it recognises nothing else, a search that lost its filter
\* included.  The map gives a key one index, no two the same, and none above the
\* count.
CacheHonest ==
  /\ answer # NoAnswer => /\ answer.told /\ ~answer.lost => answer.seen
                          /\ answer.seen /\ ~answer.filter => answer.told
  /\ \A e \in seen : e[2] \in 1 .. numSeen
  /\ \A e, f \in seen : e[1] = f[1] \/ e[2] = f[2] => e = f
=============================================================================
