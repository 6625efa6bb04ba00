--------------------------- MODULE Puzzles_proofs ---------------------------
(***************************************************************************)
(* What puzzles carry with them and what is remembered of them, for all    *)
(* sets of puzzles, hashes, sizes of the filter and numbers of entries:    *)
(* the cache of isomorphs is honest, a TDM object counts what its calls    *)
(* have left, the marks of puzzles are current, and the subset testers of  *)
(* fitness.cpp answer as they would without their caches, for any number   *)
(* of samples, any family of strong USPs that is closed under parts and    *)
(* any sequence of calls and changes of samples.  The four have no         *)
(* variable in common, as in MCPuzzles.                                    *)
(***************************************************************************)
EXTENDS IsoCache, TdmObject, PuzMarks, SubsetFitness, FiniteSetTheorems, WellFoundedInduction, TLAPS

-----------------------------------------------------------------------------
(***************************************************************************)
(* The cache of isomorphs.  The inductive invariant says of the memory, of *)
(* the process and of the file alike, that it holds what was told to it    *)
(* and not lost with a filter: in the bits of the filter when that is      *)
(* enabled, else in the map, which holds nothing it was not told.          *)
(***************************************************************************)

\* Numbered: a map with n keys at most, each with an index of its own.
Numbered(map, n) ==
  /\ n \in Nat
  /\ \A e \in map : e[2] \in 1 .. n
  /\ \A e, f \in map : e[1] = f[1] \/ e[2] = f[2] => e = f

IsFilter(b) == /\ b = [enabled |-> b.enabled, bits |-> b.bits, inserted |-> b.inserted]
               /\ b.enabled \in BOOLEAN

Remembers(b, map, keys, gone) ==
  /\ KeysOf(map) \subseteq keys
  /\ b.enabled => \A key \in keys \ gone : BitsOf(key) \subseteq b.bits
  /\ ~b.enabled => keys \ gone \subseteq KeysOf(map)

Memory(init, map, n, b, keys, gone) ==
  /\ init \in BOOLEAN
  /\ Numbered(map, n)
  /\ IsFilter(b)
  /\ Remembers(b, map, keys, gone)
  /\ ~init => map = {} /\ keys = {}

IsFile(f) ==
  /\ f = [kind |-> f.kind, initialized |-> f.initialized, seen |-> f.seen,
          numSeen |-> f.numSeen, bloom |-> f.bloom, told |-> f.told, lost |-> f.lost]
  /\ Memory(f.initialized, f.seen, f.numSeen, f.bloom, f.told, f.lost)

Answered == answer # NoAnswer => /\ answer.told /\ ~answer.lost => answer.seen
                                 /\ answer.seen /\ ~answer.filter => answer.told

RememberInv ==
  /\ Memory(initialized, seen, numSeen, bloom, told, lost)
  /\ file.kind # "none" => IsFile(file)
  /\ Answered

LEMMA InitCacheInv == CacheInit => RememberInv
<1> SUFFICES ASSUME CacheInit PROVE RememberInv
  OBVIOUS
<1>1. Numbered({}, 0)
  BY DEF Numbered
<1>2. Memory(initialized, seen, numSeen, bloom, told, lost)
  BY <1>1 DEF CacheInit, Memory, IsFilter, Remembers, Disabled, KeysOf
<1>3. file.kind = "none"
  BY DEF CacheInit, NoFile
<1>4. Answered
  BY DEF CacheInit, Answered
<1> QED  BY <1>2, <1>3, <1>4 DEF RememberInv

\* A new key gets the next index.
LEMMA NumberedNext ==
  ASSUME NEW map, NEW n, Numbered(map, n), NEW key, key \notin KeysOf(map)
  PROVE  /\ Numbered(map \cup {<<key, n + 1>>}, n + 1)
         /\ KeysOf(map \cup {<<key, n + 1>>}) = KeysOf(map) \cup {key}
<1>1. n \in Nat /\ \A e \in map : e[2] \in 1 .. n /\ e[1] # key
  BY DEF Numbered, KeysOf
<1>2. \A e \in map : e[2] # n + 1 /\ e[2] \in 1 .. (n + 1)
  BY <1>1
<1>3. Numbered(map \cup {<<key, n + 1>>}, n + 1)
  BY <1>1, <1>2 DEF Numbered
<1>4. KeysOf(map \cup {<<key, n + 1>>}) = KeysOf(map) \cup {key}
  <2> DEFINE e == <<key, n + 1>>
  <2>1. e[1] = key
    OBVIOUS
  <2> HIDE DEF e
  <2>2. KeysOf(map \cup {e}) = KeysOf(map) \cup {e[1]}
    BY Zenon DEF KeysOf
  <2> QED  BY <2>1, <2>2 DEF e
<1> QED  BY <1>3, <1>4

LEMMA LookupInv == ASSUME RememberInv, NEW p \in Puzzles, NEW remember \in BOOLEAN,
                           Lookup(p, remember)
                    PROVE  RememberInv'
<1> DEFINE key == Key(p)
           known == IF bloom.enabled THEN BitsOf(key) \subseteq bloom.bits
                    ELSE key \in KeysOf(seen)
           add == remember /\ ~known
<1> HIDE DEF key
<1>1. /\ initialized' = TRUE
      /\ answer' = [key |-> key, seen |-> known, filter |-> bloom.enabled,
                    told |-> key \in told, lost |-> key \in lost]
      /\ bloom' = IF add /\ bloom.enabled THEN SetAll(bloom, key) ELSE bloom
      /\ numSeen' = IF add /\ ~bloom.enabled THEN numSeen + 1 ELSE numSeen
      /\ seen' = IF add /\ ~bloom.enabled THEN seen \cup {<<key, numSeen + 1>>} ELSE seen
      /\ told' = IF remember THEN told \cup {key} ELSE told
      /\ lost' = IF remember THEN lost \ {key} ELSE lost
      /\ file' = file
  BY DEF Lookup, key
<1>2. /\ Numbered(seen, numSeen) /\ IsFilter(bloom) /\ Remembers(bloom, seen, told, lost)
  BY DEF RememberInv, Memory
<1>3. known \in BOOLEAN /\ bloom.enabled \in BOOLEAN
  <2>1. bloom.enabled \in BOOLEAN
    BY <1>2 DEF IsFilter
  <2>2. /\ (BitsOf(key) \subseteq bloom.bits) \in BOOLEAN
        /\ (key \in KeysOf(seen)) \in BOOLEAN
    OBVIOUS
  <2> QED  BY <2>1, <2>2, Zenon
<1>4. Numbered(seen', numSeen')
  BY <1>1, <1>2, NumberedNext
<1>5. IsFilter(bloom') /\ bloom'.enabled = bloom.enabled /\ bloom.bits \subseteq bloom'.bits
  BY <1>1, <1>2 DEF IsFilter, SetAll
<1>6. Remembers(bloom', seen', told', lost')
  <2>1. told \subseteq told' /\ told' \ lost' \subseteq (told \ lost) \cup (IF remember THEN {key} ELSE {})
    BY <1>1
  <2>2. CASE bloom.enabled
    <3>1. add => BitsOf(key) \subseteq bloom'.bits
      BY <2>2, <1>1, <1>2 DEF SetAll, IsFilter
    <3>2. remember => BitsOf(key) \subseteq bloom'.bits
      BY <3>1, <2>2, <1>5
    <3>3. \A k \in told \ lost : BitsOf(k) \subseteq bloom'.bits
      BY <2>2, <1>2, <1>5 DEF Remembers
    <3>4. \A k \in told' \ lost' : BitsOf(k) \subseteq bloom'.bits
      BY <3>2, <3>3, <2>1
    <3>5. KeysOf(seen') \subseteq told'
      BY <2>1, <2>2, <1>1, <1>2 DEF Remembers
    <3> QED  BY <3>4, <3>5, <2>2, <1>5 DEF Remembers
  <2>3. CASE ~bloom.enabled
    <3>1. KeysOf(seen) \subseteq told /\ told \ lost \subseteq KeysOf(seen)
      BY <2>3, <1>2 DEF Remembers
    <3>2. CASE add
      <4>1. seen' = seen \cup {<<key, numSeen + 1>>} /\ told' = told \cup {key}
        BY <3>2, <2>3, <1>1
      <4>2. key \notin KeysOf(seen)
        BY <3>2, <2>3
      <4>3. KeysOf(seen') = KeysOf(seen) \cup {key}
        BY <4>1, <4>2, <1>2, NumberedNext
      <4>4. KeysOf(seen') \subseteq told' /\ told' \ lost' \subseteq KeysOf(seen')
        BY <4>1, <4>3, <3>1, <2>1
      <4> QED  BY <4>4, <2>3, <1>5 DEF Remembers
    <3>3. CASE ~add
      <4>1. seen' = seen /\ (remember => key \in KeysOf(seen))
        BY <3>3, <2>3, <1>1
      <4>2. KeysOf(seen') \subseteq told' /\ told' \ lost' \subseteq KeysOf(seen')
        BY <4>1, <3>1, <2>1
      <4> QED  BY <4>2, <2>3, <1>5 DEF Remembers
    <3> QED  BY <3>2, <3>3
  <2> QED  BY <2>2, <2>3
<1>7. Answered'
  <2>1. key \in told /\ key \notin lost => known
    BY <1>2 DEF Remembers
  <2>2. known /\ ~bloom.enabled => key \in told
    BY <1>2 DEF Remembers
  <2>3. /\ answer'.told = (key \in told) /\ answer'.lost = (key \in lost)
        /\ answer'.seen = known /\ answer'.filter = bloom.enabled
    BY <1>1
  <2> QED  BY <2>1, <2>2, <2>3 DEF Answered
<1> QED  BY <1>1, <1>4, <1>5, <1>6, <1>7 DEF RememberInv, Memory

LEMMA NextCacheInv == ASSUME RememberInv, [CacheNext]_cacheVars
                  PROVE  RememberInv'
<1>e. Numbered({}, 0)
  BY DEF Numbered
<1>1. ASSUME NEW p \in Puzzles, NEW remember \in BOOLEAN, Lookup(p, remember)
      PROVE  RememberInv'
  BY <1>1, LookupInv
<1>2. ASSUME NEW withFilter \in BOOLEAN, StartSearch(withFilter)
      PROVE  RememberInv'
  <2>1. Memory(initialized', seen', numSeen', bloom', told', lost')
    BY <1>2, <1>e DEF StartSearch, Memory, IsFilter, Remembers, Enabled, Disabled, KeysOf
  <2> QED  BY <2>1, <1>2 DEF StartSearch, RememberInv, Answered
<1>3. CASE Reset
  <2>1. Memory(initialized', seen', numSeen', bloom', told', lost')
    BY <1>3, <1>e DEF Reset, RememberInv, Memory, IsFilter, Remembers, Enabled, KeysOf
  <2> QED  BY <2>1, <1>3 DEF Reset, RememberInv, Answered
<1>4. CASE SaveCache
  <2>1. Memory(initialized, IF initialized THEN seen ELSE {}, numSeen, bloom, told, lost)
    BY DEF RememberInv, Memory
  <2>2. IsFile(file')
    BY <2>1, <1>4 DEF SaveCache, IsFile, Memory
  <2> QED  BY <2>2, <1>4 DEF SaveCache, RememberInv, Answered, mapVars
<1>5. ASSUME NEW kind \in {"old", "damaged"}, SpoilFilter(kind)
      PROVE  RememberInv'
  <2>1. IsFile(file)
    BY <1>5 DEF SpoilFilter, RememberInv
  <2>2. file' = [kind |-> kind, initialized |-> file.initialized, seen |-> file.seen,
                 numSeen |-> file.numSeen, bloom |-> file.bloom, told |-> file.told,
                 lost |-> file.lost]
    BY <2>1, <1>5 DEF SpoilFilter, IsFile
  <2>3. IsFile(file')
    BY <2>1, <2>2 DEF IsFile
  <2> QED  BY <2>3, <1>5 DEF SpoilFilter, RememberInv, Answered, mapVars
<1>6. CASE Resume
  <2>1. Memory(file.initialized, file.seen, file.numSeen, file.bloom, file.told, file.lost)
    BY <1>6 DEF Resume, RememberInv, IsFile
  <2>2. /\ initialized' = file.initialized /\ seen' = file.seen /\ numSeen' = file.numSeen
        /\ told' = file.told /\ answer' = NoAnswer /\ file' = file
    BY <2>1, <1>6 DEF Resume, Memory
  <2>3. CASE file.kind = "whole"
    <3>1. bloom' = file.bloom /\ lost' = file.lost
      BY <2>3, <1>6 DEF Resume, ReadFilter
    <3> QED  BY <3>1, <2>1, <2>2 DEF RememberInv, Answered
  <2>4. CASE file.kind # "whole"
    <3>1. bloom' = Disabled /\ lost' = IF file.bloom.enabled THEN file.told ELSE file.lost
      BY <2>4, <1>6 DEF Resume, ReadFilter
    <3>2. Remembers(Disabled, file.seen, file.told, lost')
      BY <3>1, <2>1 DEF Memory, Remembers, Disabled
    <3>3. Memory(initialized', seen', numSeen', bloom', told', lost')
      BY <3>1, <3>2, <2>1, <2>2 DEF Memory, IsFilter, Disabled
    <3> QED  BY <3>3, <2>2 DEF RememberInv, Answered
  <2> QED  BY <2>3, <2>4
<1>7. CASE UNCHANGED cacheVars
  BY <1>7 DEF cacheVars, mapVars, RememberInv, Answered
<1> QED  BY <1>1, <1>2, <1>3, <1>4, <1>5, <1>6, <1>7 DEF CacheNext

\* What the cache was told since it was emptied it recognises, through resets,
\* checkpoints and restarts, but for the keys told before a resumption found the
\* block of a filter in use missing or damaged, until they are told again; and
\* without a filter it recognises nothing else (have_seen_isomorph).
THEOREM CacheIsHonest == CacheSpec => []CacheHonest
<1>1. RememberInv => CacheHonest
  BY DEF RememberInv, CacheHonest, Memory, Numbered, Answered
<1> QED  BY <1>1, InitCacheInv, NextCacheInv, PTL DEF CacheSpec

-----------------------------------------------------------------------------
(***************************************************************************)
(* A TDM object.  The invariant says where the simplified instance is      *)
(* after simplify has returned: in the array, or, when a device keeps it,  *)
(* behind a count that is not zero.                                        *)
(***************************************************************************)

Whereabouts(s, done) ==
  /\ s = [tdm |-> s.tdm, computed |-> s.computed, simplified |-> s.simplified, count |-> s.count]
  /\ s.computed \in BOOLEAN /\ s.simplified \in BOOLEAN /\ s.count \in {0, Small}
  /\ s.simplified => s.computed /\ s.tdm = "small" /\ done
  /\ s.computed /\ ~s.simplified => s.tdm = "full"
  /\ s.count # 0 => done
  /\ done => s.simplified \/ s.count # 0

ObjectInv ==
  /\ Whereabouts(State, simplifies)
  /\ simplifies \in BOOLEAN
  /\ counted.is = counted.should

LEMMA SizesOK == Full \in Nat /\ Small \in Nat /\ Small # 0
BY ObjectAssumption

LEMMA InitObjectInv == ASSUME ObjInit
                  PROVE  ObjectInv
<1>1. /\ computed \in BOOLEAN /\ simplified = FALSE /\ countResult = 0 /\ simplifies = FALSE
      /\ computed => tdm = "full"
  <2>1. computed \in BOOLEAN
    BY Zenon DEF ObjInit
  <2> QED  BY <2>1 DEF ObjInit
<1>2. Whereabouts(State, simplifies)
  BY <1>1 DEF Whereabouts, State
<1>3. counted.is = counted.should
  BY DEF ObjInit, NoCount
<1> QED  BY <1>1, <1>2, <1>3 DEF ObjectInv

\* Whatever a device or the CPU does, the array or the count has the result.
LEMMA SimplifyWhereabouts ==
  ASSUME NEW s, NEW done \in BOOLEAN, Whereabouts(s, done), NEW mode,
         NEW t \in Simplified(s, mode)
  PROVE  Whereabouts(t, TRUE) /\ (mode = "eager" => t.simplified)
<1>1. CASE s.simplified
  <2>1. t = s
    BY <1>1 DEF Simplified
  <2> QED  BY <1>1, <2>1 DEF Whereabouts
<1>2. CASE ~s.simplified
  <2>1. t \in {OnGpu(s, mode), OnCpu(s)}
    BY <1>2 DEF Simplified
  <2>2. CASE t = OnCpu(s)
    <3>1. t = [tdm |-> "small", computed |-> TRUE, simplified |-> TRUE, count |-> s.count]
      BY <1>2, <2>2 DEF OnCpu, Whereabouts
    <3> QED  BY <3>1 DEF Whereabouts
  <2>3. CASE t = OnGpu(s, mode) /\ mode = "eager"
    <3>1. t = [tdm |-> "small", computed |-> TRUE, simplified |-> TRUE, count |-> Small]
      BY <2>3 DEF OnGpu
    <3> QED  BY <3>1 DEF Whereabouts
  <2>4. CASE t = OnGpu(s, mode) /\ mode # "eager"
    <3>1. t = [tdm |-> s.tdm, computed |-> s.computed, simplified |-> FALSE, count |-> Small]
      BY <1>2, <2>4 DEF OnGpu, Whereabouts
    <3> QED  BY <3>1, <2>4, <1>2, SizesOK DEF Whereabouts
  <2> QED  BY <2>1, <2>2, <2>3, <2>4
<1> QED  BY <1>1, <1>2 DEF Whereabouts

LEMMA BecomesState == ASSUME NEW t, NEW done, Whereabouts(t, done), Becomes(t)
                      PROVE  Whereabouts(State', done)
<1>1. State' = t
  BY DEF Becomes, State, Whereabouts
<1> QED  BY <1>1 DEF Whereabouts

\* Before it counts the entries an object brings them to its array.
LEMMA CountEntriesInv == ASSUME ObjectInv, CountEntries
                          PROVE  ObjectInv'
<1> DEFINE c == Computed(State)
<1>1. Whereabouts(State, simplifies) /\ simplifies \in BOOLEAN
  BY DEF ObjectInv
<1>2. Whereabouts(c, simplifies) /\ c.computed
  <2>1. CASE State.computed
    BY <2>1, <1>1 DEF Computed
  <2>2. CASE ~State.computed
    <3>1. c = [tdm |-> "full", computed |-> TRUE, simplified |-> State.simplified,
               count |-> State.count]
      BY <2>2, <1>1 DEF Computed, Whereabouts
    <3> QED  BY <3>1, <2>2, <1>1 DEF Whereabouts
  <2> QED  BY <2>1, <2>2
<1> HIDE DEF c
<1>3. PICK t \in Refreshed(c) : Becomes(t) /\ Answer(SizeOf(t.tdm))
  BY DEF CountEntries, c
<1>4. simplifies' = simplifies
  BY DEF CountEntries
<1>5. Whereabouts(t, simplifies) /\ SizeOf(t.tdm) = IF simplifies THEN Small ELSE Full
  <2>1. CASE c.count > 0 /\ ~c.simplified
    <3>1. t \in Simplified(c, "eager") /\ simplifies
      BY <2>1, <1>2, <1>3, SizesOK DEF Refreshed, Whereabouts
    <3>2. Whereabouts(t, TRUE) /\ t.simplified
      BY <3>1, <1>1, <1>2, SimplifyWhereabouts
    <3>3. simplifies = TRUE
      BY <3>1, <1>1
    <3> QED  BY <3>2, <3>3 DEF Whereabouts, SizeOf
  <2>2. CASE ~(c.count > 0 /\ ~c.simplified)
    <3>1. t = c
      BY <2>2, <1>3 DEF Refreshed
    <3>2. c.simplified \/ c.count = 0
      BY <2>2, <1>2, SizesOK DEF Whereabouts
    <3> QED  BY <3>1, <3>2, <1>1, <1>2 DEF Whereabouts, SizeOf
  <2> QED  BY <2>1, <2>2
<1>6. Whereabouts(State', simplifies)
  BY <1>3, <1>5, BecomesState
<1> QED  BY <1>1, <1>3, <1>4, <1>5, <1>6 DEF ObjectInv, Answer

LEMMA NextObjectInv == ASSUME ObjectInv, [ObjNext]_objVars
                  PROVE  ObjectInv'
<1>1. ASSUME NEW mode, Simplify(mode)
      PROVE  ObjectInv'
  <2>1. PICK t \in Simplified(State, mode) : Becomes(t)
    BY <1>1 DEF Simplify
  <2>2. Whereabouts(t, TRUE)
    BY <2>1, SimplifyWhereabouts DEF ObjectInv
  <2>3. Whereabouts(State', TRUE)
    BY <2>1, <2>2, BecomesState
  <2>4. simplifies' = TRUE /\ counted' = counted
    BY <1>1 DEF Simplify
  <2> QED  BY <2>3, <2>4 DEF ObjectInv
<1>2. CASE CountKnown
  <2>1. State' = State /\ simplifies' = simplifies
    BY <1>2 DEF CountKnown, State
  <2>2. countResult = Small /\ simplifies
    BY <1>2 DEF CountKnown, ObjectInv, Whereabouts, State
  <2>3. counted'.is = counted'.should
    BY <1>2, <2>2 DEF CountKnown, Answer
  <2> QED  BY <2>1, <2>3 DEF ObjectInv
<1>3. CASE CountEntries
  BY <1>3, CountEntriesInv
<1>4. CASE UNCHANGED objVars
  BY <1>4 DEF objVars, ObjectInv, State
<1> QED  BY <1>1, <1>2, <1>3, <1>4 DEF ObjNext

\* count answers for the instance as simplify has left it, on the CPU or on a
\* device, and what says it is simplified is in the array (TDM::count).
THEOREM CountIsHonest == ObjSpec => []CountHonest
<1>1. ObjectInv => CountHonest
  BY DEF ObjectInv, CountHonest, Whereabouts, State
<1> QED  BY <1>1, InitObjectInv, NextObjectInv, PTL DEF ObjSpec

-----------------------------------------------------------------------------
(***************************************************************************)
(* The marks of puzzles, for any number of distinct entries: only the      *)
(* puzzles of a slot that a device has finished are marked, and nothing is *)
(* set in them.                                                            *)
(***************************************************************************)

IsPuz(q)    == q \in [c : Int, simplified : BOOLEAN, results : Int]
Unmarked(q) == IsPuz(q) /\ q.simplified = FALSE
Current(q)  == IsPuz(q) /\ (q.simplified => q.results = Size(q.c))

MarkInv ==
  /\ Unmarked(puzzle)
  /\ \A q \in queue \cup found : Unmarked(q)
  /\ \A q \in slot : Current(q) /\ (slotState = "filling" => Unmarked(q))
  /\ evaluated.is = evaluated.should

LEMMA NewUnmarked == \A c \in Int : Unmarked(NewPuzzle(c))
BY DEF NewPuzzle, Unmarked, IsPuz

LEMMA CopyUnmarked == \A q : IsPuz(q) => Unmarked(Copy(q)) /\ Unmarked(NewPuzzle(q.c))
BY NewUnmarked DEF Copy, IsPuz

LEMMA ContentsInt == AllContents \subseteq Int
BY ContentsAssumption DEF AllContents

LEMMA SetUnmarked == \A q : \A c \in AllContents : Unmarked(q) => Unmarked(SetTo(q, c))
BY ContentsInt DEF SetTo, Unmarked, IsPuz

LEMMA UnmarkedCurrent == \A q : Unmarked(q) => Current(q) /\ IsPuz(q)
BY DEF Unmarked, Current

LEMMA CurrentEvaluated == ASSUME NEW q, Current(q), Evaluate(q)
                          PROVE  evaluated'.is = evaluated'.should
BY DEF Current, Evaluate, Seen

Marked(q, n) == [q EXCEPT !.simplified = TRUE, !.results = n]

LEMMA MarkedCurrent == ASSUME NEW q, IsPuz(q)
                       PROVE  Current(Marked(q, Size(q.c)))
<1> DEFINE n == Size(q.c)
           m == Marked(q, n)
<1>1. n \in Int
  BY DEF IsPuz, Size
<1>2. IsPuz(m) /\ m.results = n /\ m.c = q.c
  <2> HIDE DEF n
  <2> QED  BY <1>1 DEF IsPuz, Marked
<1>3. Size(m.c) = n
  BY <1>2
<1> QED  BY <1>2, <1>3 DEF Current

LEMMA InitMarkInv == MarkInit => MarkInv
<1>1. Unmarked(NoPuzzle)
  BY DEF NoPuzzle, Unmarked, IsPuz
<1>2. Unmarked(NewPuzzle(0))
  BY NewUnmarked
<1> QED  BY <1>1, <1>2 DEF MarkInit, MarkInv

LEMMA NextMarkInv == ASSUME MarkInv, [MarkNext]_markVars
                  PROVE  MarkInv'
<1>1. ASSUME NEW q \in queue, TakeFromQueue(q)
      PROVE  MarkInv'
  BY <1>1, CopyUnmarked, UnmarkedCurrent DEF TakeFromQueue, MarkInv
<1>2. ASSUME NEW q \in found, TakeResult(q)
      PROVE  MarkInv'
  <2>1. Unmarked(puzzle')
    BY <1>2, CopyUnmarked, UnmarkedCurrent DEF TakeResult, MarkInv
  <2>2. evaluated'.is = evaluated'.should
    BY <1>2, <2>1, UnmarkedCurrent, CurrentEvaluated DEF TakeResult
  <2> QED  BY <1>2, <2>1, <2>2 DEF TakeResult, MarkInv
<1>3. CASE PushResult
  BY <1>3, CopyUnmarked, UnmarkedCurrent DEF PushResult, MarkInv
<1>4. ASSUME NEW c \in AllContents, AppendPuzzle(c)
      PROVE  MarkInv'
  <2>1. Unmarked(SetTo(Copy(puzzle), c)) /\ Current(SetTo(Copy(puzzle), c))
    BY CopyUnmarked, SetUnmarked, UnmarkedCurrent DEF MarkInv
  <2> QED  BY <1>4, <2>1 DEF AppendPuzzle, MarkInv
<1>5. ASSUME NEW c \in AllContents, Derivative(c)
      PROVE  MarkInv'
  <2>1. Unmarked(puzzle') /\ Unmarked(Copy(puzzle'))
    BY <1>5, SetUnmarked, CopyUnmarked, UnmarkedCurrent DEF Derivative, MarkInv
  <2>2. evaluated'.is = evaluated'.should
    BY <1>5, <2>1, UnmarkedCurrent, CurrentEvaluated DEF Derivative, MarkInv
  <2>3. queue' \subseteq queue \cup {Copy(puzzle')}
    BY <1>5 DEF Derivative
  <2> QED  BY <1>5, <2>1, <2>2, <2>3 DEF Derivative, MarkInv
<1>6. ASSUME NEW c \in AllContents, Permuted(c)
      PROVE  MarkInv'
  <2> DEFINE q == SetTo(Copy(puzzle), c)
  <2>1. Unmarked(q) /\ Unmarked(Copy(q))
    BY SetUnmarked, CopyUnmarked, UnmarkedCurrent DEF MarkInv
  <2>2. evaluated'.is = evaluated'.should
    BY <1>6, <2>1, UnmarkedCurrent, CurrentEvaluated DEF Permuted
  <2> QED  BY <1>6, <2>1, <2>2 DEF Permuted, MarkInv
<1>7. CASE ResultsToPuzzles
  <2>1. \A q \in slot : Current([q EXCEPT !.simplified = TRUE, !.results = Size(q.c)])
    BY MarkedCurrent DEF MarkInv, Current, Marked
  <2> QED  BY <1>7, <2>1 DEF ResultsToPuzzles, MarkInv
<1>8. ASSUME NEW q \in slot, FrontierOfSlot(q)
      PROVE  MarkInv'
  <2>1. evaluated'.is = evaluated'.should
    BY <1>8, CurrentEvaluated DEF FrontierOfSlot, MarkInv
  <2> QED  BY <1>8, <2>1, CopyUnmarked DEF FrontierOfSlot, MarkInv, Current
<1>9. CASE MarkEmpty
  BY <1>9 DEF MarkEmpty, MarkInv
<1>10. CASE UNCHANGED markVars
  BY <1>10 DEF markVars, MarkInv
<1> QED  BY <1>1, <1>2, <1>3, <1>4, <1>5, <1>6, <1>7, <1>8, <1>9, <1>10 DEF MarkNext

\* Every fitness is that of the entries the puzzle has, and no mark outlives the
\* entries it was computed for (TDMSizeFitTester, copyResultsToPuzzles).
THEOREM MarksAreCurrent == MarkSpec => []MarksCurrent
<1>1. MarkInv => MarksCurrent
  BY UnmarkedCurrent DEF MarkInv, MarksCurrent, Current
<1> QED  BY <1>1, InitMarkInv, NextMarkInv, PTL DEF MarkSpec

-----------------------------------------------------------------------------
(***************************************************************************)
(* The subset testers.  First induction, and folds over finite sets; then  *)
(* the graph of inclusions between samples, which raise and lower rewire;  *)
(* then what the caches hold of each sample, which calls, changed rows and *)
(* the graph tell.                                                         *)
(***************************************************************************)

\* Induction over the naturals, for a set of them.
LEMMA SetInduction ==
  ASSUME NEW X, 0 \in X, \A n \in Nat : n \in X => n + 1 \in X
  PROVE  Nat \subseteq X
<1> DEFINE T == Nat \ X
           R == OpToRel(<, Nat)
<1>1. SUFFICES ASSUME T # {} PROVE FALSE
  OBVIOUS
<1>2. IsWellFoundedOn(R, Nat)
  BY NatLessThanWellFounded
<1>3. PICK n \in T : \A m \in T : ~(<<m, n>> \in R)
  <2> HIDE DEF R
  <2> QED  BY <1>1, <1>2, WFMin
<1>4. \A m \in T : ~(m < n)
  BY <1>3 DEF OpToRel
<1>5. n # 0 /\ n \in Nat
  BY <1>3
<1>6. n - 1 \in Nat /\ n - 1 < n /\ (n - 1) + 1 = n
  BY <1>5
<1>7. n - 1 \in X
  BY <1>4, <1>6
<1> QED  BY <1>3, <1>6, <1>7

\* Some member of a set has the least value of a function to the naturals.
LEMMA LeastValue ==
  ASSUME NEW R, R # {}, NEW f, \A r \in R : f[r] \in Nat
  PROVE  \E r \in R : \A q \in R : f[r] <= f[q]
<1> SUFFICES ASSUME \A r \in R : \E q \in R : ~(f[r] <= f[q]) PROVE FALSE
  OBVIOUS
<1> DEFINE X == {n \in Nat : \A r \in R : f[r] > n}
<1>1. 0 \in X
  <2> SUFFICES ASSUME NEW r \in R PROVE f[r] > 0
    OBVIOUS
  <2>1. PICK q \in R : ~(f[r] <= f[q])
    OBVIOUS
  <2> QED  BY <2>1
<1>2. ASSUME NEW n \in Nat, n \in X PROVE n + 1 \in X
  <2> SUFFICES ASSUME NEW r \in R PROVE f[r] > n + 1
    OBVIOUS
  <2>1. PICK q \in R : ~(f[r] <= f[q])
    OBVIOUS
  <2>2. f[q] > n /\ f[r] \in Nat /\ f[q] \in Nat
    BY <1>2
  <2> QED  BY <2>1, <2>2
<1>3. Nat \subseteq X
  <2> HIDE DEF X
  <2> QED  BY <1>1, <1>2, SetInduction
<1>4. PICK r \in R : TRUE
  OBVIOUS
<1>5. f[r] \in X
  BY <1>3
<1> QED  BY <1>5

\* F, folded over the parts of D in the order in which ch takes the members.
Folds(g, D, origin, F, ch) ==
  \A s \in SUBSET D : g[s] = IF s = {} THEN origin ELSE F[ch[s]][g[s \ {ch[s]}]]

Chooses(ch, D) == ch \in [(SUBSET D) \ {{}} -> D] /\ \A s \in (SUBSET D) \ {{}} : ch[s] \in s

LEMMA FoldExists ==
  ASSUME NEW D, IsFiniteSet(D), NEW T, NEW origin \in T, NEW F \in [D -> [T -> T]],
         NEW ch, Chooses(ch, D)
  PROVE  \E g \in [SUBSET D -> T] : Folds(g, D, origin, F, ch)
<1> DEFINE Sized(n) == {s \in SUBSET D : Cardinality(s) <= n}
           Good(g, n) == /\ g \in [Sized(n) -> T]
                         /\ \A s \in Sized(n) :
                              g[s] = IF s = {} THEN origin ELSE F[ch[s]][g[s \ {ch[s]}]]
           X == {n \in Nat : \E g : Good(g, n)}
<1>1. \A s \in SUBSET D : IsFiniteSet(s) /\ Cardinality(s) \in Nat /\ (Cardinality(s) = 0 <=> s = {})
  BY FS_Subset, FS_CardinalityType, FS_EmptySet
<1>2. 0 \in X
  <2> DEFINE g == [s \in Sized(0) |-> origin]
  <2>1. \A s \in Sized(0) : s = {}
    BY <1>1
  <2>2. Good(g, 0)
    BY <2>1
  <2> HIDE DEF g, Good
  <2> QED  BY <2>2
<1>3. ASSUME NEW n \in Nat, n \in X PROVE n + 1 \in X
  <2>1. PICK g : Good(g, n)
    BY <1>3
  <2>2. ASSUME NEW s \in Sized(n + 1), s # {}
        PROVE  ch[s] \in D /\ s \ {ch[s]} \in Sized(n) /\ s \ {ch[s]} \in Sized(n + 1)
    <3>1. ch[s] \in s /\ ch[s] \in D
      BY <2>2 DEF Chooses
    <3>2. Cardinality(s \ {ch[s]}) = Cardinality(s) - 1
      BY <3>1, <1>1, FS_RemoveElement
    <3>3. Cardinality(s) \in Nat /\ Cardinality(s) <= n + 1
      BY <1>1
    <3> QED  BY <3>1, <3>2, <3>3
  <2> DEFINE h == [s \in Sized(n + 1) |-> IF s = {} THEN origin ELSE F[ch[s]][g[s \ {ch[s]}]]]
  <2> HIDE DEF Sized
  <2>3. h \in [Sized(n + 1) -> T]
    <3> SUFFICES ASSUME NEW s \in Sized(n + 1), s # {} PROVE F[ch[s]][g[s \ {ch[s]}]] \in T
      OBVIOUS
    <3>1. g[s \ {ch[s]}] \in T /\ F[ch[s]] \in [T -> T]
      BY <2>1, <2>2
    <3> QED  BY <3>1
  <2>4. ASSUME NEW s \in Sized(n), s \in Sized(n + 1) PROVE h[s] = g[s]
    <3>1. g[s] = IF s = {} THEN origin ELSE F[ch[s]][g[s \ {ch[s]}]]
      BY <2>1
    <3> QED  BY <3>1, <2>4
  <2>5. ASSUME NEW s \in Sized(n + 1)
        PROVE  h[s] = IF s = {} THEN origin ELSE F[ch[s]][h[s \ {ch[s]}]]
    <3>1. CASE s # {}
      <4>1. h[s \ {ch[s]}] = g[s \ {ch[s]}]
        <5> HIDE DEF h
        <5> QED  BY <3>1, <2>2, <2>4
      <4>2. h[s] = F[ch[s]][g[s \ {ch[s]}]]
        BY <3>1
      <4> HIDE DEF h
      <4> QED  BY <3>1, <4>1, <4>2
    <3> QED  BY <3>1
  <2>6. Good(h, n + 1)
    <3> HIDE DEF h
    <3> QED  BY <2>3, <2>5
  <2> HIDE DEF h, Good
  <2> QED  BY <2>6
<1>4. Cardinality(D) \in X
  <2>1. Nat \subseteq X
    <3> HIDE DEF X
    <3> QED  BY <1>2, <1>3, SetInduction
  <2> HIDE DEF X
  <2> QED  BY <2>1, FS_CardinalityType
<1>5. PICK g : Good(g, Cardinality(D))
  BY <1>4
<1>6. Sized(Cardinality(D)) = SUBSET D
  BY FS_Subset
<1> HIDE DEF Sized
<1> QED  BY <1>5, <1>6 DEF Folds

-----------------------------------------------------------------------------
(* Samples and their neighbours.                                           *)

LEMMA RowIdsFinite ==
  ASSUME FitnessConstants
  PROVE  /\ IsFiniteSet(RowIds) /\ Cardinality(RowIds) = S
         /\ \A X \in SUBSET RowIds : IsFiniteSet(X) /\ Cardinality(X) \in Nat
<1>1. S \in Nat /\ S >= 2
  BY DEF FitnessConstants
<1>2. IsFiniteSet(RowIds) /\ Cardinality(RowIds) = S
  BY <1>1, FS_Interval DEF RowIds
<1> QED  BY <1>2, FS_Subset, FS_CardinalityType

LEMMA IdsFinite ==
  ASSUME FitnessConstants
  PROVE  Count \in Nat /\ Count >= 1 /\ IsFiniteSet(Ids) /\ 1 \in Ids
<1>1. Cardinality(Samples) \in Nat
  <2>1. IsFiniteSet(SUBSET RowIds)
    BY RowIdsFinite, FS_SUBSET
  <2>2. Samples \in SUBSET (SUBSET RowIds)
    BY DEF Samples
  <2> QED  BY <2>1, <2>2, FS_Subset, FS_CardinalityType
<1>2. Count \in Nat /\ Count >= 1
  BY <1>1 DEF FitnessConstants
<1> QED  BY <1>2, FS_Interval DEF Ids

\* The row that lower and raise choose is one of those that give a new sample.
LEMMA FirstFromIn ==
  ASSUME FitnessConstants, NEW R \in SUBSET RowIds, R # {}, NEW start \in RowIds
  PROVE  FirstFrom(start, R) \in R
<1> DEFINE f == [r \in R |-> (r - start + S) % S]
<1>1. \A r \in R : f[r] \in Nat
  <2> SUFFICES ASSUME NEW r \in R PROVE (r - start + S) % S \in Nat
    OBVIOUS
  <2>1. r - start + S \in Int /\ S \in Nat /\ S > 0
    BY DEF FitnessConstants, RowIds
  <2> QED  BY <2>1
<1>2. \E r \in R : \A q \in R : f[r] <= f[q]
  <2> HIDE DEF f
  <2> QED  BY <1>1, LeastValue
<1>3. \E r \in R : \A q \in R : (r - start + S) % S <= (q - start + S) % S
  BY <1>2
<1> QED  BY <1>3 DEF FirstFrom

LEMMA RowChoicesIn ==
  ASSUME FitnessConstants, NEW i, NEW R \in SUBSET RowIds, NEW r \in RowChoices(i, R)
  PROVE  r \in R /\ Fresh(Flip(i, r))
<1> DEFINE free == {q \in R : Fresh(Flip(i, q))}
<1>1. free # {}
  BY DEF RowChoices
<1>2. PICK start \in Starts(R) : r = FirstFrom(start, free)
  BY <1>1 DEF RowChoices
<1>3. start \in RowIds
  BY <1>2 DEF Starts
<1>4. free \in SUBSET RowIds
  OBVIOUS
<1>5. FirstFrom(start, free) \in free
  <2> HIDE DEF free
  <2> QED  BY <1>1, <1>3, <1>4, FirstFromIn
<1> QED  BY <1>2, <1>5

\* A changed sample i leaves all other inclusions as they are.
LEMMA RewireExact ==
  ASSUME FitnessConstants, GraphExact, NEW i \in Ids, i # 1, NEW X \in Samples, Fresh(X),
         subset' = [subset EXCEPT ![i] = X], neighbors' = Rewire(i),
         subset \in [Ids -> Samples]
  PROVE  GraphExact'
<1>1. 1 \in Ids
  BY IdsFinite
<1>2. /\ \A j \in Ids : subset'[j] = IF j = i THEN X ELSE subset[j]
      /\ \A j \in Ids : subset[j] # X
  BY DEF Fresh
<1>3. subset'[1] = RowIds
  BY <1>1, <1>2 DEF GraphExact
<1>4. \A j, q \in Ids : j # q => subset'[j] # subset'[q]
  BY <1>2 DEF GraphExact
<1>5. ASSUME NEW j \in Ids
      PROVE  subset'[j] \in Samples /\ neighbors'[j] = UNION {Neighbor(j, q)' : q \in Ids}
  <2>1. subset'[j] \in Samples
    BY <1>2 DEF GraphExact
  <2>2. CASE j = i
    BY <2>1, <2>2 DEF Rewire
  <2>3. CASE j # i
    <3>1. neighbors'[j] = (neighbors[j] \ {i, -i}) \cup Neighbor(j, i)'
      BY <2>3 DEF Rewire
    <3>2. neighbors[j] = UNION {Neighbor(j, q) : q \in Ids}
      BY DEF GraphExact
    <3>3. ASSUME NEW q \in Ids, q # i
          PROVE  Neighbor(j, q)' = Neighbor(j, q) /\ Neighbor(j, q) \cap {i, -i} = {}
      <4>1. subset'[j] = subset[j] /\ subset'[q] = subset[q]
        BY <2>3, <3>3, <1>2
      <4>2. q # i /\ q # -i /\ -q # i /\ -q # -i
        BY <3>3 DEF Ids
      <4> QED  BY <4>1, <4>2 DEF Neighbor
    <3>4. Neighbor(j, i) \subseteq {i, -i}
      BY DEF Neighbor
    <3>5. ASSUME NEW x PROVE x \in neighbors'[j] <=> \E q \in Ids : x \in Neighbor(j, q)'
      <4>1. x \in neighbors[j] <=> \E q \in Ids : x \in Neighbor(j, q)
        BY <3>2
      <4>2. x \in neighbors[j] \ {i, -i} <=> \E q \in Ids : q # i /\ x \in Neighbor(j, q)
        BY <4>1, <3>3, <3>4
      <4>3. x \in neighbors'[j] <=> (x \in neighbors[j] \ {i, -i} \/ x \in Neighbor(j, i)')
        BY <3>1
      <4> QED  BY <4>2, <4>3, <3>3
    <3> QED  BY <2>1, <3>5
  <2> QED  BY <2>2, <2>3
<1> QED  BY <1>3, <1>4, <1>5 DEF GraphExact

\* Raise and lower make a sample of two rows or more, and never of the full one.
LEMMA FlipStep ==
  ASSUME FitnessConstants, GraphExact, NEW i \in Ids, Lower(i) \/ Raise(i)
  PROVE  i # 1 /\ \E X \in Samples : Fresh(X) /\ Become(i, X)
<1>1. subset[i] \in SUBSET RowIds /\ Cardinality(subset[i]) >= 2 /\ subset[1] = RowIds
  BY DEF GraphExact, Samples
<1>2. IsFiniteSet(subset[i]) /\ Cardinality(subset[i]) \in Nat /\ Cardinality(RowIds) = S
  BY <1>1, RowIdsFinite
<1>3. i # 1
  BY <1>1, <1>2 DEF Lower, Raise
<1>4. CASE Lower(i)
  <2>1. PICK r \in RowChoices(i, subset[i]) : Become(i, Flip(i, r))
    BY <1>4 DEF Lower
  <2>2. r \in subset[i] /\ Fresh(Flip(i, r))
    BY <1>1, RowChoicesIn
  <2>3. Flip(i, r) = subset[i] \ {r}
    BY <2>2 DEF Flip
  <2>4. Cardinality(subset[i] \ {r}) = Cardinality(subset[i]) - 1
    BY <2>2, <1>2, FS_RemoveElement
  <2>5. Cardinality(subset[i]) # 2
    BY <1>4 DEF Lower
  <2>6. Flip(i, r) \in Samples
    BY <1>1, <1>2, <2>3, <2>4, <2>5 DEF Samples
  <2> QED  BY <1>3, <2>1, <2>2, <2>6
<1>5. CASE Raise(i)
  <2>1. PICK r \in RowChoices(i, RowIds \ subset[i]) : Become(i, Flip(i, r))
    BY <1>5 DEF Raise
  <2>2. r \in RowIds /\ r \notin subset[i] /\ Fresh(Flip(i, r))
    <3>1. RowIds \ subset[i] \in SUBSET RowIds
      OBVIOUS
    <3> QED  BY <3>1, RowChoicesIn
  <2>3. Flip(i, r) = subset[i] \cup {r}
    BY <2>2 DEF Flip
  <2>4. Cardinality(subset[i] \cup {r}) = Cardinality(subset[i]) + 1
    BY <2>2, <1>2, FS_AddElement
  <2>5. Flip(i, r) \in Samples
    BY <1>1, <1>2, <2>2, <2>3, <2>4 DEF Samples
  <2> QED  BY <1>3, <2>1, <2>2, <2>5
<1> QED  BY <1>4, <1>5

GraphInv == subset \in [Ids -> Samples] /\ GraphExact

LEMMA InitGraph == FitnessConstants /\ FitInit => GraphInv
<1> SUFFICES ASSUME FitnessConstants, FitInit PROVE GraphInv
  OBVIOUS
<1>1. subset \in [Ids -> Samples] /\ subset[1] = RowIds
  BY DEF FitInit
<1>2. \A i, j \in Ids : i # j => subset[i] # subset[j]
  <2> SUFFICES ASSUME NEW i \in Ids, NEW j \in Ids, i # j PROVE subset[i] # subset[j]
    OBVIOUS
  <2>1. i < j \/ j < i
    BY DEF Ids
  <2> QED  BY <2>1 DEF FitInit
<1>3. ASSUME NEW i \in Ids
      PROVE  subset[i] \in Samples /\ neighbors[i] = UNION {Neighbor(i, j) : j \in Ids}
  BY <1>1 DEF FitInit
<1> QED  BY <1>1, <1>2, <1>3 DEF GraphInv, GraphExact

LEMMA NextGraph == FitnessConstants /\ GraphInv /\ [FitNext]_fitVars => GraphInv'
<1> SUFFICES ASSUME FitnessConstants, GraphInv, [FitNext]_fitVars PROVE GraphInv'
  OBVIOUS
<1>1. ASSUME UNCHANGED <<subset, neighbors>> PROVE GraphInv'
  <2>1. \A i, j : Neighbor(i, j)' = Neighbor(i, j)
    BY <1>1 DEF Neighbor
  <2>2. \A i \in Ids : UNION {Neighbor(i, j)' : j \in Ids} = UNION {Neighbor(i, j) : j \in Ids}
    BY <2>1
  <2> QED  BY <1>1, <2>2 DEF GraphInv, GraphExact
<1>2. ASSUME NEW i \in Ids, Lower(i) \/ Raise(i) PROVE GraphInv'
  <2>1. GraphExact
    BY DEF GraphInv
  <2>2. i # 1 /\ \E X \in Samples : Fresh(X) /\ Become(i, X)
    BY <1>2, <2>1, FlipStep
  <2>3. PICK X \in Samples : Fresh(X) /\ Become(i, X)
    BY <2>2
  <2>4. subset' = [subset EXCEPT ![i] = X] /\ neighbors' = Rewire(i)
    BY <2>3 DEF Become
  <2>5. GraphExact'
    BY <2>1, <2>2, <2>3, <2>4, RewireExact DEF GraphInv
  <2>6. subset' \in [Ids -> Samples]
    BY <2>4 DEF GraphInv
  <2> QED  BY <2>5, <2>6 DEF GraphInv
<1>3. ASSUME NEW p \in FitPuzzles, GetFit(p) \/ GetFitDerv(p) PROVE GraphInv'
  BY <1>1, <1>3 DEF GetFit, GetFitDerv
<1>4. CASE UNCHANGED fitVars
  BY <1>1, <1>4 DEF fitVars
<1> QED  BY <1>2, <1>3, <1>4 DEF FitNext

\* Through all raises and lowers of updateSubsets the samples stay distinct sets of
\* two rows or more with the full one first, and the neighbour lists are exactly
\* the inclusions between them (what verifyCache asserts, and the converse).
THEOREM GraphStaysExact == FitSpec => []GraphExact
<1>1. FitInit => GraphInv
  BY FitnessAssumption, InitGraph
<1>2. GraphInv /\ [FitNext]_fitVars => GraphInv'
  BY FitnessAssumption, NextGraph
<1>3. GraphInv => GraphExact
  BY DEF GraphInv
<1> QED  BY <1>1, <1>2, <1>3, PTL DEF FitSpec

-----------------------------------------------------------------------------
(* Sums over finite sets.                                                  *)

\* g has the sum of f over each part of D, in whatever order it is taken.
IsSum(g, f, D) ==
  /\ g \in [SUBSET D -> Int] /\ g[{}] = 0
  /\ \A s \in SUBSET D : \A x \in s : g[s] = f[x] + g[s \ {x}]

SumOver(f, D) == (CHOOSE g : IsSum(g, f, D))[D]

\* How MapThenSumSet takes the members of a set.
AnyOf(D)       == [s \in (SUBSET D) \ {{}} |-> CHOOSE x \in s : TRUE]
Adding(f, D) == [x \in D |-> [t \in Int |-> f[x] + t]]

LEMMA AnyChooses ==
  ASSUME NEW D
  PROVE  /\ Chooses(AnyOf(D), D)
         /\ \A s \in (SUBSET D) \ {{}} : AnyOf(D)[s] = (CHOOSE x \in s : TRUE) /\ AnyOf(D)[s] \in s
<1>1. \A s \in (SUBSET D) \ {{}} : AnyOf(D)[s] = (CHOOSE x \in s : TRUE)
  BY DEF AnyOf
<1>2. \A s \in (SUBSET D) \ {{}} : (CHOOSE x \in s : TRUE) \in s
  OBVIOUS
<1>3. AnyOf(D) \in [(SUBSET D) \ {{}} -> D]
  BY <1>2 DEF AnyOf
<1> QED  BY <1>1, <1>2, <1>3 DEF Chooses

LEMMA AnyOrder ==
  ASSUME NEW D, IsFiniteSet(D), NEW f, \A x \in D : f[x] \in Int,
         NEW g \in [SUBSET D -> Int], Folds(g, D, 0, Adding(f, D), AnyOf(D))
  PROVE  IsSum(g, f, D)
<1> DEFINE ch == AnyOf(D)
           X == {n \in Nat : \A s \in SUBSET D : Cardinality(s) <= n =>
                               \A x \in s : g[s] = f[x] + g[s \ {x}]}
<1>1. \A s \in SUBSET D : IsFiniteSet(s) /\ Cardinality(s) \in Nat /\ (Cardinality(s) = 0 <=> s = {})
  BY FS_Subset, FS_CardinalityType, FS_EmptySet
<1>2. \A s \in SUBSET D : s # {} => ch[s] \in s
  BY AnyChooses
<1>3. ASSUME NEW s \in SUBSET D, s # {} PROVE g[s] = f[ch[s]] + g[s \ {ch[s]}]
  <2>1. g[s] = Adding(f, D)[ch[s]][g[s \ {ch[s]}]]
    BY <1>3 DEF Folds
  <2>2. ch[s] \in D /\ g[s \ {ch[s]}] \in Int
    BY <1>2, <1>3
  <2> HIDE DEF ch
  <2> QED  BY <2>1, <2>2 DEF Adding
<1> HIDE DEF ch
<1>4. 0 \in X
  BY <1>1
<1>5. ASSUME NEW n \in Nat, n \in X PROVE n + 1 \in X
  <2> SUFFICES ASSUME NEW s \in SUBSET D, Cardinality(s) <= n + 1, NEW x \in s
               PROVE  g[s] = f[x] + g[s \ {x}]
    OBVIOUS
  <2>1. PICK c \in s : c = ch[s]
    BY <1>2
  <2>2. g[s] = f[c] + g[s \ {c}]
    BY <2>1, <1>3
  <2>3. CASE c # x
    <3>1. Cardinality(s \ {c}) = Cardinality(s) - 1 /\ Cardinality(s \ {x}) = Cardinality(s) - 1
      BY <1>1, FS_RemoveElement
    <3>2. Cardinality(s \ {c}) <= n /\ Cardinality(s \ {x}) <= n
      BY <3>1, <1>1
    <3>3. s \ {c} \in SUBSET D /\ s \ {x} \in SUBSET D /\ x \in s \ {c} /\ c \in s \ {x}
      BY <2>3
    <3>4. g[s \ {c}] = f[x] + g[(s \ {c}) \ {x}]
      BY <3>2, <3>3, <1>5
    <3>5. g[s \ {x}] = f[c] + g[(s \ {x}) \ {c}]
      BY <3>2, <3>3, <1>5
    <3>6. (s \ {c}) \ {x} = (s \ {x}) \ {c} /\ (s \ {x}) \ {c} \in SUBSET D
      OBVIOUS
    <3>7. f[c] \in Int /\ f[x] \in Int /\ g[(s \ {x}) \ {c}] \in Int
      BY <3>6
    <3>8. \A a, b, d \in Int : a + (b + d) = b + (a + d)
      OBVIOUS
    <3>9. g[s] = f[c] + (f[x] + g[(s \ {x}) \ {c}]) /\ g[s \ {x}] = f[c] + g[(s \ {x}) \ {c}]
      BY <2>2, <3>4, <3>5, <3>6
    <3> QED  BY <3>7, <3>8, <3>9
  <2> QED  BY <2>2, <2>3
<1>6. Nat \subseteq X
  <2> HIDE DEF X
  <2> QED  BY <1>4, <1>5, SetInduction
<1>7. ASSUME NEW s \in SUBSET D, NEW x \in s PROVE g[s] = f[x] + g[s \ {x}]
  <2>1. Cardinality(s) \in X
    <3> HIDE DEF X
    <3> QED  BY <1>1, <1>6
  <2> QED  BY <2>1, <1>1
<1>8. g[{}] = 0
  BY DEF Folds
<1> QED  BY <1>7, <1>8 DEF IsSum

LEMMA SumExists ==
  ASSUME NEW D, IsFiniteSet(D), NEW f, \A x \in D : f[x] \in Int
  PROVE  \E g : IsSum(g, f, D) /\ Folds(g, D, 0, Adding(f, D), AnyOf(D))
<1>1. Adding(f, D) \in [D -> [Int -> Int]]
  BY DEF Adding
<1>2. \E g \in [SUBSET D -> Int] : Folds(g, D, 0, Adding(f, D), AnyOf(D))
  <2>1. PICK T, zero : T = Int /\ zero = 0
    OBVIOUS
  <2>2. PICK F, ch : F = Adding(f, D) /\ ch = AnyOf(D)
    OBVIOUS
  <2>3. Chooses(ch, D) /\ F \in [D -> [T -> T]] /\ zero \in T
    BY <1>1, <2>1, <2>2, AnyChooses
  <2>4. \E g \in [SUBSET D -> T] : Folds(g, D, zero, F, ch)
    BY <2>3, FoldExists
  <2> QED  BY <2>1, <2>2, <2>4
<1> QED  BY <1>2, AnyOrder

LEMMA SumsAgree ==
  ASSUME NEW D, IsFiniteSet(D), NEW f, NEW k, NEW E \in SUBSET D, \A x \in E : f[x] = k[x],
         NEW g, IsSum(g, f, D), NEW h, IsSum(h, k, E)
  PROVE  g[E] = h[E]
<1> DEFINE X == {n \in Nat : \A s \in SUBSET E : Cardinality(s) <= n => g[s] = h[s]}
<1>1. \A s \in SUBSET E : IsFiniteSet(s) /\ Cardinality(s) \in Nat /\ (Cardinality(s) = 0 <=> s = {})
  <2>1. \A s \in SUBSET E : s \in SUBSET D
    OBVIOUS
  <2> QED  BY <2>1, FS_Subset, FS_CardinalityType, FS_EmptySet
<1>2. 0 \in X
  <2>1. \A s \in SUBSET E : Cardinality(s) <= 0 => s = {}
    BY <1>1
  <2>2. g[{}] = h[{}]
    BY DEF IsSum
  <2> QED  BY <2>1, <2>2
<1>3. ASSUME NEW n \in Nat, n \in X PROVE n + 1 \in X
  <2> SUFFICES ASSUME NEW s \in SUBSET E, Cardinality(s) <= n + 1 PROVE g[s] = h[s]
    OBVIOUS
  <2>1. CASE s = {}
    BY <2>1 DEF IsSum
  <2>2. CASE s # {}
    <3>1. PICK x \in s : TRUE
      BY <2>2
    <3>2. Cardinality(s \ {x}) = Cardinality(s) - 1
      BY <1>1, FS_RemoveElement
    <3>3. Cardinality(s \ {x}) <= n /\ s \ {x} \in SUBSET E
      BY <3>2, <1>1
    <3>4. g[s \ {x}] = h[s \ {x}] /\ f[x] = k[x]
      BY <3>3, <1>3
    <3>5. g[s] = f[x] + g[s \ {x}] /\ h[s] = k[x] + h[s \ {x}]
      BY DEF IsSum
    <3> QED  BY <3>4, <3>5
  <2> QED  BY <2>1, <2>2
<1>4. Cardinality(E) \in X
  <2>1. Nat \subseteq X
    <3> HIDE DEF X
    <3> QED  BY <1>2, <1>3, SetInduction
  <2> HIDE DEF X
  <2> QED  BY <2>1, <1>1
<1> QED  BY <1>4, <1>1

\* What a sum is: of a set without one member, and of no more than the values there.
LEMMA SumFacts ==
  ASSUME NEW D, IsFiniteSet(D), NEW f, \A x \in D : f[x] \in Int
  PROVE  /\ SumOver(f, D) \in Int
         /\ \A g : IsSum(g, f, D) => \A E \in SUBSET D : SumOver(f, E) = g[E]
         /\ \A k : (\A x \in D : f[x] = k[x]) => SumOver(f, D) = SumOver(k, D)
<1>1. ASSUME NEW k, NEW E, E \in SUBSET D, \A x \in E : f[x] = k[x]
      PROVE  IsSum(CHOOSE g : IsSum(g, k, E), k, E)
  <2>1. \A x \in E : k[x] \in Int
    BY <1>1
  <2>2. IsFiniteSet(E)
    BY <1>1, FS_Subset
  <2>3. \E g : IsSum(g, k, E)
    BY <2>1, <2>2, SumExists
  <2> QED  BY <2>3
<1>2. ASSUME NEW g, IsSum(g, f, D), NEW E \in SUBSET D PROVE SumOver(f, E) = g[E]
  BY <1>1, <1>2, SumsAgree DEF SumOver
<1>3. ASSUME NEW k, \A x \in D : f[x] = k[x] PROVE SumOver(f, D) = SumOver(k, D)
  BY <1>1, <1>3, SumsAgree DEF SumOver
<1>4. SumOver(f, D) \in Int
  <2>1. IsSum(CHOOSE g : IsSum(g, f, D), f, D)
    BY <1>1
  <2> QED  BY <2>1 DEF SumOver, IsSum
<1> QED  BY <1>2, <1>3, <1>4

\* The recursion behind MapThenSumSet has a solution, and its only one is the sum.
Recurs(g, f, D) ==
  \A s \in SUBSET D :
    g[s] = IF s = {} THEN 0 ELSE f[CHOOSE x \in s : TRUE] + g[s \ {CHOOSE x \in s : TRUE}]

LEMMA RecursionHolds ==
  ASSUME NEW D, IsFiniteSet(D), NEW f, \A x \in D : f[x] \in Int
  PROVE  \E g \in [SUBSET D -> Int] : Recurs(g, f, D)
<1>1. PICK g : IsSum(g, f, D)
  BY SumExists
<1>2. ASSUME NEW s \in SUBSET D
      PROVE  g[s] = IF s = {} THEN 0
                    ELSE f[CHOOSE x \in s : TRUE] + g[s \ {CHOOSE x \in s : TRUE}]
  <2>1. CASE s # {}
    <3>1. PICK c \in s : c = (CHOOSE x \in s : TRUE)
      BY <2>1
    <3>2. g[s] = f[c] + g[s \ {c}]
      BY <1>1 DEF IsSum
    <3> QED  BY <2>1, <3>1, <3>2
  <2>2. CASE s = {}
    BY <2>2, <1>1 DEF IsSum
  <2> QED  BY <2>1, <2>2
<1> QED  BY <1>1, <1>2 DEF IsSum, Recurs

LEMMA RecursionIsSum ==
  ASSUME NEW D, IsFiniteSet(D), NEW f, \A x \in D : f[x] \in Int, NEW h, Recurs(h, f, D)
  PROVE  h[D] = SumOver(f, D)
<1>1. PICK g : IsSum(g, f, D)
  BY SumExists
<1> DEFINE X == {n \in Nat : \A s \in SUBSET D : Cardinality(s) <= n => h[s] = g[s]}
<1>2. \A s \in SUBSET D : IsFiniteSet(s) /\ Cardinality(s) \in Nat /\ (Cardinality(s) = 0 <=> s = {})
  BY FS_Subset, FS_CardinalityType, FS_EmptySet
<1>3. h[{}] = g[{}]
  <2>1. h[{}] = 0
    BY DEF Recurs
  <2> QED  BY <2>1, <1>1 DEF IsSum
<1>4. 0 \in X
  <2>1. \A s \in SUBSET D : Cardinality(s) <= 0 => s = {}
    BY <1>2
  <2> QED  BY <2>1, <1>3
<1>5. ASSUME NEW n \in Nat, n \in X PROVE n + 1 \in X
  <2> SUFFICES ASSUME NEW s \in SUBSET D, Cardinality(s) <= n + 1, s # {} PROVE h[s] = g[s]
    BY <1>3
  <2>1. PICK c \in s : c = (CHOOSE x \in s : TRUE)
    OBVIOUS
  <2>2. h[s] = f[c] + h[s \ {c}]
    BY <2>1 DEF Recurs
  <2>3. Cardinality(s \ {c}) = Cardinality(s) - 1
    BY <1>2, FS_RemoveElement
  <2>4. h[s \ {c}] = g[s \ {c}]
    <3>1. Cardinality(s \ {c}) <= n /\ s \ {c} \in SUBSET D
      BY <2>3, <1>2
    <3> QED  BY <3>1, <1>5
  <2>5. g[s] = f[c] + g[s \ {c}]
    BY <1>1 DEF IsSum
  <2> QED  BY <2>2, <2>4, <2>5
<1>6. Cardinality(D) \in X
  <2>1. Nat \subseteq X
    <3> HIDE DEF X
    <3> QED  BY <1>4, <1>5, SetInduction
  <2> HIDE DEF X
  <2> QED  BY <2>1, <1>2
<1>7. h[D] = g[D]
  BY <1>6, <1>2
<1>8. SumOver(f, D) = g[D]
  BY <1>1, SumFacts
<1> QED  BY <1>7, <1>8

\* The sums of this module.
LEMMA ValueSum ==
  ASSUME NEW D, IsFiniteSet(D), NEW f, \A x \in D : f[x] \in Int
  PROVE  MapThenSumSet(LAMBDA i : f[i], D) = SumOver(f, D)
<1> DEFINE Eq(it) == it = [s \in SUBSET D |->
                             IF s = {} THEN 0
                             ELSE f[CHOOSE x \in s : TRUE] + it[s \ {CHOOSE x \in s : TRUE}]]
           h == CHOOSE it : Eq(it)
<1>1. \E g : Eq(g)
  <2>1. PICK g \in [SUBSET D -> Int] : Recurs(g, f, D)
    BY RecursionHolds
  <2>2. g = [s \in SUBSET D |-> g[s]]
    OBVIOUS
  <2>3. Eq(g)
    BY <2>1, <2>2 DEF Recurs
  <2> HIDE DEF Eq
  <2> QED  BY <2>3
<1>2. Eq(h)
  <2> HIDE DEF Eq
  <2> QED  BY <1>1
<1>3. MapThenSumSet(LAMBDA i : f[i], D) = h[D]
  BY DEF MapThenSumSet, MapThenFoldSet
<1> HIDE DEF h
<1>4. Recurs(h, f, D)
  <2> SUFFICES ASSUME NEW s \in SUBSET D
               PROVE  h[s] = IF s = {} THEN 0
                        ELSE f[CHOOSE x \in s : TRUE] + h[s \ {CHOOSE x \in s : TRUE}]
    BY DEF Recurs
  <2>1. h[s] = [t \in SUBSET D |->
                  IF t = {} THEN 0
                  ELSE f[CHOOSE x \in t : TRUE] + h[t \ {CHOOSE x \in t : TRUE}]][s]
    BY <1>2
  <2> HIDE DEF Eq
  <2> QED  BY <2>1
<1> QED  BY <1>3, <1>4, RecursionIsSum

-----------------------------------------------------------------------------
(* A fold along the samples.                                               *)

LastId == [s \in (SUBSET Ids) \ {{}} |-> Max(s)]

LEMMA LastChooses ==
  ASSUME FitnessConstants
  PROVE  Chooses(LastId, Ids) /\ \A s \in (SUBSET Ids) \ {{}} : LastId[s] = Max(s) /\ Max(s) \in s
<1>1. ASSUME NEW s \in (SUBSET Ids) \ {{}} PROVE Max(s) \in s
  <2> DEFINE f == [r \in s |-> Count - r]
  <2>1. Count \in Nat /\ \A r \in s : r \in Int /\ r <= Count
    BY IdsFinite DEF Ids
  <2>2. \A r \in s : f[r] \in Nat
    BY <2>1
  <2>3. \E r \in s : \A q \in s : f[r] <= f[q]
    <3> HIDE DEF f
    <3> QED  BY <2>2, LeastValue
  <2>4. \E r \in s : \A q \in s : r >= q
    BY <2>1, <2>3
  <2> QED  BY <2>4 DEF Max
<1>2. \A s \in (SUBSET Ids) \ {{}} : LastId[s] = Max(s)
  BY DEF LastId
<1>3. LastId \in [(SUBSET Ids) \ {{}} -> Ids]
  BY <1>1 DEF LastId
<1> QED  BY <1>1, <1>2, <1>3 DEF Chooses

LEMMA LastOfFirst ==
  ASSUME FitnessConstants, NEW n \in Nat, n + 1 <= Count
  PROVE  /\ 1 .. (n + 1) \in (SUBSET Ids) \ {{}} /\ Max(1 .. (n + 1)) = n + 1
         /\ (1 .. (n + 1)) \ {n + 1} = 1 .. n /\ n + 1 \in Ids
<1>1. Count \in Nat
  BY IdsFinite
<1>2. PICK s : s = 1 .. (n + 1)
  OBVIOUS
<1>3. s \in (SUBSET Ids) \ {{}} /\ n + 1 \in s /\ \A r \in s : r \in Int /\ r <= n + 1
  BY <1>1, <1>2 DEF Ids
<1>4. Max(s) \in s /\ \A q \in s : Max(s) >= q
  <2>1. \E r \in s : \A q \in s : r >= q
    BY <1>3
  <2> QED  BY <2>1 DEF Max
<1>5. Max(s) = n + 1
  <2>1. Max(s) \in Int /\ Max(s) <= n + 1 /\ Max(s) >= n + 1
    BY <1>3, <1>4
  <2> QED  BY <2>1
<1>6. s \ {n + 1} = 1 .. n
  BY <1>2
<1> QED  BY <1>2, <1>3, <1>5, <1>6

\* The values of a fold along the samples, after each of them.
Runs(run, origin, F) == run[0] = origin /\ \A i \in Ids : run[i] = F[i][run[i - 1]]

\* What is known of the fold itself before its values are known to be in T.
AlongWithin(h, T, origin, F) ==
  /\ h[{}] = origin
  /\ \A s \in (SUBSET Ids) \ {{}} :
       h[s \ {Max(s)}] \in T => h[s] = F[Max(s)][h[s \ {Max(s)}]]

LEMMA FoldRuns ==
  ASSUME FitnessConstants, NEW T, NEW origin \in T, NEW F \in [Ids -> [T -> T]],
         NEW h, AlongWithin(h, T, origin, F)
  PROVE  \E run \in [0 .. Count -> T] : Runs(run, origin, F) /\ h[Ids] = run[Count]
<1> DEFINE run == [n \in 0 .. Count |-> h[1 .. n]]
           X == {n \in Nat : n <= Count => h[1 .. n] \in T}
<1>1. Count \in Nat
  BY IdsFinite
<1>2. 1 .. 0 = {} /\ h[{}] = origin
  BY DEF AlongWithin
<1>3. ASSUME NEW n \in Nat, n + 1 <= Count, h[1 .. n] \in T
      PROVE  h[1 .. (n + 1)] = F[n + 1][h[1 .. n]] /\ h[1 .. (n + 1)] \in T
  <2>1. PICK s, m : s = 1 .. (n + 1) /\ m = n + 1
    OBVIOUS
  <2>2. s \in (SUBSET Ids) \ {{}} /\ Max(s) = m /\ s \ {m} = 1 .. n /\ m \in Ids
    BY <1>3, <2>1, LastOfFirst
  <2>3. h[s] = F[m][h[1 .. n]]
    BY <2>2, <1>3 DEF AlongWithin
  <2>4. F[m][h[1 .. n]] \in T
    BY <2>2, <1>3
  <2> QED  BY <2>1, <2>3, <2>4
<1>4. Nat \subseteq X
  <2>1. 0 \in X
    BY <1>2
  <2>2. ASSUME NEW n \in Nat, n \in X PROVE n + 1 \in X
    BY <2>2, <1>1, <1>3
  <2> HIDE DEF X
  <2> QED  BY <2>1, <2>2, SetInduction
<1>5. \A n \in 0 .. Count : h[1 .. n] \in T
  BY <1>4, <1>1
<1>6. run \in [0 .. Count -> T]
  BY <1>5
<1>7. ASSUME NEW i \in Ids PROVE run[i] = F[i][run[i - 1]]
  <2>1. PICK n \in Nat : n + 1 = i /\ i - 1 = n
    <3>1. i - 1 \in Nat /\ (i - 1) + 1 = i
      BY <1>1 DEF Ids
    <3> QED  BY <3>1
  <2>2. n + 1 <= Count /\ n \in 0 .. Count /\ i \in 0 .. Count
    BY <2>1, <1>1 DEF Ids
  <2>3. h[1 .. (n + 1)] = F[n + 1][h[1 .. n]]
    BY <2>2, <1>3, <1>5
  <2> QED  BY <2>1, <2>2, <2>3
<1>8. run[0] = origin /\ h[Ids] = run[Count]
  BY <1>1, <1>2 DEF Ids
<1>9. Runs(run, origin, F)
  <2> HIDE DEF run
  <2> QED  BY <1>7, <1>8 DEF Runs
<1> HIDE DEF run
<1> QED  BY <1>6, <1>8, <1>9

AlongIds(g, origin, F) ==
  \A s \in SUBSET Ids : g[s] = IF s = {} THEN origin ELSE F[Max(s)][g[s \ {Max(s)}]]

LEMMA RunExists ==
  ASSUME FitnessConstants, NEW T, NEW origin \in T, NEW F \in [Ids -> [T -> T]]
  PROVE  \E g \in [SUBSET Ids -> T] : AlongIds(g, origin, F)
<1>1. PICK g \in [SUBSET Ids -> T] : Folds(g, Ids, origin, F, LastId)
  BY IdsFinite, LastChooses, FoldExists
<1>2. \A s \in SUBSET Ids : g[s] = IF s = {} THEN origin ELSE F[Max(s)][g[s \ {Max(s)}]]
  BY <1>1, LastChooses DEF Folds
<1> QED  BY <1>2 DEF AlongIds

-----------------------------------------------------------------------------
(* updateFit, sample by sample.                                            *)

Known == [fit : [Ids -> Int], dervs : [Ids -> [Entries -> Int]]]

LEMMA CheckValue == \A p, X : Check(p, X) \in {0, 1} /\ Check(p, X) \in Int
BY DEF Check

LEMMA VisitTyped ==
  ASSUME NEW i \in Ids, NEW p, NEW doDerv \in BOOLEAN, NEW k \in Known
  PROVE  Visit(i, p, doDerv, k) \in Known
<1> DEFINE fit == OwnFit(i, p, k.fit)
           own == IF doDerv THEN OwnDervs(i, p, fit, k.dervs) ELSE k.dervs[i]
<1>1. k.fit \in [Ids -> Int] /\ k.dervs \in [Ids -> [Entries -> Int]]
  BY DEF Known
<1>2. fit \in Int
  BY <1>1, CheckValue DEF OwnFit
<1>3. OwnDervs(i, p, fit, k.dervs) \in [Entries -> Int]
  <2>1. k.dervs[i] \in [Entries -> Int]
    BY <1>1
  <2> HIDE DEF fit
  <2> QED  BY <2>1, <1>2, CheckValue DEF OwnDervs
<1>4. own \in [Entries -> Int]
  BY <1>1, <1>3
<1> HIDE DEF fit, own
<1>5. ASSUME NEW f \in [Ids -> Int] PROVE Spread(i, fit, f) \in [Ids -> Int]
  BY <1>2 DEF Spread
<1>6. ASSUME NEW d \in [Ids -> [Entries -> Int]] PROVE SpreadDervs(i, own, d) \in [Ids -> [Entries -> Int]]
  <2>1. ASSUME NEW j \in Ids PROVE SpreadDervs(i, own, d)[j] \in [Entries -> Int]
    <3>1. d[j] \in [Entries -> Int]
      OBVIOUS
    <3> QED  BY <3>1, <1>4 DEF SpreadDervs
  <2> QED  BY <2>1 DEF SpreadDervs
<1>7. [k.fit EXCEPT ![i] = fit] \in [Ids -> Int] /\ [k.dervs EXCEPT ![i] = own] \in [Ids -> [Entries -> Int]]
  BY <1>1, <1>2, <1>4
<1>8. Visit(i, p, doDerv, k)
        = [fit   |-> Spread(i, fit, [k.fit EXCEPT ![i] = fit]),
           dervs |-> IF doDerv THEN SpreadDervs(i, own, [k.dervs EXCEPT ![i] = own]) ELSE k.dervs]
  BY DEF Visit, fit, own
<1>9. Spread(i, fit, [k.fit EXCEPT ![i] = fit]) \in [Ids -> Int]
  BY <1>5, <1>7
<1>10. (IF doDerv THEN SpreadDervs(i, own, [k.dervs EXCEPT ![i] = own]) ELSE k.dervs)
         \in [Ids -> [Entries -> Int]]
  BY <1>1, <1>6, <1>7
<1>11. PICK a, b : /\ a = Spread(i, fit, [k.fit EXCEPT ![i] = fit])
                   /\ b = IF doDerv THEN SpreadDervs(i, own, [k.dervs EXCEPT ![i] = own]) ELSE k.dervs
  OBVIOUS
<1>12. [fit |-> a, dervs |-> b] \in Known
  BY <1>9, <1>10, <1>11 DEF Known
<1> QED  BY <1>8, <1>11, <1>12

Updated(p, doDerv, start) ==
  FoldLeft(LAMBDA k, i : Visit(i, p, doDerv, k), start, [i \in Ids |-> i])

LEMMA UpdateRuns ==
  ASSUME FitnessConstants, NEW p, NEW doDerv \in BOOLEAN, NEW start \in Known
  PROVE  \E run \in [0 .. Count -> Known] :
           /\ run[0] = start /\ \A i \in Ids : run[i] = Visit(i, p, doDerv, run[i - 1])
           /\ Updated(p, doDerv, start) = run[Count]
<1> DEFINE F == [i \in Ids |-> [k \in Known |-> Visit(i, p, doDerv, k)]]
           Eq(it) == it = [s \in SUBSET Ids |->
                             IF s = {} THEN start
                             ELSE Visit([i \in Ids |-> i][Max(s)], p, doDerv, it[s \ {Max(s)}])]
           h == CHOOSE it : Eq(it)
<1>1. F \in [Ids -> [Known -> Known]]
  BY VisitTyped
<1>2. ASSUME NEW i \in Ids, NEW k \in Known PROVE F[i][k] = Visit(i, p, doDerv, k)
  OBVIOUS
<1>3. \A s \in (SUBSET Ids) \ {{}} : [i \in Ids |-> i][Max(s)] = Max(s) /\ Max(s) \in Ids
  BY LastChooses
<1> HIDE DEF F
<1>4. \E g : Eq(g)
  <2>1. PICK g \in [SUBSET Ids -> Known] : AlongIds(g, start, F)
    BY <1>1, RunExists
  <2>2. ASSUME NEW s \in SUBSET Ids
        PROVE  g[s] = IF s = {} THEN start
                      ELSE Visit([i \in Ids |-> i][Max(s)], p, doDerv, g[s \ {Max(s)}])
    <3>1. CASE s # {}
      <4>1. g[s \ {Max(s)}] \in Known /\ g[s] = F[Max(s)][g[s \ {Max(s)}]]
        BY <2>1, <3>1 DEF AlongIds
      <4>2. g[s] = Visit(Max(s), p, doDerv, g[s \ {Max(s)}])
        BY <4>1, <3>1, <1>2, <1>3
      <4>3. [i \in Ids |-> i][Max(s)] = Max(s)
        BY <3>1, <1>3
      <4> QED  BY <3>1, <4>2, <4>3
    <3> QED  BY <3>1, <2>1 DEF AlongIds
  <2>3. g = [s \in SUBSET Ids |-> g[s]]
    OBVIOUS
  <2>4. Eq(g)
    BY <2>2, <2>3
  <2> HIDE DEF Eq
  <2> QED  BY <2>4
<1>5. Eq(h)
  <2> HIDE DEF Eq
  <2> QED  BY <1>4
<1>6. Updated(p, doDerv, start) = h[Ids]
  BY DEF Updated, FoldLeft, MapThenFoldSet
<1> HIDE DEF h
<1>7. h[{}] = start
  BY <1>5
<1>8. ASSUME NEW s \in (SUBSET Ids) \ {{}}, h[s \ {Max(s)}] \in Known
      PROVE  h[s] = F[Max(s)][h[s \ {Max(s)}]]
  <2>1. h[s] = [t \in SUBSET Ids |->
                  IF t = {} THEN start
                  ELSE Visit([i \in Ids |-> i][Max(t)], p, doDerv, h[t \ {Max(t)}])][s]
    BY <1>5
  <2>2. h[s] = Visit([i \in Ids |-> i][Max(s)], p, doDerv, h[s \ {Max(s)}])
    BY <2>1
  <2>3. [i \in Ids |-> i][Max(s)] = Max(s) /\ Max(s) \in Ids
    BY <1>3
  <2> HIDE DEF Eq
  <2> QED  BY <2>2, <2>3, <1>2, <1>8
<1> HIDE DEF Eq
<1>9. PICK run \in [0 .. Count -> Known] : Runs(run, start, F) /\ h[Ids] = run[Count]
  <2>1. AlongWithin(h, Known, start, F)
    BY <1>7, <1>8 DEF AlongWithin
  <2> QED  BY <1>1, <2>1, FoldRuns
<1>10. ASSUME NEW i \in Ids PROVE run[i] = Visit(i, p, doDerv, run[i - 1])
  <2>1. i - 1 \in 0 .. Count
    BY IdsFinite DEF Ids
  <2>2. run[i - 1] \in Known
    BY <2>1
  <2>3. run[i] = F[i][run[i - 1]]
    BY <1>9 DEF Runs
  <2> QED  BY <2>2, <2>3, <1>2
<1>11. run[0] = start
  BY <1>9 DEF Runs
<1> QED  BY <1>6, <1>9, <1>10, <1>11

-----------------------------------------------------------------------------
(* What an answer for one set of rows tells of another.                    *)

LEMMA CheckMonotone ==
  ASSUME FitnessConstants, NEW q, NEW X \in SUBSET RowIds, NEW Y \in SUBSET X, Check(q, X) = 1
  PROVE  Check(q, Y) = 1
<1> DEFINE T == {q[r] : r \in X}
           f == [r \in X |-> q[r]]
           U == {q[r] : r \in Y}
           g == [r \in Y |-> q[r]]
<1>1. Cardinality(T) = Cardinality(X) /\ T \in StrongUsp
  BY DEF Check
<1>2. IsFiniteSet(X) /\ IsFiniteSet(Y)
  BY RowIdsFinite, FS_Subset
<1>3. f \in Surjection(X, T)
  BY DEF Surjection
<1>4. f \in Injection(X, T)
  <2> HIDE DEF f, T
  <2> QED  BY <1>1, <1>2, <1>3, FS_SurjSameCardinalityImpliesInj
<1>5. \A r, t \in X : q[r] = q[t] => r = t
  BY <1>4 DEF Injection, IsInjective
<1>6. g \in Surjection(Y, U)
  BY DEF Surjection
<1>7. g \in Injection(Y, U)
  BY <1>5 DEF Injection, IsInjective
<1>8. Cardinality(U) = Cardinality(Y)
  <2> HIDE DEF g, U
  <2> QED  BY <1>2, <1>6, <1>7, FS_Surjection
<1>9. U \in StrongUsp
  <2>1. U \in SUBSET T
    OBVIOUS
  <2> HIDE DEF U, T
  <2> QED  BY <1>1, <2>1 DEF FitnessConstants
<1> QED  BY <1>8, <1>9 DEF Check

LEMMA NeighborFacts ==
  ASSUME GraphExact, NEW i \in Ids, NEW j \in Ids
  PROVE  /\ j \in neighbors[i] => subset[j] \subseteq subset[i]
         /\ -j \in neighbors[i] => subset[i] \subseteq subset[j]
<1>1. neighbors[i] = UNION {Neighbor(i, q) : q \in Ids}
  BY DEF GraphExact
<1>2. ASSUME j \in neighbors[i] PROVE subset[j] \subseteq subset[i]
  <2>1. PICK q \in Ids : j \in Neighbor(i, q)
    BY <1>1, <1>2
  <2>2. j # -q
    BY DEF Ids
  <2> QED  BY <2>1, <2>2 DEF Neighbor
<1>3. ASSUME -j \in neighbors[i] PROVE subset[i] \subseteq subset[j]
  <2>1. PICK q \in Ids : -j \in Neighbor(i, q)
    BY <1>1, <1>3
  <2>2. -j # q /\ (-j = -q => j = q)
    BY DEF Ids
  <2> QED  BY <2>1, <2>2 DEF Neighbor
<1> QED  BY <1>2, <1>3

\* What spreads from a sample to a neighbour is right for it.
LEMMA ImpliedTrue ==
  ASSUME FitnessConstants, GraphExact, NEW i \in Ids, NEW j \in Ids, NEW q,
         IsNeighbor(i, j), Implied(i, j, Check(q, subset[i]))
  PROVE  Check(q, subset[j]) = Check(q, subset[i])
<1>1. subset[i] \in SUBSET RowIds /\ subset[j] \in SUBSET RowIds
  BY DEF GraphExact, Samples
<1>2. CASE j \in neighbors[i]
  <2>1. Check(q, subset[i]) = 1 /\ subset[j] \in SUBSET subset[i]
    BY <1>2, NeighborFacts DEF Implied
  <2> QED  BY <1>1, <2>1, CheckMonotone
<1>3. CASE j \notin neighbors[i]
  <2>1. Check(q, subset[i]) = 0 /\ subset[i] \in SUBSET subset[j]
    BY <1>3, NeighborFacts DEF Implied, IsNeighbor
  <2>2. Check(q, subset[j]) # 1
    BY <1>1, <2>1, CheckMonotone
  <2> QED  BY <2>1, <2>2, CheckValue
<1> QED  BY <1>2, <1>3

LEMMA SameRows ==
  ASSUME NEW q, NEW t, NEW X, \A r \in X : q[r] = t[r]
  PROVE  Check(q, X) = Check(t, X)
<1>1. {q[r] : r \in X} = {t[r] : r \in X}
  OBVIOUS
<1> QED  BY <1>1 DEF Check

LEMMA PutFacts ==
  ASSUME NEW q \in [RowIds -> RowValues], NEW e \in Entries
  PROVE  /\ q[e[1]][e[2]] = e[3] => Put(q, e) = q
         /\ \A t \in [RowIds -> RowValues], r \in RowIds :
              q[r] = t[r] => Put(q, e)[r] = Put(t, e)[r]
<1>1. e[1] \in RowIds /\ e[2] \in Columns /\ e[3] \in Values
  BY DEF Entries
<1>2. ASSUME q[e[1]][e[2]] = e[3] PROVE Put(q, e) = q
  <2>1. q[e[1]] \in [Columns -> Values]
    BY <1>1 DEF RowValues
  <2>2. [q[e[1]] EXCEPT ![e[2]] = e[3]] = q[e[1]]
    BY <2>1, <1>2
  <2>3. [q EXCEPT ![e[1]] = [q[e[1]] EXCEPT ![e[2]] = e[3]]] = q
    BY <2>2
  <2>4. Put(q, e) = [q EXCEPT ![e[1]] = [q[e[1]] EXCEPT ![e[2]] = e[3]]]
    BY DEF Put
  <2> QED  BY <2>3, <2>4
<1>3. ASSUME NEW t \in [RowIds -> RowValues], NEW r \in RowIds, q[r] = t[r]
      PROVE  Put(q, e)[r] = Put(t, e)[r]
  BY <1>1, <1>3 DEF Put
<1> QED  BY <1>2, <1>3

-----------------------------------------------------------------------------
(* What the caches know of a puzzle q.                                     *)

FitTrue(f, q)   == \A i \in Ids : f[i] # Unknown => f[i] = Check(q, subset[i])
DervsTrue(d, q) == \A i \in Ids, e \in Entries :
                     e[1] \in subset[i] /\ d[i][e] # Unknown => d[i][e] = Check(Put(q, e), subset[i])
AllDervs(d, i)  == \A e \in Entries : e[1] \in subset[i] => d[i][e] # Unknown

LEMMA SpreadTrue ==
  ASSUME FitnessConstants, GraphExact, NEW q, NEW i \in Ids, NEW f \in [Ids -> Int], FitTrue(f, q)
  PROVE  LET fit == OwnFit(i, q, f)
             new == Spread(i, fit, [f EXCEPT ![i] = fit])
         IN  /\ fit = Check(q, subset[i])
             /\ FitTrue(new, q) /\ new[i] # Unknown
             /\ \A j \in Ids : f[j] # Unknown => new[j] # Unknown
<1> DEFINE fit == OwnFit(i, q, f)
           old == [f EXCEPT ![i] = fit]
           new == Spread(i, fit, old)
<1>1. fit = Check(q, subset[i]) /\ fit # Unknown
  BY CheckValue DEF OwnFit, FitTrue, Unknown
<1> HIDE DEF fit
<1>2. ASSUME NEW j \in Ids PROVE old[j] = IF j = i THEN fit ELSE f[j]
  OBVIOUS
<1>3. FitTrue(old, q)
  BY <1>1, <1>2 DEF FitTrue
<1> HIDE DEF old
<1>4. ASSUME NEW j \in Ids
      PROVE  /\ new[j] # Unknown => new[j] = Check(q, subset[j])
             /\ old[j] # Unknown => new[j] = old[j]
  <2>1. CASE IsNeighbor(i, j) /\ old[j] = Unknown /\ Implied(i, j, fit)
    <3>1. new[j] = fit
      BY <2>1 DEF Spread
    <3>2. Check(q, subset[j]) = Check(q, subset[i])
      BY <2>1, <1>1, ImpliedTrue
    <3> QED  BY <2>1, <3>1, <3>2, <1>1
  <2>2. CASE ~(IsNeighbor(i, j) /\ old[j] = Unknown /\ Implied(i, j, fit))
    <3>1. new[j] = old[j]
      BY <2>2 DEF Spread
    <3> QED  BY <3>1, <1>3 DEF FitTrue
  <2> QED  BY <2>1, <2>2
<1> HIDE DEF new
<1>5. FitTrue(new, q)
  BY <1>4 DEF FitTrue
<1>6. new[i] # Unknown /\ \A j \in Ids : f[j] # Unknown => new[j] # Unknown
  BY <1>1, <1>2, <1>4
<1> QED  BY <1>1, <1>5, <1>6 DEF new, old, fit

LEMMA SpreadDervsTrue ==
  ASSUME FitnessConstants, GraphExact, NEW q \in [RowIds -> RowValues], NEW i \in Ids,
         NEW d \in [Ids -> [Entries -> Int]], DervsTrue(d, q),
         NEW fit, fit = Check(q, subset[i])
  PROVE  LET own == OwnDervs(i, q, fit, d)
             new == SpreadDervs(i, own, [d EXCEPT ![i] = own])
         IN  /\ DervsTrue(new, q) /\ AllDervs(new, i)
             /\ \A j \in Ids : AllDervs(d, j) => AllDervs(new, j)
<1> DEFINE own == OwnDervs(i, q, fit, d)
           old == [d EXCEPT ![i] = own]
           new == SpreadDervs(i, own, old)
<1>1. ASSUME NEW e \in Entries, e[1] \in subset[i]
      PROVE  own[e] = Check(Put(q, e), subset[i]) /\ own[e] # Unknown
  <2>1. CASE d[i][e] # Unknown
    <3>1. own[e] = d[i][e]
      BY <2>1 DEF OwnDervs
    <3> QED  BY <2>1, <3>1, <1>1 DEF DervsTrue
  <2>2. CASE d[i][e] = Unknown
    <3>1. own[e] = IF q[e[1]][e[2]] = e[3] THEN fit ELSE Check(Put(q, e), subset[i])
      BY <2>2, <1>1 DEF OwnDervs
    <3>2. q[e[1]][e[2]] = e[3] => Put(q, e) = q
      BY PutFacts
    <3>3. own[e] = Check(Put(q, e), subset[i])
      BY <3>1, <3>2
    <3> QED  BY <3>3, CheckValue DEF Unknown
  <2> QED  BY <2>1, <2>2
<1> HIDE DEF own
<1>2. ASSUME NEW j \in Ids PROVE old[j] = IF j = i THEN own ELSE d[j]
  OBVIOUS
<1>3. DervsTrue(old, q)
  BY <1>1, <1>2 DEF DervsTrue
<1> HIDE DEF old
<1>4. ASSUME NEW j \in Ids, NEW e \in Entries, e[1] \in subset[j]
      PROVE  /\ new[j][e] # Unknown => new[j][e] = Check(Put(q, e), subset[j])
             /\ old[j][e] # Unknown => new[j][e] = old[j][e]
  <2>1. CASE IsNeighbor(i, j) /\ e[1] \in subset[i] /\ old[j][e] = Unknown /\ Implied(i, j, own[e])
    <3>1. new[j][e] = own[e]
      BY <2>1, <1>4 DEF SpreadDervs
    <3>2. Check(Put(q, e), subset[j]) = Check(Put(q, e), subset[i])
      BY <2>1, <1>1, ImpliedTrue
    <3> QED  BY <2>1, <3>1, <3>2, <1>1
  <2>2. CASE ~(IsNeighbor(i, j) /\ e[1] \in subset[i] /\ old[j][e] = Unknown /\ Implied(i, j, own[e]))
    <3>1. new[j][e] = old[j][e]
      BY <2>2 DEF SpreadDervs
    <3> QED  BY <3>1, <1>3, <1>4 DEF DervsTrue
  <2> QED  BY <2>1, <2>2
<1> HIDE DEF new
<1>5. DervsTrue(new, q)
  BY <1>4 DEF DervsTrue
<1>6. AllDervs(new, i)
  BY <1>1, <1>2, <1>4 DEF AllDervs
<1>7. ASSUME NEW j \in Ids, AllDervs(d, j) PROVE AllDervs(new, j)
  <2>1. CASE j = i
    BY <2>1, <1>6
  <2>2. CASE j # i
    BY <2>2, <1>2, <1>4, <1>7 DEF AllDervs
  <2> QED  BY <2>1, <2>2
<1> QED  BY <1>5, <1>6, <1>7 DEF new, old, own

LEMMA VisitTrue ==
  ASSUME FitnessConstants, GraphExact, NEW q \in [RowIds -> RowValues], NEW i \in Ids,
         NEW doDerv \in BOOLEAN, NEW k \in Known, FitTrue(k.fit, q), DervsTrue(k.dervs, q),
         NEW n, n = Visit(i, q, doDerv, k)
  PROVE  /\ FitTrue(n.fit, q) /\ DervsTrue(n.dervs, q)
         /\ n.fit[i] # Unknown /\ (doDerv => AllDervs(n.dervs, i))
         /\ \A j \in Ids : k.fit[j] # Unknown => n.fit[j] # Unknown
         /\ \A j \in Ids : AllDervs(k.dervs, j) => AllDervs(n.dervs, j)
<1>1. k.fit \in [Ids -> Int] /\ k.dervs \in [Ids -> [Entries -> Int]]
  BY DEF Known
<1>2. PICK fit, f, d : /\ fit = OwnFit(i, q, k.fit)
                       /\ f = Spread(i, fit, [k.fit EXCEPT ![i] = fit])
                       /\ d = SpreadDervs(i, OwnDervs(i, q, fit, k.dervs),
                                          [k.dervs EXCEPT ![i] = OwnDervs(i, q, fit, k.dervs)])
  OBVIOUS
<1>3. n.fit = f /\ n.dervs = IF doDerv THEN d ELSE k.dervs
  BY <1>2 DEF Visit
<1>4. /\ fit = Check(q, subset[i]) /\ FitTrue(f, q) /\ f[i] # Unknown
      /\ \A j \in Ids : k.fit[j] # Unknown => f[j] # Unknown
  BY <1>1, <1>2, SpreadTrue
<1>5. DervsTrue(d, q) /\ AllDervs(d, i) /\ \A j \in Ids : AllDervs(k.dervs, j) => AllDervs(d, j)
  BY <1>1, <1>2, <1>4, SpreadDervsTrue
<1> QED  BY <1>3, <1>4, <1>5

\* After all samples were visited everything is known that was asked for, and true.
LEMMA UpdateTrue ==
  ASSUME FitnessConstants, GraphExact, NEW q \in [RowIds -> RowValues], NEW doDerv \in BOOLEAN,
         NEW start \in Known, FitTrue(start.fit, q), DervsTrue(start.dervs, q),
         NEW known, known = Updated(q, doDerv, start)
  PROVE  /\ known \in Known /\ FitTrue(known.fit, q) /\ DervsTrue(known.dervs, q)
         /\ \A i \in Ids : known.fit[i] # Unknown /\ (doDerv => AllDervs(known.dervs, i))
         /\ \A i \in Ids : AllDervs(start.dervs, i) => AllDervs(known.dervs, i)
<1>1. PICK run \in [0 .. Count -> Known] :
        /\ run[0] = start /\ \A i \in Ids : run[i] = Visit(i, q, doDerv, run[i - 1])
        /\ known = run[Count]
  BY UpdateRuns
<1> DEFINE Good(n) ==
             /\ FitTrue(run[n].fit, q) /\ DervsTrue(run[n].dervs, q)
             /\ \A i \in Ids : i <= n => run[n].fit[i] # Unknown /\ (doDerv => AllDervs(run[n].dervs, i))
             /\ \A i \in Ids : AllDervs(start.dervs, i) => AllDervs(run[n].dervs, i)
           X == {n \in Nat : n <= Count => Good(n)}
<1>2. Count \in Nat
  BY IdsFinite
<1>3. 0 \in X
  <2>1. \A i \in Ids : ~(i <= 0)
    BY DEF Ids
  <2> QED  BY <1>1, <2>1
<1>4. ASSUME NEW n \in Nat, n \in X PROVE n + 1 \in X
  <2> SUFFICES ASSUME n + 1 <= Count PROVE Good(n + 1)
    OBVIOUS
  <2>1. PICK m : m = n + 1
    OBVIOUS
  <2>2. m \in Ids /\ m - 1 = n /\ n \in 0 .. Count /\ m \in 0 .. Count /\ n <= Count
    BY <2>1, <1>2 DEF Ids
  <2>3. Good(n)
    BY <1>4, <2>2
  <2>k. PICK k \in Known : k = run[n]
    BY <1>1, <2>2
  <2>4. PICK b : k = run[n] /\ b = run[m] /\ b = Visit(m, q, doDerv, k)
    BY <1>1, <2>2, <2>k
  <2>5. /\ FitTrue(k.fit, q) /\ DervsTrue(k.dervs, q)
        /\ \A i \in Ids : i <= n => k.fit[i] # Unknown /\ (doDerv => AllDervs(k.dervs, i))
        /\ \A i \in Ids : AllDervs(start.dervs, i) => AllDervs(k.dervs, i)
    BY <2>3, <2>4
  <2> HIDE DEF Good
  <2>6. /\ FitTrue(b.fit, q) /\ DervsTrue(b.dervs, q)
        /\ b.fit[m] # Unknown /\ (doDerv => AllDervs(b.dervs, m))
        /\ \A j \in Ids : k.fit[j] # Unknown => b.fit[j] # Unknown
        /\ \A j \in Ids : AllDervs(k.dervs, j) => AllDervs(b.dervs, j)
    BY <2>2, <2>4, <2>5, VisitTrue
  <2>7. ASSUME NEW i \in Ids, i <= m
        PROVE  b.fit[i] # Unknown /\ (doDerv => AllDervs(b.dervs, i))
    <3>1. i = m \/ i <= n
      BY <2>1, <2>7 DEF Ids
    <3> QED  BY <3>1, <2>5, <2>6
  <2>8. \A i \in Ids : AllDervs(start.dervs, i) => AllDervs(b.dervs, i)
    BY <2>5, <2>6
  <2>9. Good(m)
    BY <2>4, <2>6, <2>7, <2>8 DEF Good
  <2> QED  BY <2>1, <2>9
<1>5. Good(Count)
  <2>1. Nat \subseteq X
    <3> HIDE DEF X
    <3> QED  BY <1>3, <1>4, SetInduction
  <2> HIDE DEF Good
  <2> QED  BY <2>1, <1>2
<1>6. run[Count] \in Known /\ \A i \in Ids : i <= Count
  <2>1. Count \in 0 .. Count
    BY <1>2
  <2> QED  BY <2>1, <1>1, <1>2 DEF Ids
<1> QED  BY <1>1, <1>5, <1>6

-----------------------------------------------------------------------------
(* The caches from call to call.                                           *)

\* The fitness of q by the samples, as a sum.
Fit(q) == SumOver([i \in Ids |-> Check(q, subset[i])], Ids)

CacheTypes ==
  /\ fitnessOf \in [Ids -> Int] /\ dervsOf \in [Ids -> [Entries -> Int]]
  /\ dervsValid \in [Ids -> BOOLEAN] /\ cachedP \in [RowIds -> RowValues]

CacheTrue ==
  /\ FitTrue(fitnessOf, cachedP) /\ DervsTrue(dervsOf, cachedP)
  /\ \A i \in Ids : dervsValid[i] => fitnessOf[i] # Unknown /\ AllDervs(dervsOf, i)
  /\ fitness # Unknown /\ (\A i \in Ids : fitnessOf[i] # Unknown) => fitness = Fit(cachedP)
  /\ (\A i \in Ids : dervsValid[i]) =>
       \A e \in Entries : dervs[e] = Fit(Put(cachedP, e)) - Fit(cachedP)

AnswerTrue ==
  /\ fitAnswer.call = "getFit" => fitAnswer.result = Fit(fitAnswer.p)
  /\ fitAnswer.call = "getFitDerv" =>
       \A e \in Entries : fitAnswer.result[e] = Fit(Put(fitAnswer.p, e)) - Fit(fitAnswer.p)

CacheInv == GraphInv /\ CacheTypes /\ CacheTrue /\ AnswerTrue

\* The sum of what is known of the samples is the fitness.
LEMMA KnownSum ==
  ASSUME FitnessConstants, NEW q, NEW f, \A i \in Ids : f[i] = Check(q, subset[i])
  PROVE  Sum(f) = Fit(q)
<1> DEFINE g == [i \in Ids |-> Check(q, subset[i])]
<1>1. \A i \in Ids : f[i] \in Int /\ f[i] = g[i]
  BY CheckValue
<1> HIDE DEF g
<1>2. Sum(f) = SumOver(f, Ids)
  <2>1. MapThenSumSet(LAMBDA i : f[i], Ids) = SumOver(f, Ids)
    BY <1>1, IdsFinite, ValueSum
  <2> QED  BY <2>1 DEF Sum
<1>3. SumOver(f, Ids) = SumOver(g, Ids)
  BY <1>1, IdsFinite, SumFacts
<1> QED  BY <1>2, <1>3 DEF Fit, g

LEMMA DervSum ==
  ASSUME FitnessConstants, GraphExact, NEW q \in [RowIds -> RowValues], NEW e \in Entries, NEW k,
         FitTrue(k.fit, q), DervsTrue(k.dervs, q),
         \A i \in Ids : k.fit[i] # Unknown /\ AllDervs(k.dervs, i)
  PROVE  DervAt(k, e) = Fit(Put(q, e))
<1> DEFINE f == [i \in Ids |-> IF e[1] \in subset[i] THEN k.dervs[i][e] ELSE k.fit[i]]
<1>1. ASSUME NEW i \in Ids PROVE f[i] = Check(Put(q, e), subset[i])
  <2>1. CASE e[1] \in subset[i]
    BY <2>1 DEF DervsTrue, AllDervs
  <2>2. CASE e[1] \notin subset[i]
    <3>1. f[i] = Check(q, subset[i])
      BY <2>2 DEF FitTrue
    <3>2. \A r \in subset[i] : Put(q, e)[r] = q[r]
      <4>1. subset[i] \subseteq RowIds
        BY DEF GraphExact, Samples
      <4> QED  BY <2>2, <4>1 DEF Put
    <3>3. Check(q, subset[i]) = Check(Put(q, e), subset[i])
      BY <3>2, SameRows
    <3> QED  BY <3>1, <3>3
  <2> QED  BY <2>1, <2>2
<1>2. DervAt(k, e) = Sum(f)
  BY DEF DervAt
<1> HIDE DEF f
<1> QED  BY <1>1, <1>2, KnownSum

\* What is kept of the samples without a changed row is true of the new puzzle.
LEMMA StartTrue ==
  ASSUME FitnessConstants, GraphExact, CacheTypes, CacheTrue, NEW q \in [RowIds -> RowValues],
         NEW start,
         start = [fit   |-> [i \in Ids |-> IF i \in Outdated(q) THEN Unknown ELSE fitnessOf[i]],
                  dervs |-> [i \in Ids |-> IF i \in Outdated(q) THEN NoDervs ELSE dervsOf[i]]]
  PROVE  /\ start \in Known /\ FitTrue(start.fit, q) /\ DervsTrue(start.dervs, q)
         /\ \A i \in Ids : i \notin Outdated(q) /\ AllDervs(dervsOf, i) => AllDervs(start.dervs, i)
<1>1. Unknown \in Int /\ NoDervs \in [Entries -> Int] /\ \A e \in Entries : NoDervs[e] = Unknown
  BY DEF Unknown, NoDervs
<1>2. PICK f, d : /\ f = [i \in Ids |-> IF i \in Outdated(q) THEN Unknown ELSE fitnessOf[i]]
                  /\ d = [i \in Ids |-> IF i \in Outdated(q) THEN NoDervs ELSE dervsOf[i]]
  OBVIOUS
<1>3. start = [fit |-> f, dervs |-> d]
  BY <1>2
<1>4. f \in [Ids -> Int] /\ d \in [Ids -> [Entries -> Int]]
  <2>1. f \in [Ids -> Int]
    BY <1>1, <1>2 DEF CacheTypes
  <2>2. d \in [Ids -> [Entries -> Int]]
    BY <1>1, <1>2 DEF CacheTypes
  <2> QED  BY <2>1, <2>2
<1>5. start \in Known
  BY <1>3, <1>4 DEF Known
<1>6. ASSUME NEW i \in Ids, i \notin Outdated(q)
      PROVE  subset[i] \subseteq RowIds /\ \A r \in subset[i] : q[r] = cachedP[r]
  <2>1. subset[i] \subseteq RowIds
    BY DEF GraphExact, Samples
  <2> QED  BY <2>1, <1>6 DEF Outdated, ChangedRows
<1>7. ASSUME NEW i \in Ids, f[i] # Unknown PROVE f[i] = Check(q, subset[i])
  <2>1. i \notin Outdated(q) /\ f[i] = fitnessOf[i]
    BY <1>2, <1>7
  <2>2. f[i] = Check(cachedP, subset[i])
    BY <2>1, <1>7 DEF CacheTrue, FitTrue
  <2>3. Check(q, subset[i]) = Check(cachedP, subset[i])
    BY <2>1, <1>6, SameRows
  <2> QED  BY <2>2, <2>3
<1>8. ASSUME NEW i \in Ids, NEW e \in Entries, e[1] \in subset[i], d[i][e] # Unknown
      PROVE  d[i][e] = Check(Put(q, e), subset[i])
  <2>1. i \notin Outdated(q) /\ d[i] = dervsOf[i]
    BY <1>1, <1>2, <1>8
  <2>2. d[i][e] = Check(Put(cachedP, e), subset[i])
    BY <2>1, <1>8 DEF CacheTrue, DervsTrue
  <2>3. \A r \in subset[i] : Put(q, e)[r] = Put(cachedP, e)[r]
    <3>1. cachedP \in [RowIds -> RowValues]
      BY DEF CacheTypes
    <3> QED  BY <3>1, <2>1, <1>6, PutFacts
  <2>4. Check(Put(q, e), subset[i]) = Check(Put(cachedP, e), subset[i])
    BY <2>3, SameRows
  <2> QED  BY <2>2, <2>4
<1>9. ASSUME NEW i \in Ids, i \notin Outdated(q), AllDervs(dervsOf, i) PROVE AllDervs(d, i)
  <2>1. d[i] = dervsOf[i]
    BY <1>2, <1>9
  <2> QED  BY <2>1, <1>9 DEF AllDervs
<1> QED  BY <1>3, <1>5, <1>7, <1>8, <1>9 DEF FitTrue, DervsTrue

LEMMA RefreshStep ==
  ASSUME FitnessConstants, GraphInv, CacheTypes, CacheTrue, NEW q \in FitPuzzles, NEW doDerv \in BOOLEAN,
         Refresh(q, doDerv), UNCHANGED <<subset, neighbors>>
  PROVE  /\ CacheTypes' /\ CacheTrue'
         /\ fitness' = Fit(q)' /\ (doDerv => \A e \in Entries : dervs'[e] = Fit(Put(q, e))' - Fit(q)')
<1>1. q \in [RowIds -> RowValues] /\ GraphExact
  BY DEF FitnessConstants, GraphInv
<1>2. /\ \A t : Fit(t)' = Fit(t)
      /\ \A f, t : FitTrue(f, t)' = FitTrue(f, t)
      /\ \A d, t : DervsTrue(d, t)' = DervsTrue(d, t)
      /\ \A d, i : AllDervs(d, i)' = AllDervs(d, i)
  BY DEF Fit, FitTrue, DervsTrue, AllDervs
<1>3. CASE MustUpdate(q, doDerv)
  <2> DEFINE start == [fit   |-> [i \in Ids |-> IF i \in Outdated(q) THEN Unknown ELSE fitnessOf[i]],
                       dervs |-> [i \in Ids |-> IF i \in Outdated(q) THEN NoDervs ELSE dervsOf[i]]]
             known == Updated(q, doDerv, start)
  <2>1. UpdateFit(q, doDerv)
    BY <1>3 DEF Refresh
  <2>2. /\ fitnessOf' = known.fit /\ dervsOf' = known.dervs
        /\ dervsValid' = [i \in Ids |-> doDerv \/ (dervsValid[i] /\ i \notin Outdated(q))]
        /\ fitness' = Sum(known.fit)
        /\ dervs' = IF doDerv THEN [e \in Entries |-> DervAt(known, e) - Sum(known.fit)] ELSE dervs
        /\ cachedP' = q
    BY <2>1 DEF UpdateFit, Updated
  <2>3. /\ start \in Known /\ FitTrue(start.fit, q) /\ DervsTrue(start.dervs, q)
        /\ \A i \in Ids : i \notin Outdated(q) /\ AllDervs(dervsOf, i) => AllDervs(start.dervs, i)
    BY <1>1, StartTrue
  <2> HIDE DEF start
  <2>4. /\ known \in Known /\ FitTrue(known.fit, q) /\ DervsTrue(known.dervs, q)
        /\ \A i \in Ids : known.fit[i] # Unknown /\ (doDerv => AllDervs(known.dervs, i))
        /\ \A i \in Ids : AllDervs(start.dervs, i) => AllDervs(known.dervs, i)
    BY <1>1, <2>3, UpdateTrue
  <2> HIDE DEF known
  <2>5. CacheTypes'
    BY <1>1, <2>2, <2>4 DEF CacheTypes, Known
  <2>6. fitness' = Fit(q)
    <3>1. \A i \in Ids : known.fit[i] = Check(q, subset[i])
      BY <2>4 DEF FitTrue
    <3> QED  BY <3>1, <2>2, KnownSum
  <2>7. ASSUME doDerv, NEW e \in Entries PROVE dervs'[e] = Fit(Put(q, e)) - Fit(q)
    <3>1. DervAt(known, e) = Fit(Put(q, e))
      BY <1>1, <2>4, <2>7, DervSum
    <3> QED  BY <3>1, <2>2, <2>6, <2>7
  <2>8. ASSUME NEW i \in Ids, dervsValid'[i] PROVE fitnessOf'[i] # Unknown /\ AllDervs(dervsOf', i)
    <3>1. doDerv \/ (dervsValid[i] /\ i \notin Outdated(q))
      BY <2>2, <2>8
    <3>2. AllDervs(known.dervs, i)
      BY <3>1, <2>3, <2>4 DEF CacheTrue
    <3> QED  BY <3>2, <2>2, <2>4
  <2>9. ASSUME \A i \in Ids : dervsValid'[i], NEW e \in Entries
        PROVE  dervs'[e] = Fit(Put(q, e)) - Fit(q)
    <3>1. CASE ~doDerv
      <4>1. \A i \in Ids : dervsValid[i] /\ i \notin Outdated(q)
        BY <2>2, <2>9, <3>1
      <4>2. q = cachedP
        <5>1. 1 \in Ids /\ subset[1] = RowIds
          BY <1>1, IdsFinite DEF GraphExact
        <5>2. ChangedRows(q) = {}
          BY <4>1, <5>1 DEF Outdated, ChangedRows
        <5>3. \A r \in RowIds : q[r] = cachedP[r]
          BY <5>2 DEF ChangedRows
        <5> QED  BY <1>1, <5>3 DEF CacheTypes
      <4>3. dervs' = dervs
        BY <2>2, <3>1
      <4> QED  BY <4>1, <4>2, <4>3 DEF CacheTrue
    <3> QED  BY <3>1, <2>7
  <2>10. CacheTrue'
    BY <1>2, <2>2, <2>4, <2>6, <2>8, <2>9 DEF CacheTrue
  <2> QED  BY <1>2, <2>5, <2>6, <2>7, <2>10
<1>4. CASE ~MustUpdate(q, doDerv)
  <2>1. UNCHANGED <<fitnessOf, dervsOf, dervsValid, fitness, dervs, cachedP>>
    BY <1>4 DEF Refresh
  <2>2. /\ q = cachedP /\ fitness # Unknown
        /\ \A i \in Ids : fitnessOf[i] # Unknown /\ (doDerv => dervsValid[i])
    <3>1. ChangedRows(q) = {}
      BY <1>4 DEF MustUpdate
    <3>2. \A r \in RowIds : q[r] = cachedP[r]
      BY <3>1 DEF ChangedRows
    <3> QED  BY <1>1, <1>4, <3>2 DEF MustUpdate, CacheTypes
  <2>3. CacheTypes'
    BY <2>1 DEF CacheTypes
  <2>4. CacheTrue'
    BY <1>2, <2>1 DEF CacheTrue
  <2> QED  BY <1>2, <2>1, <2>2, <2>3, <2>4 DEF CacheTrue
<1> QED  BY <1>3, <1>4

LEMMA BecomeStep ==
  ASSUME FitnessConstants, GraphInv, CacheTypes, CacheTrue, NEW i \in Ids, NEW X, Become(i, X)
  PROVE  CacheTypes' /\ CacheTrue' /\ AnswerTrue'
<1>1. /\ subset' = [subset EXCEPT ![i] = X] /\ subset \in [Ids -> Samples]
      /\ fitnessOf' = [fitnessOf EXCEPT ![i] = Unknown]
      /\ dervsValid' = [dervsValid EXCEPT ![i] = FALSE]
      /\ dervsOf' = [dervsOf EXCEPT ![i] = NoDervs]
      /\ UNCHANGED <<cachedP, fitness, dervs>>
      /\ fitAnswer' = [call |-> "none"]
  BY DEF Become, Forget, GraphInv
<1>2. Unknown \in Int /\ NoDervs \in [Entries -> Int] /\ \A e \in Entries : NoDervs[e] = Unknown
  BY DEF Unknown, NoDervs
<1>3. CacheTypes'
  BY <1>1, <1>2 DEF CacheTypes
<1>4. AnswerTrue'
  BY <1>1 DEF AnswerTrue
<1>5. \A j \in Ids : j # i => /\ subset'[j] = subset[j] /\ fitnessOf'[j] = fitnessOf[j]
                              /\ dervsOf'[j] = dervsOf[j] /\ dervsValid'[j] = dervsValid[j]
  BY <1>1 DEF CacheTypes
<1>6. fitnessOf'[i] = Unknown /\ dervsOf'[i] = NoDervs /\ dervsValid'[i] = FALSE
  BY <1>1 DEF CacheTypes
<1>7. FitTrue(fitnessOf, cachedP)'
  <2> SUFFICES ASSUME NEW j \in Ids, fitnessOf'[j] # Unknown
               PROVE  fitnessOf'[j] = Check(cachedP', subset'[j])
    BY DEF FitTrue
  <2>1. j # i
    BY <1>6
  <2> QED  BY <2>1, <1>1, <1>5 DEF CacheTrue, FitTrue
<1>8. DervsTrue(dervsOf, cachedP)'
  <2> SUFFICES ASSUME NEW j \in Ids, NEW e \in Entries, e[1] \in subset'[j], dervsOf'[j][e] # Unknown
               PROVE  dervsOf'[j][e] = Check(Put(cachedP', e), subset'[j])
    BY DEF DervsTrue
  <2>1. j # i
    BY <1>2, <1>6
  <2> QED  BY <2>1, <1>1, <1>5 DEF CacheTrue, DervsTrue
<1>9. ASSUME NEW j \in Ids, dervsValid'[j] PROVE fitnessOf'[j] # Unknown /\ AllDervs(dervsOf, j)'
  <2>1. j # i
    BY <1>6, <1>9
  <2>2. dervsValid[j]
    BY <2>1, <1>5, <1>9
  <2>3. fitnessOf[j] # Unknown /\ AllDervs(dervsOf, j)
    BY <2>2 DEF CacheTrue
  <2> QED  BY <2>1, <2>3, <1>5 DEF AllDervs
<1> QED  BY <1>3, <1>4, <1>6, <1>7, <1>8, <1>9 DEF CacheTrue

-----------------------------------------------------------------------------
(* getFit without a cache.                                                 *)

\* The sums that it is about, each with an operator of its own.
LEMMA TrueFitSum ==
  ASSUME NEW q, IsFiniteSet(Ids), NEW f, \A i \in Ids : f[i] = Check(q, subset[i]) /\ f[i] \in Int
  PROVE  TrueFit(q) = SumOver(f, Ids)
<1> DEFINE Eq(it) == it = [s \in SUBSET Ids |->
                             IF s = {} THEN 0
                             ELSE Check(q, subset[CHOOSE x \in s : TRUE])
                                  + it[s \ {CHOOSE x \in s : TRUE}]]
           h == CHOOSE it : Eq(it)
<1>1. ASSUME NEW s \in SUBSET Ids, s # {}
      PROVE  f[CHOOSE x \in s : TRUE] = Check(q, subset[CHOOSE x \in s : TRUE])
  <2>1. (CHOOSE x \in s : TRUE) \in Ids
    BY <1>1
  <2> QED  BY <2>1
<1>2. \E g : Eq(g)
  <2>1. PICK g \in [SUBSET Ids -> Int] : Recurs(g, f, Ids)
    BY RecursionHolds
  <2>2. g = [s \in SUBSET Ids |-> g[s]]
    OBVIOUS
  <2>3. ASSUME NEW s \in SUBSET Ids
        PROVE  g[s] = IF s = {} THEN 0
                      ELSE Check(q, subset[CHOOSE x \in s : TRUE])
                           + g[s \ {CHOOSE x \in s : TRUE}]
    BY <1>1, <2>1 DEF Recurs
  <2>4. Eq(g)
    BY <2>2, <2>3
  <2> HIDE DEF Eq
  <2> QED  BY <2>4
<1>3. Eq(h)
  <2> HIDE DEF Eq
  <2> QED  BY <1>2
<1>4. TrueFit(q) = h[Ids]
  BY DEF TrueFit, MapThenSumSet, MapThenFoldSet
<1> HIDE DEF h
<1>5. Recurs(h, f, Ids)
  <2> SUFFICES ASSUME NEW s \in SUBSET Ids
               PROVE  h[s] = IF s = {} THEN 0
                        ELSE f[CHOOSE x \in s : TRUE] + h[s \ {CHOOSE x \in s : TRUE}]
    BY DEF Recurs
  <2>1. h[s] = IF s = {} THEN 0
               ELSE Check(q, subset[CHOOSE x \in s : TRUE])
                    + h[s \ {CHOOSE x \in s : TRUE}]
    BY <1>3
  <2> HIDE DEF Eq
  <2> QED  BY <1>1, <2>1
<1> QED  BY <1>4, <1>5, RecursionIsSum

LEMMA WeightSum ==
  ASSUME NEW D, NEW useExp, IsFiniteSet(D), NEW f, \A i \in D : f[i] = Weight(i, useExp) /\ f[i] \in Int
  PROVE  MapThenSumSet(LAMBDA j : Weight(j, useExp), D) = SumOver(f, D)
<1> DEFINE Eq(it) == it = [s \in SUBSET D |->
                             IF s = {} THEN 0
                             ELSE Weight(CHOOSE x \in s : TRUE, useExp)
                                  + it[s \ {CHOOSE x \in s : TRUE}]]
           h == CHOOSE it : Eq(it)
<1>1. ASSUME NEW s \in SUBSET D, s # {}
      PROVE  f[CHOOSE x \in s : TRUE] = Weight(CHOOSE x \in s : TRUE, useExp)
  <2>1. (CHOOSE x \in s : TRUE) \in D
    BY <1>1
  <2> QED  BY <2>1
<1>2. \E g : Eq(g)
  <2>1. PICK g \in [SUBSET D -> Int] : Recurs(g, f, D)
    BY RecursionHolds
  <2>2. g = [s \in SUBSET D |-> g[s]]
    OBVIOUS
  <2>3. ASSUME NEW s \in SUBSET D
        PROVE  g[s] = IF s = {} THEN 0
                      ELSE Weight(CHOOSE x \in s : TRUE, useExp)
                           + g[s \ {CHOOSE x \in s : TRUE}]
    BY <1>1, <2>1 DEF Recurs
  <2>4. Eq(g)
    BY <2>2, <2>3
  <2> HIDE DEF Eq
  <2> QED  BY <2>4
<1>3. Eq(h)
  <2> HIDE DEF Eq
  <2> QED  BY <1>2
<1>4. MapThenSumSet(LAMBDA j : Weight(j, useExp), D) = h[D]
  BY DEF MapThenSumSet, MapThenFoldSet
<1> HIDE DEF h
<1>5. Recurs(h, f, D)
  <2> SUFFICES ASSUME NEW s \in SUBSET D
               PROVE  h[s] = IF s = {} THEN 0
                        ELSE f[CHOOSE x \in s : TRUE] + h[s \ {CHOOSE x \in s : TRUE}]
    BY DEF Recurs
  <2>1. h[s] = IF s = {} THEN 0
               ELSE Weight(CHOOSE x \in s : TRUE, useExp)
                    + h[s \ {CHOOSE x \in s : TRUE}]
    BY <1>3
  <2> HIDE DEF Eq
  <2> QED  BY <1>1, <2>1
<1> QED  BY <1>4, <1>5, RecursionIsSum

LEMMA WeightedSum ==
  ASSUME NEW q, NEW useExp, IsFiniteSet(Ids), NEW f, \A i \in Ids : f[i] = (Check(q, subset[i]) * Weight(i, useExp)) /\ f[i] \in Int
  PROVE  MapThenSumSet(LAMBDA i : Check(q, subset[i]) * Weight(i, useExp), Ids) = SumOver(f, Ids)
<1> DEFINE Eq(it) == it = [s \in SUBSET Ids |->
                             IF s = {} THEN 0
                             ELSE (Check(q, subset[CHOOSE x \in s : TRUE]) * Weight(CHOOSE x \in s : TRUE, useExp))
                                  + it[s \ {CHOOSE x \in s : TRUE}]]
           h == CHOOSE it : Eq(it)
<1>1. ASSUME NEW s \in SUBSET Ids, s # {}
      PROVE  f[CHOOSE x \in s : TRUE] = (Check(q, subset[CHOOSE x \in s : TRUE]) * Weight(CHOOSE x \in s : TRUE, useExp))
  <2>1. (CHOOSE x \in s : TRUE) \in Ids
    BY <1>1
  <2> QED  BY <2>1
<1>2. \E g : Eq(g)
  <2>1. PICK g \in [SUBSET Ids -> Int] : Recurs(g, f, Ids)
    BY RecursionHolds
  <2>2. g = [s \in SUBSET Ids |-> g[s]]
    OBVIOUS
  <2>3. ASSUME NEW s \in SUBSET Ids
        PROVE  g[s] = IF s = {} THEN 0
                      ELSE (Check(q, subset[CHOOSE x \in s : TRUE]) * Weight(CHOOSE x \in s : TRUE, useExp))
                           + g[s \ {CHOOSE x \in s : TRUE}]
    BY <1>1, <2>1 DEF Recurs
  <2>4. Eq(g)
    BY <2>2, <2>3
  <2> HIDE DEF Eq
  <2> QED  BY <2>4
<1>3. Eq(h)
  <2> HIDE DEF Eq
  <2> QED  BY <1>2
<1>4. MapThenSumSet(LAMBDA i : Check(q, subset[i]) * Weight(i, useExp), Ids) = h[Ids]
  BY DEF MapThenSumSet, MapThenFoldSet
<1> HIDE DEF h
<1>5. Recurs(h, f, Ids)
  <2> SUFFICES ASSUME NEW s \in SUBSET Ids
               PROVE  h[s] = IF s = {} THEN 0
                        ELSE f[CHOOSE x \in s : TRUE] + h[s \ {CHOOSE x \in s : TRUE}]
    BY DEF Recurs
  <2>1. h[s] = IF s = {} THEN 0
               ELSE (Check(q, subset[CHOOSE x \in s : TRUE]) * Weight(CHOOSE x \in s : TRUE, useExp))
                    + h[s \ {CHOOSE x \in s : TRUE}]
    BY <1>3
  <2> HIDE DEF Eq
  <2> QED  BY <1>1, <2>1
<1> QED  BY <1>4, <1>5, RecursionIsSum

LEMMA SumJoins ==
  ASSUME NEW D, IsFiniteSet(D), NEW f, \A x \in D : f[x] \in Int,
         NEW A \in SUBSET D, NEW B \in SUBSET D, A \cap B = {}
  PROVE  /\ SumOver(f, A \cup B) = SumOver(f, A) + SumOver(f, B)
         /\ SumOver(f, A) \in Int /\ SumOver(f, {}) = 0
<1>1. PICK g : IsSum(g, f, D)
  BY SumExists
<1>2. \A E \in SUBSET D : SumOver(f, E) = g[E] /\ g[E] \in Int
  <2>1. \A E \in SUBSET D : SumOver(f, E) = g[E]
    BY <1>1, SumFacts
  <2>2. \A E \in SUBSET D : g[E] \in Int
    BY <1>1 DEF IsSum
  <2> QED  BY <2>1, <2>2
<1>3. \A s \in SUBSET D : IsFiniteSet(s) /\ Cardinality(s) \in Nat /\ (Cardinality(s) = 0 <=> s = {})
  BY FS_Subset, FS_CardinalityType, FS_EmptySet
<1>4. g[{}] = 0 /\ \A s \in SUBSET D : \A x \in s : g[s] = f[x] + g[s \ {x}]
  BY <1>1 DEF IsSum
<1> DEFINE X == {n \in Nat : \A s \in SUBSET D : s \cap A = {} /\ Cardinality(s) <= n =>
                               g[A \cup s] = g[A] + g[s]}
<1>5. 0 \in X
  <2> SUFFICES ASSUME NEW s \in SUBSET D, s \cap A = {}, Cardinality(s) <= 0
               PROVE  g[A \cup s] = g[A] + g[s]
    OBVIOUS
  <2>1. s = {} /\ A \cup s = A
    BY <1>3
  <2> QED  BY <2>1, <1>2, <1>4
<1>6. ASSUME NEW n \in Nat, n \in X PROVE n + 1 \in X
  <2>a. n + 1 \in Nat
    OBVIOUS
  <2> SUFFICES ASSUME NEW s \in SUBSET D, s \cap A = {}, Cardinality(s) <= n + 1
               PROVE  g[A \cup s] = g[A] + g[s]
    BY <2>a, Zenon
  <2>0. CASE s = {}
    <3>1. A \cup s = A /\ g[A] \in Int
      BY <2>0, <1>2
    <3> QED  BY <2>0, <3>1, <1>4
  <2> SUFFICES ASSUME s # {} PROVE g[A \cup s] = g[A] + g[s]
    BY <2>0
  <2>1. PICK x \in s : TRUE
    OBVIOUS
  <2>2. Cardinality(s \ {x}) = Cardinality(s) - 1
    BY <1>3, FS_RemoveElement
  <2>3. s \ {x} \in SUBSET D /\ (s \ {x}) \cap A = {} /\ Cardinality(s \ {x}) <= n
    BY <2>2, <1>3
  <2>4. g[A \cup (s \ {x})] = g[A] + g[s \ {x}]
    BY <2>3, <1>6
  <2>5. A \cup s \in SUBSET D /\ x \in A \cup s /\ (A \cup s) \ {x} = A \cup (s \ {x})
    BY <2>1
  <2>6. g[A \cup s] = f[x] + g[A \cup (s \ {x})] /\ g[s] = f[x] + g[s \ {x}]
    BY <2>5, <1>4
  <2>7. g[A] \in Int /\ g[s \ {x}] \in Int /\ f[x] \in Int
    BY <2>3, <1>2
  <2> QED  BY <2>4, <2>6, <2>7
<1>7. g[A \cup B] = g[A] + g[B]
  <2>1. Nat \subseteq X
    <3> HIDE DEF X
    <3> QED  BY <1>5, <1>6, SetInduction
  <2>2. Cardinality(B) \in X
    <3> HIDE DEF X
    <3> QED  BY <2>1, <1>3
  <2> QED  BY <2>2, <1>3
<1> HIDE DEF X
<1>8. A \cup B \in SUBSET D /\ {} \in SUBSET D
  OBVIOUS
<1> QED  BY <1>2, <1>4, <1>7, <1>8

LEMMA SumOfZeros ==
  ASSUME NEW D, IsFiniteSet(D), NEW f, \A x \in D : f[x] = 0
  PROVE  SumOver(f, D) = 0
<1> DEFINE g == [s \in SUBSET D |-> 0]
<1>1. g \in [SUBSET D -> Int] /\ \A s \in SUBSET D : g[s] = 0
  OBVIOUS
<1> HIDE DEF g
<1>2. \A s \in SUBSET D : \A x \in s : f[x] = 0 /\ s \ {x} \in SUBSET D
  OBVIOUS
<1>3. IsSum(g, f, D)
  BY <1>1, <1>2 DEF IsSum
<1>4. D \in SUBSET D /\ \A x \in D : f[x] \in Int
  OBVIOUS
<1> QED  BY <1>1, <1>3, <1>4, SumFacts

\* One sample of the loop of getFit, and the sum of the samples done.
Tally == [covered : SUBSET Ids, fit : Int]

AdaptiveVisit(q, useExp, done, i) ==
  IF i \in done.covered THEN done
  ELSE LET value == Check(q, subset[i])
           new   == ({i} \cup Covers(i, value)) \ done.covered
       IN  [covered |-> done.covered \cup new,
            fit |-> done.fit + value * MapThenSumSet(LAMBDA j : Weight(j, useExp), new)]

Weights(useExp)   == [i \in Ids |-> Weight(i, useExp)]
Worth(q, useExp)  == [i \in Ids |-> Check(q, subset[i]) * Weight(i, useExp)]

LEMMA WorthValue ==
  ASSUME FitnessConstants, GraphExact, NEW q, NEW useExp
  PROVE  \A i \in Ids : /\ Weights(useExp)[i] = Weight(i, useExp) /\ Weight(i, useExp) \in Int
                        /\ Worth(q, useExp)[i] = Check(q, subset[i]) * Weight(i, useExp)
                        /\ Worth(q, useExp)[i] \in Int
<1>1. ASSUME NEW i \in Ids PROVE Weight(i, useExp) \in Int
  <2>1. Cardinality(subset[i]) \in Nat /\ Cardinality(subset[i]) >= 2
    <3>1. subset[i] \in SUBSET RowIds /\ Cardinality(subset[i]) >= 2
      BY DEF GraphExact, Samples
    <3> QED  BY <3>1, RowIdsFinite
  <2>2. PICK n \in Nat : n = Cardinality(subset[i]) - 1
    BY <2>1
  <2>3. 2 ^ n + 1 \in Int
    OBVIOUS
  <2> QED  BY <2>2, <2>3 DEF Weight
<1> QED  BY <1>1, CheckValue DEF Weights, Worth

\* A sample that a visit covers has the value of the visited one.
LEMMA CoversValue ==
  ASSUME FitnessConstants, GraphExact, NEW q, NEW i \in Ids, NEW j \in Covers(i, Check(q, subset[i]))
  PROVE  j \in Ids /\ Check(q, subset[j]) = Check(q, subset[i])
<1>1. subset[i] \in SUBSET RowIds /\ j \in Ids /\ subset[j] \in SUBSET RowIds
  BY DEF GraphExact, Samples, Covers
<1>2. CASE Check(q, subset[i]) = 1
  <2>1. j \in neighbors[i]
    BY <1>2 DEF Covers
  <2>2. subset[j] \in SUBSET subset[i]
    BY <1>1, <2>1, NeighborFacts
  <2> QED  BY <1>1, <1>2, <2>2, CheckMonotone
<1>3. CASE Check(q, subset[i]) # 1
  <2>1. -j \in neighbors[i]
    BY <1>3 DEF Covers
  <2>2. subset[i] \in SUBSET subset[j]
    BY <1>1, <2>1, NeighborFacts
  <2>3. Check(q, subset[j]) # 1
    BY <1>1, <1>3, <2>2, CheckMonotone
  <2> QED  BY <1>1, <1>3, <2>3, CheckValue
<1> QED  BY <1>2, <1>3

TallyTrue(done, q, useExp) == done \in Tally /\ done.fit = SumOver(Worth(q, useExp), done.covered)

LEMMA AdaptiveVisitTrue ==
  ASSUME FitnessConstants, GraphExact, NEW q, NEW useExp, NEW i \in Ids, NEW done \in Tally
  PROVE  LET next == AdaptiveVisit(q, useExp, done, i)
         IN  /\ next \in Tally /\ i \in next.covered /\ done.covered \subseteq next.covered
             /\ TallyTrue(done, q, useExp) => TallyTrue(next, q, useExp)
<1> DEFINE value == Check(q, subset[i])
           new   == ({i} \cup Covers(i, value)) \ done.covered
           next  == AdaptiveVisit(q, useExp, done, i)
           w     == Weights(useExp)
           v     == Worth(q, useExp)
<1>1. done.covered \in SUBSET Ids /\ done.fit \in Int
  BY DEF Tally
<1>2. CASE i \in done.covered
  BY <1>2 DEF AdaptiveVisit
<1>3. CASE i \notin done.covered
  <2>1. PICK A, B : A = done.covered /\ B = new
    OBVIOUS
  <2>2. \A j \in B : j \in Ids /\ Check(q, subset[j]) = value
    BY <2>1, CoversValue
  <2>3. A \in SUBSET Ids /\ B \in SUBSET Ids /\ A \cap B = {} /\ i \in B
    BY <1>1, <1>3, <2>1, <2>2
  <2>4. /\ \A j \in Ids : w[j] = Weight(j, useExp) /\ w[j] \in Int /\ v[j] \in Int
        /\ \A j \in Ids : v[j] = Check(q, subset[j]) * Weight(j, useExp)
    BY WorthValue
  <2>5. IsFiniteSet(Ids) /\ IsFiniteSet(B)
    BY <2>3, IdsFinite, FS_Subset
  <2>6. value \in {0, 1}
    BY CheckValue
  <2> HIDE DEF w, v, value
  <2>7. MapThenSumSet(LAMBDA j : Weight(j, useExp), B) = SumOver(w, B)
    BY <2>3, <2>4, <2>5, WeightSum
  <2>8. next = [covered |-> A \cup B, fit |-> done.fit + value * SumOver(w, B)]
    BY <1>3, <2>1, <2>7 DEF AdaptiveVisit, value
  <2>9. SumOver(v, B) = value * SumOver(w, B) /\ SumOver(w, B) \in Int
    <3>1. SumOver(w, B) \in Int /\ SumOver(v, B) \in Int
      BY <2>3, <2>4, <2>5, SumFacts
    <3>2. CASE value = 1
      <4>1. \A j \in B : v[j] = w[j] /\ v[j] \in Int
        <5>1. \A j \in B : j \in Ids /\ v[j] = 1 * Weight(j, useExp) /\ w[j] = Weight(j, useExp) /\ w[j] \in Int
          BY <2>2, <2>3, <2>4, <3>2
        <5> QED  BY <5>1
      <4>2. SumOver(v, B) = SumOver(w, B)
        BY <2>5, <4>1, SumFacts
      <4> QED  BY <3>1, <3>2, <4>2
    <3>3. CASE value = 0
      <4>1. \A j \in B : v[j] = 0
        <5>1. \A j \in B : j \in Ids /\ v[j] = 0 * Weight(j, useExp) /\ Weight(j, useExp) \in Int
          BY <2>2, <2>3, <2>4, <3>3
        <5> QED  BY <5>1
      <4>2. SumOver(v, B) = 0
        BY <2>5, <4>1, SumOfZeros
      <4> QED  BY <3>1, <3>3, <4>2
    <3> QED  BY <2>6, <3>2, <3>3
  <2>10. SumOver(v, A \cup B) = SumOver(v, A) + SumOver(v, B)
    BY <2>3, <2>4, <2>5, SumJoins
  <2>11. next \in Tally
    <3>1. done.fit + value * SumOver(w, B) \in Int /\ A \cup B \in SUBSET Ids
      BY <1>1, <2>3, <2>6, <2>9
    <3> QED  BY <2>8, <3>1 DEF Tally
  <2>12. ASSUME TallyTrue(done, q, useExp) PROVE TallyTrue(next, q, useExp)
    <3>1. done.fit = SumOver(v, A)
      BY <2>1, <2>12 DEF TallyTrue, v
    <3>2. next.covered = A \cup B /\ next.fit = done.fit + value * SumOver(w, B)
      BY <2>8
    <3>3. next.fit = SumOver(v, next.covered)
      BY <2>9, <2>10, <3>1, <3>2
    <3> QED  BY <2>11, <3>3 DEF TallyTrue, v
  <2>13. i \in next.covered /\ done.covered \subseteq next.covered
    BY <2>1, <2>3, <2>8
  <2> QED  BY <2>11, <2>12, <2>13
<1> QED  BY <1>2, <1>3

LEMMA AdaptiveRuns ==
  ASSUME FitnessConstants, GraphExact, NEW q, NEW useExp, NEW origin, origin = [covered |-> {}, fit |-> 0]
  PROVE  \E run \in [0 .. Count -> Tally] :
           /\ run[0] = origin /\ \A i \in Ids : run[i] = AdaptiveVisit(q, useExp, run[i - 1], i)
           /\ AdaptiveFit(q, useExp) = run[Count].fit
<1> DEFINE F == [i \in Ids |-> [done \in Tally |-> AdaptiveVisit(q, useExp, done, i)]]
           Eq(it) == it = [s \in SUBSET Ids |->
                             IF s = {} THEN origin
                             ELSE AdaptiveVisit(q, useExp, it[s \ {Max(s)}], [i \in Ids |-> i][Max(s)])]
           h == CHOOSE it : Eq(it)
<1>1. F \in [Ids -> [Tally -> Tally]]
  BY AdaptiveVisitTrue
<1>2. ASSUME NEW i \in Ids, NEW done \in Tally PROVE F[i][done] = AdaptiveVisit(q, useExp, done, i)
  OBVIOUS
<1>3. \A s \in (SUBSET Ids) \ {{}} : [i \in Ids |-> i][Max(s)] = Max(s) /\ Max(s) \in Ids
  BY LastChooses
<1>b. origin \in Tally
  BY DEF Tally
<1> HIDE DEF F
<1>4. \E g : Eq(g)
  <2>1. PICK g \in [SUBSET Ids -> Tally] : AlongIds(g, origin, F)
    BY <1>1, <1>b, RunExists
  <2>2. ASSUME NEW s \in SUBSET Ids
        PROVE  g[s] = IF s = {} THEN origin
                      ELSE AdaptiveVisit(q, useExp, g[s \ {Max(s)}], [i \in Ids |-> i][Max(s)])
    <3>1. CASE s # {}
      <4>1. g[s \ {Max(s)}] \in Tally /\ g[s] = F[Max(s)][g[s \ {Max(s)}]]
        BY <2>1, <3>1 DEF AlongIds
      <4>2. g[s] = AdaptiveVisit(q, useExp, g[s \ {Max(s)}], Max(s))
        BY <4>1, <3>1, <1>2, <1>3
      <4>3. [i \in Ids |-> i][Max(s)] = Max(s)
        BY <3>1, <1>3
      <4> QED  BY <3>1, <4>2, <4>3
    <3> QED  BY <3>1, <2>1 DEF AlongIds
  <2>3. g = [s \in SUBSET Ids |-> g[s]]
    OBVIOUS
  <2>4. Eq(g)
    BY <2>2, <2>3
  <2> HIDE DEF Eq
  <2> QED  BY <2>4
<1>5. Eq(h)
  <2> HIDE DEF Eq
  <2> QED  BY <1>4
<1>6. AdaptiveFit(q, useExp) = h[Ids].fit
  BY DEF AdaptiveFit, AdaptiveVisit, FoldLeft, MapThenFoldSet
<1> HIDE DEF h
<1>7. h[{}] = origin
  BY <1>5
<1>8. ASSUME NEW s \in (SUBSET Ids) \ {{}}, h[s \ {Max(s)}] \in Tally
      PROVE  h[s] = F[Max(s)][h[s \ {Max(s)}]]
  <2>1. h[s] = AdaptiveVisit(q, useExp, h[s \ {Max(s)}], [i \in Ids |-> i][Max(s)])
    BY <1>5
  <2>2. [i \in Ids |-> i][Max(s)] = Max(s) /\ Max(s) \in Ids
    BY <1>3
  <2> HIDE DEF Eq
  <2> QED  BY <2>1, <2>2, <1>2, <1>8
<1> HIDE DEF Eq
<1>9. PICK run \in [0 .. Count -> Tally] : Runs(run, origin, F) /\ h[Ids] = run[Count]
  <2>1. AlongWithin(h, Tally, origin, F)
    BY <1>7, <1>8 DEF AlongWithin
  <2> QED  BY <1>1, <1>b, <2>1, FoldRuns
<1>10. ASSUME NEW i \in Ids PROVE run[i] = AdaptiveVisit(q, useExp, run[i - 1], i)
  <2>1. i - 1 \in 0 .. Count
    BY IdsFinite DEF Ids
  <2>2. run[i - 1] \in Tally
    BY <2>1
  <2>3. run[i] = F[i][run[i - 1]]
    BY <1>9 DEF Runs
  <2> QED  BY <2>2, <2>3, <1>2
<1>11. run[0] = origin
  BY <1>9 DEF Runs
<1> QED  BY <1>6, <1>9, <1>10, <1>11

WeightedTrueFit(q, useExp) == MapThenSumSet(LAMBDA i : Check(q, subset[i]) * Weight(i, useExp), Ids)

\* The shortcut of covered samples counts each sample once, with its own value.
LEMMA AdaptiveFitTrue ==
  ASSUME FitnessConstants, GraphExact, NEW q, NEW useExp
  PROVE  AdaptiveFit(q, useExp) = WeightedTrueFit(q, useExp)
<1> DEFINE v == Worth(q, useExp)
<1>0. PICK origin : origin = [covered |-> {}, fit |-> 0]
  OBVIOUS
<1>1. PICK run \in [0 .. Count -> Tally] :
        /\ run[0] = origin /\ \A i \in Ids : run[i] = AdaptiveVisit(q, useExp, run[i - 1], i)
        /\ AdaptiveFit(q, useExp) = run[Count].fit
  BY <1>0, AdaptiveRuns
<1>2. Count \in Nat /\ IsFiniteSet(Ids)
  BY IdsFinite
<1>3. \A i \in Ids : v[i] = Check(q, subset[i]) * Weight(i, useExp) /\ v[i] \in Int
  BY WorthValue
<1> DEFINE X == {n \in Nat : n <= Count =>
                   TallyTrue(run[n], q, useExp) /\ \A i \in Ids : i <= n => i \in run[n].covered}
<1>4. 0 \in X
  <2>1. \A i \in Ids : ~(i <= 0)
    BY DEF Ids
  <2>2. SumOver(v, {}) = 0
    <3>1. {} \in SUBSET Ids /\ {} \cap {} = {}
      OBVIOUS
    <3> HIDE DEF v
    <3> QED  BY <3>1, <1>2, <1>3, SumJoins
  <2>3. origin \in Tally /\ origin.fit = 0 /\ origin.covered = {}
    BY <1>0 DEF Tally
  <2>4. TallyTrue(run[0], q, useExp)
    BY <1>1, <2>2, <2>3 DEF TallyTrue
  <2> QED  BY <2>1, <2>4
<1>5. ASSUME NEW n \in Nat, n \in X PROVE n + 1 \in X
  <2> SUFFICES ASSUME n + 1 <= Count
               PROVE  TallyTrue(run[n + 1], q, useExp) /\ \A i \in Ids : i <= n + 1 => i \in run[n + 1].covered
    OBVIOUS
  <2>1. PICK m : m = n + 1
    OBVIOUS
  <2>2. m \in Ids /\ m - 1 = n /\ n \in 0 .. Count /\ n <= Count
    BY <2>1, <1>2 DEF Ids
  <2>3. TallyTrue(run[n], q, useExp) /\ \A i \in Ids : i <= n => i \in run[n].covered
    BY <1>5, <2>2
  <2>k. PICK done \in Tally : done = run[n]
    BY <1>1, <2>2
  <2>4. PICK next : done = run[n] /\ next = run[m] /\ next = AdaptiveVisit(q, useExp, done, m)
    BY <1>1, <2>2, <2>k
  <2>5. m \in next.covered /\ done.covered \subseteq next.covered /\ TallyTrue(next, q, useExp)
    BY <2>2, <2>3, <2>4, AdaptiveVisitTrue
  <2>6. ASSUME NEW i \in Ids, i <= m PROVE i \in next.covered
    <3>1. i = m \/ i <= n
      BY <2>1, <2>6 DEF Ids
    <3> QED  BY <3>1, <2>3, <2>4, <2>5
  <2> QED  BY <2>1, <2>4, <2>5, <2>6
<1>6. TallyTrue(run[Count], q, useExp) /\ \A i \in Ids : i <= Count => i \in run[Count].covered
  <2>1. Nat \subseteq X
    <3> HIDE DEF X
    <3> QED  BY <1>4, <1>5, SetInduction
  <2> QED  BY <2>1, <1>2
<1>7. run[Count].covered = Ids
  <2>1. run[Count].covered \in SUBSET Ids
    BY <1>6 DEF TallyTrue, Tally
  <2>2. \A i \in Ids : i <= Count
    BY <1>2 DEF Ids
  <2> QED  BY <2>1, <2>2, <1>6
<1>8. AdaptiveFit(q, useExp) = SumOver(v, Ids)
  BY <1>1, <1>6, <1>7 DEF TallyTrue
<1>9. WeightedTrueFit(q, useExp) = SumOver(v, Ids)
  <2> HIDE DEF v
  <2> QED  BY <1>2, <1>3, WeightedSum DEF WeightedTrueFit
<1> QED  BY <1>8, <1>9

-----------------------------------------------------------------------------
(* All together.                                                           *)

LEMMA InitCache == FitnessConstants /\ FitInit => CacheInv
<1> SUFFICES ASSUME FitnessConstants, FitInit PROVE CacheInv
  OBVIOUS
<1>1. GraphInv
  BY InitGraph
<1>2. Unknown \in Int /\ NoDervs \in [Entries -> Int] /\ \A e \in Entries : NoDervs[e] = Unknown
  BY DEF Unknown, NoDervs
<1>3. cachedP \in [RowIds -> RowValues]
  BY DEF FitInit, RowValues, Values
<1>4. CacheTypes
  BY <1>2, <1>3 DEF FitInit, CacheTypes
<1>5. 1 \in Ids /\ fitness = Unknown /\ \A i \in Ids : /\ fitnessOf[i] = Unknown /\ dervsValid[i] = FALSE
                                                       /\ dervsOf[i] = NoDervs
  BY IdsFinite DEF FitInit
<1>6. CacheTrue
  BY <1>2, <1>5 DEF CacheTrue, FitTrue, DervsTrue
<1>7. AnswerTrue
  BY DEF FitInit, AnswerTrue
<1> QED  BY <1>1, <1>4, <1>6, <1>7 DEF CacheInv

LEMMA NextCache == FitnessConstants /\ CacheInv /\ [FitNext]_fitVars => CacheInv'
<1> SUFFICES ASSUME FitnessConstants, CacheInv, [FitNext]_fitVars PROVE CacheInv'
  OBVIOUS
<1>1. GraphInv /\ CacheTypes /\ CacheTrue /\ AnswerTrue /\ GraphExact
  BY DEF CacheInv, GraphInv
<1>2. GraphInv'
  BY <1>1, NextGraph
<1>3. ASSUME NEW i \in Ids, Lower(i) \/ Raise(i) PROVE CacheInv'
  <2>1. PICK X \in Samples : Become(i, X)
    BY <1>1, <1>3, FlipStep
  <2>2. CacheTypes' /\ CacheTrue' /\ AnswerTrue'
    BY <1>1, <2>1, BecomeStep
  <2> QED  BY <1>2, <2>2 DEF CacheInv
<1>4. ASSUME NEW q \in FitPuzzles, GetFit(q) PROVE CacheInv'
  <2>1. /\ Refresh(q, FALSE) /\ UNCHANGED <<subset, neighbors>>
        /\ fitAnswer' = [call |-> "getFit", p |-> q, result |-> fitness']
    BY <1>4 DEF GetFit
  <2>2. CacheTypes' /\ CacheTrue' /\ fitness' = Fit(q)'
    BY <1>1, <2>1, RefreshStep
  <2>3. fitAnswer'.call = "getFit" /\ fitAnswer'.p = q /\ fitAnswer'.result = fitness'
    BY <2>1
  <2>4. fitness' = SumOver([i \in Ids |-> Check(q, subset'[i])], Ids)
    BY <2>2 DEF Fit
  <2>5. AnswerTrue'
    BY <2>3, <2>4 DEF AnswerTrue, Fit
  <2> QED  BY <1>2, <2>2, <2>5 DEF CacheInv
<1>5. ASSUME NEW q \in FitPuzzles, GetFitDerv(q) PROVE CacheInv'
  <2>1. /\ Refresh(q, TRUE) /\ UNCHANGED <<subset, neighbors>>
        /\ fitAnswer' = [call |-> "getFitDerv", p |-> q, result |-> dervs']
    BY <1>5 DEF GetFitDerv
  <2>2. /\ CacheTypes' /\ CacheTrue'
        /\ \A e \in Entries : dervs'[e] = Fit(Put(q, e))' - Fit(q)'
    BY <1>1, <2>1, RefreshStep
  <2>3. fitAnswer'.call = "getFitDerv" /\ fitAnswer'.p = q /\ fitAnswer'.result = dervs'
    BY <2>1
  <2>4. \A e \in Entries :
          dervs'[e] = SumOver([i \in Ids |-> Check(Put(q, e), subset'[i])], Ids)
                      - SumOver([i \in Ids |-> Check(q, subset'[i])], Ids)
    BY <2>2 DEF Fit
  <2>5. AnswerTrue'
    BY <2>3, <2>4 DEF AnswerTrue, Fit
  <2> QED  BY <1>2, <2>2, <2>5 DEF CacheInv
<1>6. CASE UNCHANGED fitVars
  <2>1. CacheTypes' /\ AnswerTrue'
    BY <1>1, <1>6 DEF fitVars, CacheTypes, AnswerTrue, Fit
  <2>2. CacheTrue'
    BY <1>1, <1>6 DEF fitVars, CacheTrue, FitTrue, DervsTrue, AllDervs, Fit
  <2> QED  BY <1>2, <2>1, <2>2 DEF CacheInv
<1> QED  BY <1>3, <1>4, <1>5, <1>6 DEF FitNext

\* What the invariant says of answers is what AnswersExact says.
LEMMA AnswersFollow == FitnessConstants /\ CacheInv => AnswersExact
<1> SUFFICES ASSUME FitnessConstants, CacheInv PROVE AnswersExact
  OBVIOUS
<1>1. GraphExact /\ AnswerTrue
  BY DEF CacheInv, GraphInv
<1>2. ASSUME NEW q PROVE TrueFit(q) = Fit(q)
  <2>1. PICK f : f = [i \in Ids |-> Check(q, subset[i])]
    OBVIOUS
  <2>2. \A i \in Ids : f[i] = Check(q, subset[i]) /\ f[i] \in Int
    BY <2>1, CheckValue
  <2>3. TrueFit(q) = SumOver(f, Ids)
    BY <2>2, IdsFinite, TrueFitSum
  <2> QED  BY <2>1, <2>3 DEF Fit
<1>3. fitAnswer.call = "getFit" => fitAnswer.result = TrueFit(fitAnswer.p)
  BY <1>1, <1>2 DEF AnswerTrue
<1>4. fitAnswer.call = "getFitDerv" =>
        \A e \in Entries : fitAnswer.result[e] = TrueFit(Put(fitAnswer.p, e)) - TrueFit(fitAnswer.p)
  BY <1>1, <1>2 DEF AnswerTrue
<1>5. \A p \in FitPuzzles, useExp \in BOOLEAN : AdaptiveFit(p, useExp) = WeightedTrueFit(p, useExp)
  BY <1>1, AdaptiveFitTrue
<1> QED  BY <1>3, <1>4, <1>5, Zenon DEF AnswersExact, WeightedTrueFit

\* What the caches hold is true: of the cached puzzle for each sample, and of the
\* puzzle as a whole once every sample is known.
THEOREM CacheInvariance == FitSpec => []CacheInv
<1>1. FitInit => CacheInv
  BY FitnessAssumption, InitCache
<1>2. CacheInv /\ [FitNext]_fitVars => CacheInv'
  BY FitnessAssumption, NextCache
<1> QED  BY <1>1, <1>2, PTL DEF FitSpec

\* No answer of getFit or getFitDerv comes from an outdated cache, and none of those
\* that the neighbours imply is wrong, whatever calls and changes of samples came
\* before; the same of the shortcut of the tester without a cache.
THEOREM FitnessAnswersExact == FitSpec => []AnswersExact
<1>1. CacheInv => AnswersExact
  BY FitnessAssumption, AnswersFollow
<1> QED  BY <1>1, CacheInvariance, PTL
=============================================================================
