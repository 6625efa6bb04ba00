------------------------ MODULE StagedSearch_proofs ------------------------
(***************************************************************************)
(* Theorems about the staged search, for any number of threads, stages,    *)
(* puzzles and crashes, and any bound on checkpoints and signals.          *)
(*                                                                         *)
(* Custody: a puzzle the isomorph cache knows has been expanded or is in   *)
(* the hand of exactly one thread on its way to be, and outside a parallel *)
(* region no thread has anything in hand.  So no puzzle is expanded twice, *)
(* and a checkpoint, which is written outside a region, marks nothing as   *)
(* seen that was not expanded.                                             *)
(*                                                                         *)
(* The window: every stage of the window and of the saved one is where its *)
(* height says, and no gap separates the stages; then following the order  *)
(* of the stages restores the links a shift maintains.                     *)
(*                                                                         *)
(* Types: a stage works on its own puzzles, but for a puzzle nobody filled *)
(* in and what grew from one, and a checkpoint is as well typed as the     *)
(* live state.                                                             *)
(*                                                                         *)
(* Solutions: a perfect fit is in exactly the places SolutionsKept names,  *)
(* in the live state and, nothing being in hand there, in the saved one.   *)
(***************************************************************************)
EXTENDS StagedSearch, SequenceTheorems, TLAPS

Points == {"test", "fetch", "lookup", "count", "expand", "out"}

\* Typing of the threads, as far as the arguments below need it.
ThreadsTyped ==
  /\ tpc \in [Threads -> Points]
  /\ hand = [w \in Workers |-> hand[w]]

\* What the cache knows is expanded or in hand.
SeenIsHeld ==
  /\ expanded \subseteq seen
  /\ \A w \in Workers : Searching(w) => hand[w] \in seen
  /\ \A p \in seen \ expanded : \E w \in Workers : Searching(w) /\ hand[w] = p

\* Between two regions every thread has left; an exception ends the process within
\* one.
Between == main \notin {"region", "exited"}

QuietOutside == Between => \A t \in Threads : tpc[t] = "out"

Custody == ThreadsTyped /\ SeenIsHeld /\ ExpandedOnce /\ QuietOutside /\ CheckpointComplete

custodyVars == <<tpc, hand, seen, expanded, main, saved>>

LEMMA WorkersAreThreads ==
  Workers \subseteq Threads /\ Master \in Threads /\ Master \notin Workers
BY SearchAssumption DEF Threads

LEMMA InitCustody == Init => Custody
BY WorkersAreThreads
DEF Init, Custody, ThreadsTyped, SeenIsHeld, ExpandedOnce, QuietOutside, Between, CheckpointComplete,
    Searching, Points

LEMMA StutterCustody == Custody /\ UNCHANGED custodyVars => Custody'
BY DEF Custody, ThreadsTyped, SeenIsHeld, ExpandedOnce, QuietOutside, Between, CheckpointComplete,
       Searching, custodyVars

\* A thread that is not searching before or after a step may do what it likes
\* with its hand.
LEMMA IdleStep ==
  ASSUME Custody, main = "region", main' = main, NEW t \in Threads,
         UNCHANGED <<seen, expanded, saved>>,
         tpc[t] \notin {"count", "expand"},
         NEW c \in Points \ {"count", "expand"},
         tpc' = [tpc EXCEPT ![t] = c],
         hand' = [w \in Workers |-> hand'[w]],
         \A w \in Workers : w # t => hand'[w] = hand[w]
  PROVE  Custody'
<1>1. \A w \in Workers : Searching(w)' <=> Searching(w)
  BY WorkersAreThreads DEF Custody, ThreadsTyped, Searching
<1>2. \A w \in Workers : Searching(w) => hand'[w] = hand[w]
  BY DEF Searching
<1>3. ThreadsTyped'
  BY WorkersAreThreads DEF Custody, ThreadsTyped
<1>4. SeenIsHeld'
  BY <1>1, <1>2 DEF Custody, SeenIsHeld
<1>5. ExpandedOnce'
  BY <1>1, <1>2 DEF Custody, ExpandedOnce
<1>6. QuietOutside' /\ CheckpointComplete'
  BY DEF Custody, QuietOutside, Between, CheckpointComplete
<1> QED BY <1>3, <1>4, <1>5, <1>6 DEF Custody

\* The main thread goes on outside a region, or opens the next one.
LEMMA OutsideStep ==
  ASSUME Custody, Between,
         UNCHANGED <<seen, expanded, saved, hand>>,
         \/ UNCHANGED tpc /\ main' # "region"
         \/ main' = "region" /\ tpc' = [t \in Threads |-> "test"]
  PROVE  Custody'
<1>1. \A w \in Workers : ~Searching(w) /\ ~Searching(w)'
  BY WorkersAreThreads DEF Custody, QuietOutside, Between, Searching
<1>2. ThreadsTyped' /\ QuietOutside' /\ CheckpointComplete'
  BY DEF Custody, ThreadsTyped, QuietOutside, Between, CheckpointComplete, Points
<1>3. SeenIsHeld' /\ ExpandedOnce'
  BY <1>1 DEF Custody, SeenIsHeld, ExpandedOnce
<1> QED BY <1>2, <1>3 DEF Custody

LEMMA LookupCustody ==
  ASSUME Custody, main = "region", NEW w \in Workers, Lookup(w)
  PROVE  Custody'
<1>1. CASE hand[w] \in seen
  <2>1. tpc' = [tpc EXCEPT ![w] = "test"] /\ hand' = [hand EXCEPT ![w] = NoPuz]
        /\ UNCHANGED <<seen, expanded, saved, main>> /\ tpc[w] = "lookup"
    BY <1>1 DEF Lookup
  <2>2. /\ hand' = [v \in Workers |-> hand'[v]]
        /\ \A v \in Workers : v # w => hand'[v] = hand[v]
    BY <2>1 DEF Custody, ThreadsTyped
  <2>3. "test" \in Points \ {"count", "expand"}
    BY DEF Points
  <2> QED BY <2>1, <2>2, <2>3, WorkersAreThreads, IdleStep
<1>2. CASE hand[w] \notin seen
  <2>1. /\ tpc[w] = "lookup" /\ tpc' = [tpc EXCEPT ![w] = "count"]
        /\ seen' = seen \cup {hand[w]}
        /\ UNCHANGED <<hand, expanded, saved, main>>
    BY <1>2 DEF Lookup
  <2>2. \A v \in Workers : Searching(v)' <=> (Searching(v) \/ v = w)
    BY <2>1, WorkersAreThreads DEF Custody, ThreadsTyped, Searching
  <2>3. ThreadsTyped' /\ QuietOutside' /\ CheckpointComplete'
    BY <2>1, WorkersAreThreads
    DEF Custody, ThreadsTyped, QuietOutside, Between, CheckpointComplete, Points
  <2>4. SeenIsHeld'
    BY <2>1, <2>2 DEF Custody, SeenIsHeld
  <2>5. ExpandedOnce'
    BY <1>2, <2>1, <2>2 DEF Custody, SeenIsHeld, ExpandedOnce
  <2> QED BY <2>3, <2>4, <2>5 DEF Custody
<1> QED BY <1>1, <1>2

LEMMA CountCustody ==
  ASSUME Custody, main = "region", NEW w \in Workers, Count(w)
  PROVE  Custody'
<1>1. /\ tpc[w] = "count" /\ tpc' = [tpc EXCEPT ![w] = "expand"]
      /\ UNCHANGED <<hand, seen, expanded, saved, main>>
  BY DEF Count
<1>2. \A v \in Workers : Searching(v)' <=> Searching(v)
  BY <1>1, WorkersAreThreads DEF Custody, ThreadsTyped, Searching
<1>3. ThreadsTyped' /\ QuietOutside' /\ CheckpointComplete'
  BY <1>1, WorkersAreThreads
  DEF Custody, ThreadsTyped, QuietOutside, Between, CheckpointComplete, Points
<1>4. SeenIsHeld' /\ ExpandedOnce'
  BY <1>1, <1>2 DEF Custody, SeenIsHeld, ExpandedOnce
<1> QED BY <1>3, <1>4 DEF Custody

LEMMA ExpandCustody ==
  ASSUME Custody, main = "region", NEW w \in Workers, Expand(w)
  PROVE  Custody'
<1>1. /\ tpc[w] = "expand" /\ tpc' = [tpc EXCEPT ![w] = "test"]
      /\ hand' = [hand EXCEPT ![w] = NoPuz]
      /\ expanded' = expanded \cup {hand[w]}
      /\ UNCHANGED <<seen, saved, main>>
  BY DEF Expand
<1>2. Searching(w) /\ \A v \in Workers : Searching(v)' <=> (Searching(v) /\ v # w)
  BY <1>1, WorkersAreThreads DEF Custody, ThreadsTyped, Searching
<1>3. \A v \in Workers : v # w => hand'[v] = hand[v]
  BY <1>1 DEF Custody, ThreadsTyped
<1>4. ThreadsTyped' /\ QuietOutside' /\ CheckpointComplete'
  BY <1>1, WorkersAreThreads
  DEF Custody, ThreadsTyped, QuietOutside, Between, CheckpointComplete, Points
<1>5. SeenIsHeld'
  BY <1>1, <1>2, <1>3 DEF Custody, SeenIsHeld
<1>6. ExpandedOnce'
  BY <1>1, <1>2, <1>3 DEF Custody, ExpandedOnce
<1> QED BY <1>4, <1>5, <1>6 DEF Custody

LEMMA SaveCustody == Custody /\ Save => Custody'
<1> SUFFICES ASSUME Custody, Save PROVE Custody'
  OBVIOUS
<1>1. /\ main = "save" /\ main' = "exchange"
      /\ UNCHANGED <<tpc, hand, seen, expanded>>
      /\ saved' = Snapshot \/ saved' = saved
  BY DEF Save, searchVars, threadVars
<1>2. \A w \in Workers : ~Searching(w)
  BY <1>1, WorkersAreThreads DEF Custody, QuietOutside, Between, Searching
<1>3. seen = expanded
  BY <1>2 DEF Custody, SeenIsHeld
<1>4. CheckpointComplete'
  BY <1>1, <1>3 DEF Custody, CheckpointComplete, Snapshot, NoSave
<1>5. ThreadsTyped' /\ SeenIsHeld' /\ ExpandedOnce' /\ QuietOutside'
  BY <1>1 DEF Custody, ThreadsTyped, SeenIsHeld, ExpandedOnce, QuietOutside, Between, Searching
<1> QED BY <1>4, <1>5 DEF Custody

LEMMA RestoreCustody == Custody /\ Restore => Custody'
<1> SUFFICES ASSUME Custody, Restore PROVE Custody'
  OBVIOUS
<1>1. /\ saved # NoSave /\ saved' = saved /\ main' = "region"
      /\ seen' = saved.seen /\ expanded' = saved.expanded
      /\ tpc' = [t \in Threads |-> "test"]
      /\ hand' = [w \in Workers |-> NoPuz]
  BY DEF Restore, EnterRegion
<1>2. \A w \in Workers : ~Searching(w)'
  BY <1>1, WorkersAreThreads DEF Searching
<1>3. seen' = expanded'
  BY <1>1 DEF Custody, CheckpointComplete
<1>4. ThreadsTyped' /\ QuietOutside' /\ CheckpointComplete'
  BY <1>1 DEF Custody, ThreadsTyped, QuietOutside, Between, CheckpointComplete, Points
<1>5. SeenIsHeld' /\ ExpandedOnce'
  BY <1>2, <1>3 DEF SeenIsHeld, ExpandedOnce
<1> QED BY <1>4, <1>5 DEF Custody

LEMMA ThreadCustody ==
  ASSUME Custody, NEW w \in Workers, ThreadStep(w)
  PROVE  Custody'
<1>0. main = "region"
  BY DEF ThreadStep
<1>1. ASSUME PickStage(w) \/ FetchPrev(w) \/ FetchOwn(w) \/ FetchNothing(w)
      PROVE  Custody'
  <2>1. PICK c \in Points \ {"count", "expand"} :
          /\ tpc[w] \notin {"count", "expand"}
          /\ tpc' = [tpc EXCEPT ![w] = c]
    BY <1>1 DEF PickStage, FetchPrev, FetchOwn, FetchNothing, Points
  <2>2. UNCHANGED <<seen, expanded, saved, main>>
    BY <1>1 DEF PickStage, FetchPrev, FetchOwn, FetchNothing, searchVars
  <2>3. /\ hand' = [v \in Workers |-> hand'[v]]
        /\ \A v \in Workers : v # w => hand'[v] = hand[v]
    BY <1>1 DEF PickStage, FetchPrev, FetchOwn, FetchNothing, Custody, ThreadsTyped
  <2> QED BY <1>0, <2>1, <2>2, <2>3, WorkersAreThreads, IdleStep
<1>2. ASSUME NEW t \in Threads, Leave(t) PROVE Custody'
  <2>1. /\ tpc[t] = "test" /\ tpc' = [tpc EXCEPT ![t] = "out"]
        /\ UNCHANGED <<seen, expanded, saved, main, hand>>
    BY <1>2 DEF Leave, searchVars
  <2>2. "out" \in Points \ {"count", "expand"}
    BY DEF Points
  <2>3. hand' = [v \in Workers |-> hand'[v]]
    BY <2>1 DEF Custody, ThreadsTyped
  <2> QED BY <1>0, <2>1, <2>2, <2>3, IdleStep
<1>3. ASSUME ExpandThrows(w) PROVE Custody'
  BY <1>3 DEF ExpandThrows, searchVars, threadVars, Custody, ThreadsTyped, SeenIsHeld,
              ExpandedOnce, QuietOutside, Between, CheckpointComplete, Searching
<1> QED BY <1>0, <1>1, <1>2, <1>3, LookupCustody, CountCustody, ExpandCustody,
           WorkersAreThreads DEF ThreadStep, Work

LEMMA NextCustody == Custody /\ [Next]_vars => Custody'
<1> SUFFICES ASSUME Custody, [Next]_vars PROVE Custody'
  OBVIOUS
<1>1. CASE \E w \in Workers : ThreadStep(w)
  BY <1>1, ThreadCustody
<1>2. CASE Leave(Master)
  <2>1. /\ main = "region" /\ tpc[Master] = "test" /\ tpc' = [tpc EXCEPT ![Master] = "out"]
        /\ UNCHANGED <<seen, expanded, saved, main, hand>>
    BY <1>2 DEF Leave, searchVars
  <2>2. "out" \in Points \ {"count", "expand"}
    BY DEF Points
  <2>3. hand' = [v \in Workers |-> hand'[v]]
    BY <2>1 DEF Custody, ThreadsTyped
  <2> QED BY <2>1, <2>2, <2>3, WorkersAreThreads, IdleStep
<1>3. CASE Watch \/ Signal \/ EndSignal \/ Stopped \/ UNCHANGED vars
  <2>1. UNCHANGED custodyVars
    BY <1>3 DEF Watch, Signal, EndSignal, Stopped, vars, searchVars, threadVars, custodyVars
  <2> QED BY <2>1, StutterCustody
<1>4. CASE EndRegion
  <2>1. /\ main' = "flag" /\ \A t \in Threads : tpc[t] = "out"
        /\ UNCHANGED <<tpc, hand, seen, expanded, saved>>
    BY <1>4 DEF EndRegion, searchVars, threadVars
  <2> QED BY <2>1 DEF Custody, ThreadsTyped, SeenIsHeld, ExpandedOnce, QuietOutside, Between,
                      CheckpointComplete, Searching
<1>5. CASE ReadFlags \/ ExchangeExit \/ ClearRequest \/ TryRestart
  <2>1. /\ Between /\ main' # "region"
        /\ UNCHANGED <<tpc, hand, seen, expanded, saved>>
    BY <1>5 DEF ReadFlags, ExchangeExit, ClearRequest, TryRestart, searchVars, threadVars,
                Between
  <2> QED BY <2>1, OutsideStep
<1>6. CASE Save
  BY <1>6, SaveCustody
<1>7. CASE NoResult \/ Shift
  <2>1. /\ main = "result"
        /\ \/ UNCHANGED tpc /\ main' = "done"
           \/ main' = "region" /\ tpc' = [t \in Threads |-> "test"]
        /\ UNCHANGED <<hand, seen, expanded, saved>>
    BY <1>7 DEF NoResult, Shift, EnterRegion, searchVars
  <2> QED BY <2>1, OutsideStep DEF Between
<1>8. CASE Crash \/ Resume
  BY <1>8, RestoreCustody DEF Crash, Resume
<1> QED BY <1>1, <1>2, <1>3, <1>4, <1>5, <1>6, <1>7, <1>8 DEF Next, MainStep

\* A puzzle the cache knows is in exactly one place: expanded, or in one hand.
THEOREM CustodyInvariant == Spec => []Custody
BY InitCustody, NextCustody, PTL DEF Spec

\* No puzzle is expanded twice, whatever the interleaving of threads, restarts,
\* checkpoints and crashes.
THEOREM NothingTwice == Spec => []ExpandedOnce
<1>1. Custody => ExpandedOnce
  BY DEF Custody
<1> QED BY <1>1, CustodyInvariant, PTL

\* A checkpoint marks as seen only what was expanded.
THEOREM CheckpointsSkipNothing == Spec => []CheckpointComplete
<1>1. Custody => CheckpointComplete
  BY DEF Custody
<1> QED BY <1>1, CustodyInvariant, PTL

-----------------------------------------------------------------------------
(* The window.                                                             *)

\* A window whose current stage is n.
Window(st, n) ==
  /\ st \in [0 .. Top -> Heights \cup {None}]
  /\ \A i \in 0 .. Top : st[i] \in {n - (Top - i), None}
  /\ st[Top] # None
  /\ \A i, j \in 0 .. Top : i < j /\ st[i] # None => st[j] # None

Linked(st, pr) ==
  \A i \in 0 .. Top : st[i] # None => pr[st[i]] = IF i = 0 THEN None ELSE st[i - 1]

WindowOK ==
  /\ s \in Heights /\ Window(stages, s)
  /\ Linked(stages, prev)
  /\ main # "done" => s <= Target
  /\ saved # NoSave => saved.s \in 1 .. Target /\ Window(saved.stages, saved.s)

windowVars == <<s, stages, prev, saved>>

LEMMA TopIsNat == Top \in Nat \ {0} /\ Heights \subseteq Nat \ {0}
BY SearchAssumption DEF Top, Heights

LEMMA InitWindow == Init => WindowOK
<1> SUFFICES ASSUME Init PROVE WindowOK
  OBVIOUS
<1>1. s = 1 /\ stages = [i \in 0 .. Top |-> IF i = Top THEN 1 ELSE None]
      /\ prev = [h \in Heights |-> None] /\ saved = NoSave
  BY DEF Init
<1>2. s \in Heights /\ s <= Target
  BY <1>1, SearchAssumption DEF Heights
<1>3. Window(stages, s)
  BY <1>1, <1>2, TopIsNat DEF Window, None
<1>4. Linked(stages, prev)
  BY <1>1, <1>2, TopIsNat DEF Linked, None
<1> QED BY <1>1, <1>2, <1>3, <1>4 DEF WindowOK

LEMMA StutterWindow ==
  WindowOK /\ UNCHANGED windowVars /\ (main = "done" => main' = "done") => WindowOK'
BY DEF WindowOK, windowVars, Linked

\* Two stages of a window differ in height.
LEMMA HeightsDiffer ==
  ASSUME NEW st, NEW n \in Nat, Window(st, n),
         NEW i \in 0 .. Top, NEW j \in 0 .. Top, st[i] # None, st[i] = st[j]
  PROVE  i = j
<1>1. st[i] = n - (Top - i) /\ st[j] = n - (Top - j)
  BY DEF Window
<1>2. n - (Top - i) = n - (Top - j)
  BY <1>1
<1>3. Top \in Int /\ i \in Int /\ j \in Int /\ n \in Int
  BY TopIsNat
<1> QED BY <1>2, <1>3

LEMMA ShiftWindow == WindowOK /\ Shift => WindowOK'
<1> SUFFICES ASSUME WindowOK, Shift PROVE WindowOK'
  OBVIOUS
<1>1. /\ stages' = [i \in 0 .. Top |-> IF i = Top THEN s + 1 ELSE stages[i + 1]]
      /\ prev' = [h \in Heights |-> IF h = s + 1 THEN s
                                    ELSE IF stages[0] # None /\ h = stages[1] THEN None
                                    ELSE prev[h]]
      /\ s' = s + 1 /\ saved' = saved
      /\ main = "result" /\ (s # Target => main' = "region") /\ (s = Target => main' = "done")
  BY DEF Shift, Shifted, ShiftedPrev, EnterRegion
<1>2. s \in Nat \ {0} /\ s <= Target /\ s + 1 \in Heights /\ (s # Target => s + 1 <= Target)
  BY <1>1, SearchAssumption DEF WindowOK, Heights
<1>3. stages[Top] = s
  BY TopIsNat, <1>2 DEF WindowOK, Window
<1>4. Window(stages', s')
  <2>1. ASSUME NEW i \in 0 .. Top
        PROVE  stages'[i] \in {s' - (Top - i), None} /\ stages'[i] \in Heights \cup {None}
    <3>1. CASE i = Top
      BY <1>1, <1>2, <3>1, TopIsNat
    <3>2. CASE i # Top
      <4>1. i + 1 \in 0 .. Top /\ stages'[i] = stages[i + 1]
        BY <1>1, <3>2, TopIsNat
      <4>2. stages[i + 1] \in {s - (Top - (i + 1)), None} /\ stages[i + 1] \in Heights \cup {None}
        BY <4>1 DEF WindowOK, Window
      <4>3. s - (Top - (i + 1)) = s' - (Top - i)
        BY <1>1, <1>2, TopIsNat
      <4> QED BY <4>1, <4>2, <4>3
    <3> QED BY <3>1, <3>2
  <2>2. ASSUME NEW i \in 0 .. Top, NEW j \in 0 .. Top, i < j, stages'[i] # None
        PROVE  stages'[j] # None
    <3>1. CASE j = Top
      BY <1>1, <1>2, <3>1, TopIsNat DEF None
    <3>2. CASE j # Top
      <4>1. /\ i + 1 \in 0 .. Top /\ j + 1 \in 0 .. Top /\ i + 1 < j + 1
            /\ stages'[i] = stages[i + 1] /\ stages'[j] = stages[j + 1]
        BY <1>1, <2>2, <3>2, TopIsNat
      <4> QED BY <4>1, <2>2 DEF WindowOK, Window
    <3> QED BY <3>1, <3>2
  <2>3. stages'[Top] # None
    BY <1>1, <1>2, TopIsNat DEF None
  <2>4. stages' \in [0 .. Top -> Heights \cup {None}]
    BY <1>1, <2>1
  <2> QED BY <2>1, <2>2, <2>3, <2>4 DEF Window
<1>5. Linked(stages', prev')
  <2> SUFFICES ASSUME NEW i \in 0 .. Top, stages'[i] # None
               PROVE  prev'[stages'[i]] = IF i = 0 THEN None ELSE stages'[i - 1]
    BY DEF Linked
  <2>1. CASE i = Top
    <3>1. stages'[i] = s + 1 /\ i # 0 /\ stages'[i - 1] = stages[Top]
      BY <1>1, <2>1, TopIsNat
    <3> QED BY <3>1, <1>1, <1>2, <1>3
  <2>2. CASE i # Top
    <3>1. /\ i + 1 \in 0 .. Top /\ stages'[i] = stages[i + 1] /\ stages[i + 1] # None
          /\ 0 \in 0 .. Top /\ 1 \in 0 .. Top
      BY <1>1, <2>2, TopIsNat
    <3>2. stages[i + 1] = s - (Top - (i + 1)) /\ stages[i + 1] \in Heights
      BY <3>1 DEF WindowOK, Window
    <3>3. stages[i + 1] # s + 1
      BY <3>1, <3>2, <1>2, TopIsNat
    <3>4. prev[stages[i + 1]] = stages[i]
      BY <3>1, TopIsNat DEF WindowOK, Linked
    <3>5. CASE i = 0
      BY <1>1, <3>1, <3>2, <3>3, <3>4, <3>5
    <3>6. CASE i # 0
      <4>1. stages[i + 1] # stages[1]
        BY <1>2, <3>1, <3>6, HeightsDiffer DEF WindowOK
      <4>2. i - 1 \in 0 .. Top /\ stages'[i - 1] = stages[i]
        BY <1>1, <2>2, <3>6, TopIsNat
      <4> QED BY <1>1, <3>1, <3>2, <3>3, <3>4, <3>6, <4>1, <4>2
    <3> QED BY <3>5, <3>6
  <2> QED BY <2>1, <2>2
<1> QED BY <1>1, <1>2, <1>4, <1>5 DEF WindowOK

\* Going down the window from i, the nearest stage is the one just below.
LEMMA BelowIsNext ==
  ASSUME NEW st, NEW n \in Nat, Window(st, n), NEW i \in 0 .. Top
  PROVE  Below(st, i) = IF i = 0 THEN None ELSE st[i - 1]
<1> DEFINE lower == {j \in 0 .. (i - 1) : st[j] # None}
<1>1. CASE i = 0
  <2>1. lower = {}
    BY <1>1
  <2> QED BY <1>1, <2>1 DEF Below
<1>2. CASE i # 0 /\ st[i - 1] = None
  <2>1. ASSUME NEW j \in 0 .. (i - 1) PROVE st[j] = None
    <3>1. j \in 0 .. Top /\ i - 1 \in 0 .. Top /\ (j < i - 1 \/ j = i - 1)
      BY <1>2, TopIsNat
    <3> QED BY <1>2, <3>1 DEF Window
  <2>2. lower = {}
    BY <2>1
  <2> QED BY <1>2, <2>2 DEF Below
<1>3. CASE i # 0 /\ st[i - 1] # None
  <2>1. i - 1 \in lower /\ \A x \in lower : x <= i - 1
    BY <1>3, TopIsNat
  <2>2. \A j \in lower : (\A x \in lower : x <= j) => j = i - 1
    BY <2>1, TopIsNat
  <2>3. (CHOOSE j \in lower : \A x \in lower : x <= j) = i - 1
    BY <2>1, <2>2
  <2>4. lower # {}
    BY <2>1
  <2>5. Below(st, i) = IF lower = {} THEN None
                       ELSE st[CHOOSE j \in lower : \A x \in lower : x <= j]
    BY DEF Below
  <2> QED BY <1>3, <2>3, <2>4, <2>5
<1> QED BY <1>1, <1>2, <1>3

LEMMA RestoreWindow == WindowOK /\ Restore => WindowOK'
<1> SUFFICES ASSUME WindowOK, Restore PROVE WindowOK'
  OBVIOUS
<1> DEFINE st == saved.stages
           At(h) == CHOOSE i \in 0 .. Top : st[i] = h
<1>1. /\ s' = saved.s /\ stages' = st /\ saved' = saved /\ main' = "region"
      /\ prev' = [h \in Heights |-> IF \E i \in 0 .. Top : st[i] = h
                                    THEN Below(st, At(h)) ELSE None]
  BY DEF Restore, EnterRegion
<1>2. saved.s \in 1 .. Target /\ Window(st, saved.s)
  BY DEF WindowOK, Restore
<1>3. saved.s \in Nat /\ saved.s \in Heights
  BY <1>2, SearchAssumption DEF Heights
<1>4. ASSUME NEW i \in 0 .. Top, st[i] # None
      PROVE  prev'[st[i]] = IF i = 0 THEN None ELSE st[i - 1]
  <2>1. st[i] \in Heights
    BY <1>2, <1>4 DEF Window
  <2>2. At(st[i]) \in 0 .. Top /\ st[At(st[i])] = st[i]
    OBVIOUS
  <2>3. At(st[i]) = i
    <3> HIDE DEF At
    <3> QED BY <1>2, <1>3, <1>4, <2>2, HeightsDiffer
  <2>4. prev'[st[i]] = Below(st, At(st[i]))
    BY <1>1, <2>1
  <2>5. prev'[st[i]] = Below(st, i)
    <3> HIDE DEF At
    <3> QED BY <2>3, <2>4
  <2> QED BY <1>2, <1>3, <2>5, BelowIsNext
<1>5. Linked(stages', prev')
  <2> HIDE DEF st, At
  <2> QED BY <1>1, <1>4 DEF Linked
<1> QED BY <1>1, <1>2, <1>3, <1>5 DEF WindowOK

LEMMA SaveWindow == WindowOK /\ Save => WindowOK'
<1> SUFFICES ASSUME WindowOK, Save PROVE WindowOK'
  OBVIOUS
<1>1. /\ UNCHANGED <<s, stages, prev>> /\ main = "save" /\ main' = "exchange"
      /\ saved' = Snapshot \/ saved' = saved
  BY DEF Save, searchVars, stageVars
<1>2. s \in 1 .. Target
  BY <1>1, SearchAssumption DEF WindowOK, Heights
<1>3. Snapshot.s = s /\ Snapshot.stages = stages
  BY DEF Snapshot
<1> QED BY <1>1, <1>2, <1>3 DEF WindowOK, Linked

LEMMA NextWindow == WindowOK /\ [Next]_vars => WindowOK'
<1> SUFFICES ASSUME WindowOK, [Next]_vars PROVE WindowOK'
  OBVIOUS
<1>1. CASE \E w \in Workers : ThreadStep(w)
  <2>1. UNCHANGED windowVars /\ main # "done"
    BY <1>1 DEF ThreadStep, Work, PickStage, FetchPrev, FetchOwn, FetchNothing, Lookup, Count,
                Expand, ExpandThrows, Leave, searchVars, stageVars, windowVars
  <2> QED BY <2>1, StutterWindow
<1>2. CASE Watch \/ Leave(Master) \/ Signal \/ EndSignal \/ Stopped \/ UNCHANGED vars
  <2>1. UNCHANGED windowVars /\ main' = main
    BY <1>2 DEF Watch, Leave, Signal, EndSignal, Stopped, vars, searchVars, stageVars, windowVars
  <2> QED BY <2>1, StutterWindow
<1>3. CASE EndRegion \/ ReadFlags \/ ExchangeExit \/ ClearRequest \/ TryRestart \/ NoResult
  <2>1. UNCHANGED windowVars /\ main # "done" /\ main' # "done"
    BY <1>3 DEF EndRegion, ReadFlags, ExchangeExit, ClearRequest, TryRestart, NoResult,
                EnterRegion, searchVars, stageVars, windowVars
  <2> QED BY <2>1, StutterWindow
<1>4. CASE Save
  BY <1>4, SaveWindow
<1>5. CASE Shift
  BY <1>5, ShiftWindow
<1>6. CASE Crash \/ Resume
  BY <1>6, RestoreWindow DEF Crash, Resume
<1> QED BY <1>1, <1>2, <1>3, <1>4, <1>5, <1>6 DEF Next, MainStep

\* The window is contiguous and linked, through shifts and resumptions.
THEOREM WindowInvariant == Spec => []WindowOK
BY InitWindow, NextWindow, PTL DEF Spec

\* Every stage of the window takes its results from the stage one row lower, and
\* the oldest from none.
THEOREM WindowAlwaysLinked == Spec => []WindowLinked
<1>1. WindowOK => WindowLinked
  BY TopIsNat DEF WindowOK, Window, Linked, WindowLinked
<1> QED BY <1>1, WindowInvariant, PTL

-----------------------------------------------------------------------------
(* Types.                                                                  *)

\* The results of a stage are puzzles of its own, or ones nobody filled in.
ResultOf(h) == Own(h) \cup {Unset}

ResultList(q, h) == q \in Seq(ResultOf(h))

\* The part of the state a checkpoint holds; n is the current stage.
GoodState(n, q, r, si, be, se) ==
  /\ q \in [Heights -> BOOLEAN]
  /\ r = [h \in Heights |-> r[h]] /\ \A h \in Heights : ResultList(r[h], h)
  /\ si \in [Heights -> Nat]
  /\ be \in [Heights -> {"none", "miss", "perfect"}]
  /\ se \subseteq Puz
  /\ \A p \in se : p.rows <= n

\* What a thread has in hand and where, at each control point.
Holds(c, h, p) ==
  /\ c \in {"test", "out"} => h = None /\ p = NoPuz
  /\ c = "fetch" => h \in Alive /\ p = NoPuz
  /\ c \in {"lookup", "count", "expand"} => h \in Alive /\ p \in ForStage(h)

Holding ==
  /\ on = [w \in Workers |-> on[w]]
  /\ \A w \in Workers : Holds(tpc[w], on[w], hand[w])

Flags ==
  /\ main \in {"region", "flag", "save", "exchange", "clear", "restart", "result",
               "done", "exited"}
  /\ restart \in BOOLEAN /\ ckpt \in BOOLEAN /\ exit \in BOOLEAN /\ exitRead \in BOOLEAN
  /\ sig \in {"none", "half", "handled"}

Typed ==
  /\ GoodState(s, queue, results, since, best, seen)
  /\ saved # NoSave =>
       GoodState(saved.s, saved.queue, saved.results, saved.since, saved.best, saved.seen)
  /\ prev \in [Heights -> Heights \cup {None}]
  /\ Holding
  /\ Flags

\* The types rest on the two invariants above.
Known == Custody /\ WindowOK /\ Typed

liveVars == <<s, queue, results, since, best, seen>>

LEMMA InitTyped == Init => Typed
<1> SUFFICES ASSUME Init PROVE Typed
  OBVIOUS
<1>1. GoodState(s, queue, results, since, best, seen)
  BY SearchAssumption DEF Init, GoodState, ResultList
<1>2. Holding
  BY WorkersAreThreads DEF Init, Holding, Holds
<1>3. Flags /\ saved = NoSave /\ prev \in [Heights -> Heights \cup {None}]
  BY DEF Init, Flags
<1> QED BY <1>1, <1>2, <1>3 DEF Typed

\* The stages of the window are at most as high as the current one.
LEMMA AliveHeights ==
  ASSUME WindowOK, NEW h \in Alive
  PROVE  h \in Heights /\ h <= s /\ h # None
<1>1. PICK i \in 0 .. Top : stages[i] = h /\ h # None
  BY DEF Alive
<1>2. h = s - (Top - i) /\ h \in Heights
  BY <1>1 DEF WindowOK, Window
<1>3. s \in Nat
  BY TopIsNat DEF WindowOK
<1> QED BY <1>1, <1>2, <1>3, TopIsNat

\* The predecessor of a stage of the window is the stage one lower.
LEMMA PrevIsLower ==
  ASSUME WindowOK, NEW h \in Alive, prev[h] # None
  PROVE  prev[h] = h - 1 /\ prev[h] \in Alive
<1>1. PICK i \in 0 .. Top : stages[i] = h /\ h # None
  BY DEF Alive
<1>2. i # 0 /\ prev[h] = stages[i - 1]
  BY <1>1 DEF WindowOK, Linked
<1>3. i - 1 \in 0 .. Top
  BY <1>2, TopIsNat
<1>4. stages[i - 1] = s - (Top - (i - 1)) /\ h = s - (Top - i)
  BY <1>1, <1>2, <1>3 DEF WindowOK, Window
<1>5. s \in Nat
  BY TopIsNat DEF WindowOK
<1> QED BY <1>2, <1>3, <1>4, <1>5, TopIsNat DEF Alive

\* What a stage may work on is a puzzle at most as high as the stage.
LEMMA ForStageIsPuz ==
  ASSUME NEW h \in Heights, NEW p \in ForStage(h)
  PROVE  p \in Puz /\ p.rows \in Nat /\ p.rows <= h /\ p # NoPuz
<1>1. Unset \in Puz /\ Grow(Unset) \in Puz
  BY SearchAssumption DEF Unset, Grow, Puz, Heights
<1>2. p \in Puz /\ p.rows <= h
  BY <1>1, TopIsNat DEF ForStage, Own
<1>3. p.rows \in Nat \ {0}
  BY <1>2, TopIsNat DEF Puz
<1> QED BY <1>2, <1>3 DEF NoPuz, None

\* What the next stage makes of a result.
LEMMA GrownFits ==
  ASSUME NEW l \in Heights, l + 1 \in Heights, NEW p \in ResultOf(l)
  PROVE  Grow(p) \in ForStage(l + 1)
<1>1. CASE p \in Own(l)
  <2>1. Grow(p) = [rows |-> l + 1, name |-> p.name] /\ p.name \in Names /\ p.name # Nameless
    BY <1>1 DEF Grow, Own, Puz
  <2> QED BY <2>1 DEF ForStage, Own, Puz
<1>2. CASE p = Unset
  <2>1. Grow(Unset).rows = 2 /\ 2 <= l + 1
    BY TopIsNat DEF Grow, Unset
  <2> QED BY <1>2, <2>1 DEF ForStage
<1> QED BY <1>1, <1>2 DEF ResultOf

\* A perfect puzzle in hand is one of the stage's own.
LEMMA PerfectIsOwn ==
  ASSUME NEW h, NEW p \in ForStage(h), p \in Perfect
  PROVE  p \in Own(h) /\ p # Unset /\ p.rows = h
<1>1. p.name \in Names /\ Nameless \notin Names
  BY SearchAssumption
<1>2. Unset.name = Nameless /\ Grow(Unset).name = Nameless
  BY DEF Unset, Grow
<1>3. p \in Own(h) /\ p # Unset
  BY <1>1, <1>2 DEF ForStage
<1> QED BY <1>3 DEF Own

\* Taking the newest result of a list.
LEMMA FrontOfList ==
  ASSUME NEW q, NEW h, ResultList(q, h), q # <<>>
  PROVE  /\ Last(q) \in ResultOf(h)
         /\ ResultList(Front(q), h)
         /\ ToSet(q) \ {Last(q)} \subseteq ToSet(Front(q))
<1> DEFINE R == ResultOf(h)
<1>0. q \in Seq(R)
  BY DEF ResultList
<1> HIDE DEF R
<1>1. Len(q) \in Nat \ {0}
  BY <1>0
<1>2. Front(q) = SubSeq(q, 1, Len(q) - 1)
  BY <1>1 DEF Front
<1>3. \A i \in 1 .. Len(q) - 1 : q[i] \in R
  BY <1>0, <1>1
<1>4. /\ Front(q) \in Seq(R) /\ Len(Front(q)) = Len(q) - 1
      /\ \A i \in 1 .. Len(q) - 1 : Front(q)[i] = q[i]
  <2>1. 1 \in Int /\ Len(q) - 1 \in Int
    BY <1>1
  <2>2. /\ Front(q) \in Seq(R)
        /\ Len(Front(q)) = IF 1 <= Len(q) - 1 THEN (Len(q) - 1) - 1 + 1 ELSE 0
        /\ \A i \in 1 .. (Len(q) - 1) - 1 + 1 : Front(q)[i] = q[1 + i - 1]
    BY <1>2, <1>3, <2>1, SubSeqProperties
  <2>3. ASSUME NEW i \in 1 .. Len(q) - 1 PROVE Front(q)[i] = q[i]
    <3>1. i \in 1 .. (Len(q) - 1) - 1 + 1 /\ 1 + i - 1 = i
      BY <1>1
    <3> QED BY <2>2, <3>1
  <2>4. Len(Front(q)) = Len(q) - 1
    <3> DEFINE n == Len(q)
    <3>1. n \in Nat \ {0} /\ Len(Front(q)) = IF 1 <= n - 1 THEN (n - 1) - 1 + 1 ELSE 0
      BY <1>1, <2>2
    <3> HIDE DEF n
    <3>2. Len(Front(q)) = n - 1
      BY <3>1
    <3> QED BY <3>2 DEF n
  <2> QED BY <2>2, <2>3, <2>4
<1>5. Last(q) = q[Len(q)] /\ Last(q) \in R
  BY <1>0, <1>1 DEF Last
<1>6. ASSUME NEW p \in ToSet(q), p # Last(q) PROVE p \in ToSet(Front(q))
  <2>1. PICK i \in 1 .. Len(q) : p = q[i]
    BY <1>0, <1>6 DEF ToSet
  <2>2. i \in 1 .. Len(q) - 1
    BY <1>1, <1>5, <1>6, <2>1
  <2>3. i \in DOMAIN Front(q) /\ p = Front(q)[i]
    BY <1>4, <2>1, <2>2
  <2> QED BY <2>3 DEF ToSet
<1> QED BY <1>4, <1>5, <1>6 DEF R, ResultList

\* A new result.
LEMMA AppendToList ==
  ASSUME NEW q, NEW h, ResultList(q, h), NEW p \in ResultOf(h)
  PROVE  ResultList(Append(q, p), h) /\ ToSet(Append(q, p)) = ToSet(q) \cup {p}
<1> DEFINE R == ResultOf(h)
<1>1. q \in Seq(R) /\ Len(q) \in Nat /\ p \in R
  BY DEF ResultList
<1> HIDE DEF R
<1>2. /\ Append(q, p) \in Seq(R) /\ Len(Append(q, p)) = Len(q) + 1
      /\ \A i \in 1 .. Len(q) : Append(q, p)[i] = q[i]
      /\ Append(q, p)[Len(q) + 1] = p
  BY <1>1
<1>3. \A i \in 1 .. Len(q) + 1 : i \in 1 .. Len(q) \/ i = Len(q) + 1
  BY <1>1
<1>4. DOMAIN q = 1 .. Len(q) /\ DOMAIN Append(q, p) = 1 .. Len(q) + 1
  BY <1>1, <1>2
<1>5. Len(q) + 1 \in 1 .. Len(q) + 1 /\ 1 .. Len(q) \subseteq 1 .. Len(q) + 1
  BY <1>1
<1>6. ToSet(Append(q, p)) = ToSet(q) \cup {p}
  BY <1>2, <1>3, <1>4, <1>5 DEF ToSet
<1> QED BY <1>2, <1>6 DEF R, ResultList

\* A thread moves on, alone.
LEMMA HoldingStep ==
  ASSUME Known, UNCHANGED stages, NEW w \in Workers, NEW c,
         tpc' = [tpc EXCEPT ![w] = c],
         on' = [v \in Workers |-> on'[v]],
         \A v \in Workers : v # w => on'[v] = on[v] /\ hand'[v] = hand[v],
         Holds(c, on'[w], hand'[w])
  PROVE  Holding'
<1>1. \A v \in Workers : tpc'[v] = IF v = w THEN c ELSE tpc[v]
  BY WorkersAreThreads DEF Known, Custody, ThreadsTyped
<1>2. Alive' = Alive
  BY DEF Alive
<1>3. ASSUME NEW v \in Workers PROVE Holds(tpc[v], on[v], hand[v])'
  <2>1. CASE v = w
    BY <1>1, <1>2, <2>1 DEF Holds
  <2>2. CASE v # w
    BY <1>1, <1>2, <2>2 DEF Holds, Known, Typed, Holding
  <2> QED BY <2>1, <2>2
<1> QED BY <1>3 DEF Holding

\* A thread step that leaves the shared state alone.
LEMMA QuietStep ==
  ASSUME Known, NEW w \in Workers, NEW c, UNCHANGED <<stages, prev, liveVars, saved, flagVars, sig, main>>,
         tpc' = [tpc EXCEPT ![w] = c],
         on' = [v \in Workers |-> on'[v]],
         \A v \in Workers : v # w => on'[v] = on[v] /\ hand'[v] = hand[v],
         Holds(c, on'[w], hand'[w])
  PROVE  Typed'
<1>1. Holding'
  BY HoldingStep
<1> QED BY <1>1 DEF Known, Typed, GoodState, Flags, flagVars, liveVars

LEMMA FetchPrevTyped ==
  ASSUME Known, NEW w \in Workers, FetchPrev(w)
  PROVE  Typed'
<1> DEFINE h == on[w]
           l == prev[h]
<1>1. /\ tpc[w] = "fetch" /\ tpc' = [tpc EXCEPT ![w] = "lookup"] /\ on' = on
      /\ l # None /\ results[l] # <<>>
      /\ hand' = [hand EXCEPT ![w] = Grow(Last(results[l]))]
      /\ results' = [results EXCEPT ![l] = Front(results[l])]
      /\ UNCHANGED <<s, stages, queue, prev, since, best, seen, saved, sig, main, flagVars>>
  BY DEF FetchPrev, envVars
<1>2. h \in Alive /\ on = [v \in Workers |-> on[v]] /\ hand = [v \in Workers |-> hand[v]]
  BY <1>1 DEF Known, Typed, Holding, Holds, Custody, ThreadsTyped
<1>3. l = h - 1 /\ l \in Alive /\ l \in Heights /\ h \in Heights
  BY <1>1, <1>2, PrevIsLower, AliveHeights DEF Known
<1>4. ResultList(results[l], l)
  BY <1>3 DEF Known, Typed, GoodState
<1>5. Last(results[l]) \in ResultOf(l) /\ ResultList(Front(results[l]), l)
  BY <1>1, <1>4, FrontOfList
<1>6. Grow(Last(results[l])) \in ForStage(h)
  <2> HIDE DEF h, l
  <2>1. h \in Nat
    BY <1>3, TopIsNat
  <2>2. l + 1 = h
    BY <1>3, <2>1
  <2> QED BY <1>3, <1>5, <2>2, GrownFits
<1>7. Holds("lookup", on'[w], hand'[w])
  BY <1>1, <1>2, <1>6 DEF Holds
<1>8. Holding'
  <2>1. \A v \in Workers : v # w => on'[v] = on[v] /\ hand'[v] = hand[v]
    BY <1>1, <1>2
  <2> QED BY <1>1, <1>2, <1>7, <2>1, HoldingStep
<1>9. GoodState(s, queue, results, since, best, seen)'
  <2>1. results' = [k \in Heights |-> IF k = l THEN Front(results[l]) ELSE results[k]]
    BY <1>1 DEF Known, Typed, GoodState
  <2>2. \A k \in Heights : ResultList(results'[k], k)
    BY <1>5, <2>1 DEF Known, Typed, GoodState
  <2> QED BY <1>1, <2>1, <2>2 DEF Known, Typed, GoodState
<1> QED BY <1>1, <1>8, <1>9 DEF Known, Typed, Flags, flagVars

LEMMA LookupTyped ==
  ASSUME Known, NEW w \in Workers, Lookup(w)
  PROVE  Typed'
<1>1. /\ tpc[w] = "lookup"
      /\ UNCHANGED <<s, stages, queue, results, prev, since, best, saved, sig, main, flagVars>>
  BY DEF Lookup, stageVars, envVars
<1>2. /\ on = [v \in Workers |-> on[v]] /\ hand = [v \in Workers |-> hand[v]]
      /\ on[w] \in Alive /\ hand[w] \in ForStage(on[w])
  BY <1>1 DEF Known, Typed, Holding, Holds, Custody, ThreadsTyped
<1>3. Alive' = Alive
  BY <1>1 DEF Alive
<1>4. CASE hand[w] \in seen
  <2>1. /\ tpc' = [tpc EXCEPT ![w] = "test"] /\ seen' = seen
        /\ hand' = [hand EXCEPT ![w] = NoPuz] /\ on' = [on EXCEPT ![w] = None]
    BY <1>4 DEF Lookup
  <2>2. Holds("test", on'[w], hand'[w])
    BY <1>2, <2>1 DEF Holds
  <2> QED BY <1>1, <1>2, <2>1, <2>2, QuietStep DEF liveVars
<1>5. CASE hand[w] \notin seen
  <2>1. /\ tpc' = [tpc EXCEPT ![w] = "count"] /\ seen' = seen \cup {hand[w]}
        /\ UNCHANGED <<hand, on>>
    BY <1>5 DEF Lookup
  <2>2. Holds("count", on'[w], hand'[w])
    BY <1>2, <2>1 DEF Holds
  <2>3. Holding'
    BY <1>1, <1>2, <2>1, <2>2, HoldingStep
  <2>4. hand[w] \in Puz /\ hand[w].rows <= s
    BY <1>2, AliveHeights, ForStageIsPuz, TopIsNat DEF Known, WindowOK
  <2>5. GoodState(s, queue, results, since, best, seen)'
    BY <1>1, <1>2, <2>1, <2>4 DEF Known, Typed, GoodState
  <2> QED BY <1>1, <2>3, <2>5 DEF Known, Typed, Flags, flagVars
<1> QED BY <1>4, <1>5

LEMMA CountTyped ==
  ASSUME Known, NEW w \in Workers, Count(w)
  PROVE  Typed'
<1> DEFINE h == on[w]
<1>1. /\ tpc[w] = "count" /\ tpc' = [tpc EXCEPT ![w] = "expand"]
      /\ UNCHANGED <<s, stages, queue, prev, seen, saved, sig, main, flagVars, hand, on>>
  BY DEF Count, envVars
<1>2. /\ on = [v \in Workers |-> on[v]] /\ hand = [v \in Workers |-> hand[v]]
      /\ on[w] \in Alive /\ hand[w] \in ForStage(on[w])
  BY <1>1 DEF Known, Typed, Holding, Holds, Custody, ThreadsTyped
<1>3. h \in Heights
  BY <1>2, AliveHeights DEF Known
<1>4. PICK gap \in Gaps(hand[w]), progress \in BOOLEAN :
        /\ best' = [best EXCEPT ![h] = IF progress THEN gap ELSE @]
        /\ since' = [since EXCEPT ![h] = IF progress THEN 1
                                        ELSE IF @ > RestartThresh THEN @ ELSE @ + 1]
        /\ results' = IF gap = "perfect" THEN [results EXCEPT ![h] = Append(@, hand[w])]
                      ELSE results
  BY <1>3 DEF Count, Improves, Known, Typed, GoodState
<1>5. gap \in {"miss", "perfect"}
       /\ (gap = "perfect" => hand[w] \in ResultOf(h))
  BY <1>2, <1>4, PerfectIsOwn DEF Gaps, ResultOf
<1>6. best' \in [Heights -> {"none", "miss", "perfect"}] /\ since' \in [Heights -> Nat]
  BY <1>3, <1>4, <1>5 DEF Known, Typed, GoodState
<1>7. /\ ResultList(results[h], h)
      /\ gap = "perfect" => ResultList(Append(results[h], hand[w]), h)
  BY <1>3, <1>5, AppendToList DEF Known, Typed, GoodState
<1>8. /\ results' = [k \in Heights |-> results'[k]]
      /\ \A k \in Heights : k # h => results'[k] = results[k]
      /\ \/ results'[h] = results[h]
         \/ gap = "perfect" /\ results'[h] = Append(results[h], hand[w])
  BY <1>3, <1>4 DEF Known, Typed, GoodState
<1>9. \A k \in Heights : ResultList(results'[k], k)
  BY <1>7, <1>8 DEF Known, Typed, GoodState
<1>10. GoodState(s, queue, results, since, best, seen)'
  BY <1>1, <1>6, <1>8, <1>9 DEF Known, Typed, GoodState
<1>11. Holding'
  <2>1. Holds("expand", on'[w], hand'[w])
    BY <1>1, <1>2 DEF Holds
  <2> QED BY <1>1, <1>2, <2>1, HoldingStep
<1> QED BY <1>1, <1>10, <1>11 DEF Known, Typed, Flags, flagVars

LEMMA ThreadTyped ==
  ASSUME Known, NEW w \in Workers, ThreadStep(w)
  PROVE  Typed'
<1>1. /\ on = [v \in Workers |-> on[v]] /\ hand = [v \in Workers |-> hand[v]]
      /\ Holds(tpc[w], on[w], hand[w])
  BY DEF Known, Typed, Holding, Custody, ThreadsTyped
<1>2. ASSUME PickStage(w) \/ FetchNothing(w) \/ Leave(w)
      PROVE  Typed'
  <2>1. PICK c \in {"fetch", "test", "out"} :
          /\ tpc' = [tpc EXCEPT ![w] = c]
          /\ UNCHANGED <<stages, prev, liveVars, saved, flagVars, sig, main, hand>>
          /\ tpc[w] \in {"test", "fetch"}
          /\ \/ c = "fetch" /\ \E i \in Workable : on' = [on EXCEPT ![w] = stages[i]]
             \/ c = "test" /\ on' = [on EXCEPT ![w] = None]
             \/ c = "out" /\ tpc[w] = "test" /\ on' = on
    BY <1>2 DEF PickStage, FetchNothing, Leave, searchVars, stageVars, envVars, liveVars
  <2>2. /\ on' = [v \in Workers |-> on'[v]]
        /\ \A v \in Workers : v # w => on'[v] = on[v] /\ hand'[v] = hand[v]
    BY <1>1, <2>1
  <2>3. hand[w] = NoPuz
    BY <1>1, <2>1 DEF Holds
  <2>4. Holds(c, on'[w], hand'[w])
    BY <1>1, <2>1, <2>3 DEF Holds, Workable, Alive
  <2> QED BY <2>1, <2>2, <2>4, QuietStep
<1>3. ASSUME FetchOwn(w) PROVE Typed'
  <2>1. /\ tpc[w] = "fetch" /\ tpc' = [tpc EXCEPT ![w] = "lookup"] /\ on' = on
        /\ UNCHANGED <<s, stages, results, prev, since, best, seen, saved, sig, main, flagVars>>
        /\ \E p \in Own(on[w]) \cup {Unset} : hand' = [hand EXCEPT ![w] = p]
        /\ \E more \in BOOLEAN : queue' = [queue EXCEPT ![on[w]] = more]
    BY <1>3 DEF FetchOwn, envVars
  <2>2. on[w] \in Alive /\ on[w] \in Heights
    BY <1>1, <2>1, AliveHeights DEF Holds, Known
  <2>3. Unset \in ForStage(on[w])
    <3>1. Unset.rows = 1
      BY DEF Unset
    <3>2. on[w] \in Nat \ {0}
      BY <2>2, TopIsNat
    <3>3. 1 <= on[w]
      BY <3>2
    <3> QED BY <3>1, <3>3 DEF ForStage
  <2>4. Holds("lookup", on'[w], hand'[w])
    BY <1>1, <2>1, <2>2, <2>3 DEF Holds, ForStage
  <2>5. Holding'
    BY <1>1, <2>1, <2>4, HoldingStep
  <2>6. GoodState(s, queue, results, since, best, seen)'
    BY <2>1 DEF Known, Typed, GoodState
  <2> QED BY <2>1, <2>5, <2>6 DEF Known, Typed, Flags, flagVars
<1>4. ASSUME Expand(w) PROVE Typed'
  <2>1. /\ tpc[w] = "expand" /\ tpc' = [tpc EXCEPT ![w] = "test"]
        /\ hand' = [hand EXCEPT ![w] = NoPuz] /\ on' = [on EXCEPT ![w] = None]
        /\ UNCHANGED <<s, stages, results, prev, since, best, seen, saved, sig, main, flagVars>>
        /\ \E q \in {queue[on[w]], TRUE} : queue' = [queue EXCEPT ![on[w]] = q]
    BY <1>4 DEF Expand, envVars
  <2>2. Holds("test", on'[w], hand'[w])
    BY <1>1, <2>1 DEF Holds
  <2>3. Holding'
    BY <1>1, <2>1, <2>2, HoldingStep
  <2>4. on[w] \in Heights
    BY <1>1, <2>1, AliveHeights DEF Holds, Known
  <2>5. GoodState(s, queue, results, since, best, seen)'
    <3>1. queue' \in [Heights -> BOOLEAN]
      BY <2>1, <2>4 DEF Known, Typed, GoodState
    <3> QED BY <2>1, <3>1 DEF Known, Typed, GoodState
  <2> QED BY <2>1, <2>3, <2>5 DEF Known, Typed, Flags, flagVars
<1>5. ASSUME ExpandThrows(w) PROVE Typed'
  <2>1. /\ UNCHANGED <<stages, prev, liveVars, saved, tpc, on, hand, flagVars, sig>>
        /\ main' = "exited"
    BY <1>5 DEF ExpandThrows, searchVars, stageVars, threadVars, envVars, liveVars
  <2>2. Holding'
    BY <2>1 DEF Known, Typed, Holding, Holds, Alive
  <2> QED BY <2>1, <2>2 DEF Known, Typed, GoodState, Flags, flagVars, liveVars
<1> QED BY <1>2, <1>3, <1>4, <1>5, FetchPrevTyped, LookupTyped, CountTyped
        DEF ThreadStep, Work

\* Between two regions no thread has a stage or a puzzle.
LEMMA OutsideHolding ==
  ASSUME Known, Between, UNCHANGED <<on, hand>>,
         UNCHANGED tpc \/ tpc' = [t \in Threads |-> "test"]
  PROVE  Holding'
<1>1. \A w \in Workers : tpc[w] = "out" /\ tpc'[w] \in {"test", "out"}
  BY WorkersAreThreads DEF Known, Custody, QuietOutside
<1>2. \A w \in Workers : on[w] = None /\ hand[w] = NoPuz
  BY <1>1 DEF Known, Typed, Holding, Holds
<1>3. on' = [w \in Workers |-> on'[w]]
  BY DEF Known, Typed, Holding
<1> QED BY <1>1, <1>2, <1>3 DEF Holding, Holds

LEMMA SaveTyped == Known /\ Save => Typed'
<1> SUFFICES ASSUME Known, Save PROVE Typed'
  OBVIOUS
<1>1. /\ UNCHANGED <<prev, liveVars, stages, on, hand, tpc, flagVars, sig>>
      /\ main = "save" /\ main' = "exchange" /\ saved' \in {Snapshot, saved}
  BY DEF Save, searchVars, stageVars, threadVars, envVars, liveVars
<1>2. Holding'
  BY <1>1, OutsideHolding DEF Between
<1>3. /\ Snapshot.s = s /\ Snapshot.queue = queue /\ Snapshot.results = results
      /\ Snapshot.since = since /\ Snapshot.best = best /\ Snapshot.seen = seen
  BY DEF Snapshot
<1>4. GoodState(saved'.s, saved'.queue, saved'.results, saved'.since, saved'.best, saved'.seen)
      \/ saved' = NoSave
  BY <1>1, <1>3 DEF Known, Typed
<1>5. GoodState(s, queue, results, since, best, seen)'
  BY <1>1 DEF Known, Typed, GoodState, liveVars
<1> QED BY <1>1, <1>2, <1>4, <1>5 DEF Known, Typed, Flags, flagVars, GoodState

LEMMA TryRestartTyped == Known /\ TryRestart => Typed'
<1> SUFFICES ASSUME Known, TryRestart PROVE Typed'
  OBVIOUS
<1>1. /\ main = "restart" /\ main' = "result"
      /\ UNCHANGED <<s, stages, results, prev, seen, on, hand, tpc, flagVars, saved, sig>>
      /\ \/ UNCHANGED <<queue, since, best>>
         \/ /\ queue' = [queue EXCEPT ![Current] = FALSE]
            /\ since' = [since EXCEPT ![Current] = 0]
            /\ best' = [best EXCEPT ![Current] = "none"]
  BY DEF TryRestart, threadVars, envVars
<1>2. Holding'
  BY <1>1, OutsideHolding DEF Between
<1>3. /\ queue' \in [Heights -> BOOLEAN] /\ since' \in [Heights -> Nat]
      /\ best' \in [Heights -> {"none", "miss", "perfect"}]
  <2>1. /\ queue \in [Heights -> BOOLEAN] /\ since \in [Heights -> Nat]
        /\ best \in [Heights -> {"none", "miss", "perfect"}]
    BY DEF Known, Typed, GoodState
  <2>2. CASE UNCHANGED <<queue, since, best>>
    BY <2>1, <2>2
  <2>3. CASE /\ queue' = [queue EXCEPT ![Current] = FALSE]
             /\ since' = [since EXCEPT ![Current] = 0]
             /\ best' = [best EXCEPT ![Current] = "none"]
    <3>1. queue' \in [Heights -> BOOLEAN]
      BY <2>1, <2>3
    <3>2. since' \in [Heights -> Nat]
      BY <2>1, <2>3
    <3>3. best' \in [Heights -> {"none", "miss", "perfect"}]
      BY <2>1, <2>3
    <3> QED BY <3>1, <3>2, <3>3
  <2> QED BY <1>1, <2>2, <2>3
<1>4. GoodState(s, queue, results, since, best, seen)'
  BY <1>1, <1>3 DEF Known, Typed, GoodState
<1> QED BY <1>1, <1>2, <1>4 DEF Known, Typed, Flags, flagVars

LEMMA ShiftTyped == Known /\ Shift => Typed'
<1> SUFFICES ASSUME Known, Shift PROVE Typed'
  OBVIOUS
<1>1. /\ main = "result" /\ main' \in {"done", "region"} /\ s' = s + 1
      /\ UNCHANGED tpc \/ tpc' = [t \in Threads |-> "test"]
      /\ UNCHANGED <<since, best, seen, on, hand, ckpt, exit, exitRead, saved, sig>>
      /\ restart' \in {restart, FALSE}
      /\ queue' = [h \in Heights |-> h # stages[0] /\ queue[h]]
      /\ results' = [h \in Heights |-> IF h = stages[0] THEN <<>> ELSE results[h]]
      /\ prev' = [h \in Heights |-> IF h = s + 1 THEN s
                                    ELSE IF stages[0] # None /\ h = stages[1] THEN None
                                    ELSE prev[h]]
  BY DEF Shift, EnterRegion, ShiftedResults, ShiftedPrev, envVars
<1>2. Holding'
  BY <1>1, OutsideHolding DEF Between
<1>3. s \in Nat /\ s \in Heights
  BY TopIsNat DEF Known, WindowOK
<1>4. ResultList(<<>>, stages[0])
  BY DEF ResultList
<1>5. \A p \in seen : p.rows \in Nat
  BY TopIsNat DEF Known, Typed, GoodState, Puz
<1>6. GoodState(s, queue, results, since, best, seen)'
  <2>1. \A h \in Heights : ResultList(results'[h], h)
    BY <1>1, <1>4 DEF Known, Typed, GoodState
  <2>2. \A p \in seen : p.rows <= s + 1
    BY <1>3, <1>5 DEF Known, Typed, GoodState
  <2> QED BY <1>1, <2>1, <2>2 DEF Known, Typed, GoodState
<1>7. prev' \in [Heights -> Heights \cup {None}]
  BY <1>1, <1>3 DEF Known, Typed
<1> QED BY <1>1, <1>2, <1>6, <1>7 DEF Known, Typed, Flags

LEMMA RestoreTyped == Known /\ Restore => Typed'
<1> SUFFICES ASSUME Known, Restore PROVE Typed'
  OBVIOUS
<1> DEFINE st == saved.stages
           At(h) == CHOOSE i \in 0 .. Top : st[i] = h
<1>1. /\ saved # NoSave /\ saved' = saved /\ main' = "region"
      /\ s' = saved.s /\ queue' = saved.queue /\ results' = saved.results
      /\ since' = saved.since /\ best' = saved.best /\ seen' = saved.seen
      /\ tpc' = [t \in Threads |-> "test"]
      /\ on' = [w \in Workers |-> None] /\ hand' = [w \in Workers |-> NoPuz]
      /\ restart' = FALSE /\ ckpt' = FALSE /\ exit' = FALSE /\ exitRead' = FALSE
      /\ sig' = "none"
      /\ prev' = [h \in Heights |-> IF \E i \in 0 .. Top : st[i] = h
                                    THEN Below(st, At(h)) ELSE None]
  BY DEF Restore, EnterRegion
<1>2. Holding'
  BY <1>1, WorkersAreThreads DEF Holding, Holds
<1>3. GoodState(s, queue, results, since, best, seen)'
  BY <1>1 DEF Known, Typed, GoodState
<1>4. ASSUME NEW i \in 0 .. Top PROVE Below(st, i) \in Heights \cup {None}
  <2>1. saved.s \in Nat /\ Window(st, saved.s)
    BY <1>1 DEF Known, WindowOK
  <2>2. Below(st, i) = IF i = 0 THEN None ELSE st[i - 1]
    BY <2>1, BelowIsNext
  <2>3. i # 0 => i - 1 \in 0 .. Top
    BY TopIsNat
  <2> QED BY <2>1, <2>2, <2>3 DEF Window
<1>5. ASSUME NEW h \in Heights, \E i \in 0 .. Top : st[i] = h
      PROVE  Below(st, At(h)) \in Heights \cup {None}
  <2>1. At(h) \in 0 .. Top
    BY <1>5
  <2> QED BY <1>4, <2>1
<1>6. prev' \in [Heights -> Heights \cup {None}]
  <2> HIDE DEF At, st
  <2> QED BY <1>1, <1>5
<1> QED BY <1>1, <1>2, <1>3, <1>6 DEF Known, Typed, Flags, GoodState

LEMMA NextTyped == Known /\ [Next]_vars => Typed'
<1> SUFFICES ASSUME Known, [Next]_vars PROVE Typed'
  OBVIOUS
<1>1. CASE \E w \in Workers : ThreadStep(w)
  BY <1>1, ThreadTyped
<1>2. CASE Leave(Master)
  <2>1. /\ tpc' = [tpc EXCEPT ![Master] = "out"]
        /\ UNCHANGED <<stages, prev, liveVars, saved, flagVars, sig, main, on, hand>>
    BY <1>2 DEF Leave, searchVars, stageVars, envVars, liveVars
  <2>2. \A w \in Workers : tpc'[w] = tpc[w]
    BY <2>1, WorkersAreThreads DEF Known, Custody, ThreadsTyped
  <2>3. Holding'
    BY <2>1, <2>2 DEF Known, Typed, Holding, Holds, Alive
  <2> QED BY <2>1, <2>3 DEF Known, Typed, GoodState, Flags, flagVars, liveVars
<1>3. CASE Watch \/ Signal \/ EndSignal \/ Stopped \/ UNCHANGED vars \/ EndRegion
           \/ ReadFlags \/ ExchangeExit \/ ClearRequest
  <2>1. UNCHANGED <<stages, prev, liveVars, saved, tpc, on, hand>>
    BY <1>3
    DEF Watch, Signal, EndSignal, Stopped, vars, EndRegion, ReadFlags, ExchangeExit,
        ClearRequest, searchVars, stageVars, threadVars, liveVars
  <2>2. Holding'
    BY <2>1 DEF Known, Typed, Holding, Holds, Alive
  <2>3. Flags
    BY DEF Known, Typed
  <2>4. Flags'
    <3>1. CASE Watch
      <4>1. restart' = (since[Current] > RestartThresh) /\ (ckpt' = TRUE \/ ckpt' = ckpt)
            /\ UNCHANGED <<main, exit, exitRead, sig>>
        BY <3>1 DEF Watch
      <4>2. Top \in 0 .. Top /\ stages[Top] \in Heights
        BY TopIsNat DEF Known, WindowOK, Window
      <4>3. since[Current] \in Int /\ RestartThresh \in Int
        BY <4>2, SearchAssumption DEF Known, Typed, GoodState, Current
      <4>4. (since[Current] > RestartThresh) \in BOOLEAN
        BY <4>3
      <4> QED BY <2>3, <4>1, <4>4 DEF Flags
    <3>2. CASE Signal \/ EndSignal
      BY <2>3, <3>2 DEF Signal, EndSignal, Flags
    <3>3. CASE Stopped \/ UNCHANGED vars \/ EndRegion
      BY <2>3, <3>3 DEF Stopped, vars, EndRegion, flagVars, envVars, Flags
    <3>4. CASE ReadFlags
      <4>1. exitRead' = (ckpt /\ exit) /\ main' \in {"save", "restart"}
            /\ UNCHANGED <<restart, ckpt, exit, sig>>
        BY <3>4 DEF ReadFlags, envVars
      <4> QED BY <2>3, <4>1 DEF Flags
    <3>5. CASE ExchangeExit
      <4>1. exitRead' = (exit \/ exitRead) /\ exit' = FALSE /\ main' = "clear"
            /\ UNCHANGED <<restart, ckpt, sig>>
        BY <3>5 DEF ExchangeExit, envVars
      <4> QED BY <2>3, <4>1 DEF Flags
    <3>6. CASE ClearRequest
      BY <2>3, <3>6 DEF ClearRequest, envVars, Flags
    <3> QED BY <1>3, <3>1, <3>2, <3>3, <3>4, <3>5, <3>6
  <2> QED BY <2>1, <2>2, <2>4 DEF Known, Typed, GoodState, liveVars
<1>4. CASE Save
  BY <1>4, SaveTyped
<1>5. CASE TryRestart
  BY <1>5, TryRestartTyped
<1>6. CASE NoResult
  <2>1. /\ main = "result" /\ main' = "region" /\ tpc' = [t \in Threads |-> "test"]
        /\ restart' = FALSE
        /\ UNCHANGED <<prev, liveVars, saved, on, hand, ckpt, exit, exitRead, sig>>
    BY <1>6 DEF NoResult, EnterRegion, searchVars, stageVars, envVars, liveVars
  <2>2. Holding'
    BY <2>1, OutsideHolding DEF Between
  <2> QED BY <2>1, <2>2 DEF Known, Typed, GoodState, liveVars, Flags
<1>7. CASE Shift
  BY <1>7, ShiftTyped
<1>8. CASE Crash \/ Resume
  BY <1>8, RestoreTyped DEF Crash, Resume
<1> QED BY <1>1, <1>2, <1>3, <1>4, <1>5, <1>6, <1>7, <1>8 DEF Next, MainStep

\* All three invariants together.
THEOREM KnownInvariant == Spec => []Known
<1>1. Init => Known
  BY InitCustody, InitWindow, InitTyped DEF Known
<1>2. Known /\ [Next]_vars => Known'
  BY NextCustody, NextWindow, NextTyped DEF Known
<1> QED BY <1>1, <1>2, PTL DEF Spec

\* Every variable has its type, also after a resumption: what a thread has in hand is
\* as high as the stage it works on, or nobody filled it in, or it grew from such a
\* puzzle; and so is each result, that has not grown.
THEOREM AlwaysTyped == Spec => []TypeOK
<1>1. Known => TypeOK
  <2> SUFFICES ASSUME Known PROVE TypeOK
    OBVIOUS
  <2>1. s \in Heights /\ stages \in [0 .. Top -> Heights \cup {None}]
    BY DEF Known, WindowOK, Window
  <2>2. ASSUME NEW h \in Heights PROVE \A p \in ToSet(results[h]) : p \in Own(h) \cup {Unset}
    <3>1. results[h] \in Seq(Own(h) \cup {Unset})
      BY DEF Known, Typed, GoodState, ResultList, ResultOf
    <3> QED BY <3>1 DEF ToSet
  <2>3. \A h \in Alive : NoPuz \notin ForStage(h)
    BY AliveHeights, ForStageIsPuz DEF Known
  <2>4. ASSUME NEW w \in Workers
        PROVE  /\ on[w] \in Alive \cup {None}
               /\ tpc[w] \in {"lookup", "count", "expand"} <=> hand[w] # NoPuz
               /\ hand[w] # NoPuz => hand[w] \in ForStage(on[w])
    <3>1. tpc[w] \in Points /\ Holds(tpc[w], on[w], hand[w])
      BY WorkersAreThreads DEF Known, Custody, ThreadsTyped, Typed, Holding
    <3> QED BY <2>3, <3>1 DEF Holds, Points
  <2>5. {restart, ckpt, exit, exitRead} \subseteq BOOLEAN
    BY DEF Known, Typed, Flags
  <2> QED BY <2>1, <2>2, <2>4, <2>5
          DEF Known, Typed, GoodState, Flags, Custody, ThreadsTyped, SeenIsHeld, Points, TypeOK
<1> QED BY <1>1, KnownInvariant, PTL

-----------------------------------------------------------------------------
(* Solutions.                                                              *)

\* Where a solution is between two stages: a result of its own, taken and known
\* to the cache one row higher, or on its way into one or the other.
Settled(p) == p \in ToSet(results[p.rows]) \/ (p.rows < s /\ Grow(p) \in seen)
InHand(p) ==
  \/ \E w \in Workers : hand[w] = p /\ tpc[w] = "count"
  \/ \E w \in Workers : hand[w] = Grow(p) /\ tpc[w] = "lookup"

Solutions == {p \in seen \cap Perfect : p.rows \in Alive}

AllKept == \A p \in Solutions : Settled(p) \/ InHand(p)

\* The same of a checkpoint, where nothing is in hand.
SavedKept ==
  saved # NoSave =>
    \A p \in saved.seen \cap Perfect :
      p.rows \in {saved.stages[i] : i \in 0 .. Top} \ {None} =>
        p \in ToSet(saved.results[p.rows]) \/ (p.rows < saved.s /\ Grow(p) \in saved.seen)

Kept == (main # "done" => AllKept) /\ SavedKept

LEMMA InitKept == Init => Kept
BY DEF Init, Kept, AllKept, Solutions, SavedKept

LEMMA SolutionTyped ==
  ASSUME Known, NEW p \in seen
  PROVE  p \in Puz /\ p.rows \in Heights /\ p.rows \in Nat
         /\ Grow(p).rows = p.rows + 1
BY TopIsNat DEF Known, Typed, GoodState, Puz, Grow

\* A thread's step moves only what the thread has in hand.
LEMMA CarryOver ==
  ASSUME Known, NEW w \in Workers, NEW c, NEW p, UNCHANGED s, seen \subseteq seen',
         tpc' = [tpc EXCEPT ![w] = c],
         \A v \in Workers : v # w => hand'[v] = hand[v],
         Settled(p) \/ InHand(p),
         p \in ToSet(results[p.rows]) => (Settled(p) \/ InHand(p))',
         tpc[w] = "count" /\ hand[w] = p => (Settled(p) \/ InHand(p))',
         tpc[w] = "lookup" /\ hand[w] = Grow(p) => (Settled(p) \/ InHand(p))'
  PROVE  (Settled(p) \/ InHand(p))'
<1>1. CASE p.rows < s /\ Grow(p) \in seen
  BY <1>1 DEF Settled
<1>2. \A v \in Workers : v # w => tpc'[v] = tpc[v]
  BY WorkersAreThreads DEF Known, Custody, ThreadsTyped
<1>3. CASE InHand(p)
  BY <1>2, <1>3 DEF InHand
<1> QED BY <1>1, <1>3 DEF Settled

\* A thread that neither looks up nor counts leaves the results where they are.
LEMMA BystanderKept ==
  ASSUME Known, Kept, NEW w \in Workers, NEW c, main # "done",
         UNCHANGED <<s, stages, results, seen, saved>>,
         tpc[w] \notin {"count", "lookup"},
         tpc' = [tpc EXCEPT ![w] = c],
         \A v \in Workers : v # w => hand'[v] = hand[v]
  PROVE  Kept'
<1>1. Solutions' = Solutions
  BY DEF Solutions, Alive
<1>2. ASSUME NEW p \in Solutions PROVE (Settled(p) \/ InHand(p))'
  <2>1. p \in ToSet(results[p.rows]) => Settled(p)'
    BY DEF Settled
  <2>2. Settled(p) \/ InHand(p)
    BY DEF Kept, AllKept
  <2> QED BY <2>1, <2>2, CarryOver
<1> QED BY <1>1, <1>2 DEF Kept, AllKept, SavedKept

LEMMA FetchPrevKept ==
  ASSUME Known, Kept, NEW w \in Workers, FetchPrev(w), main = "region"
  PROVE  Kept'
<1> DEFINE l == prev[on[w]]
<1>1. /\ tpc[w] = "fetch" /\ tpc' = [tpc EXCEPT ![w] = "lookup"]
      /\ l # None /\ results[l] # <<>>
      /\ hand' = [hand EXCEPT ![w] = Grow(Last(results[l]))]
      /\ results' = [results EXCEPT ![l] = Front(results[l])]
      /\ UNCHANGED <<s, stages, seen, saved, main>>
  BY DEF FetchPrev
<1>2. /\ hand = [v \in Workers |-> hand[v]] /\ tpc'[w] = "lookup"
      /\ hand'[w] = Grow(Last(results[l]))
      /\ \A v \in Workers : v # w => hand'[v] = hand[v]
  BY <1>1, WorkersAreThreads DEF Known, Custody, ThreadsTyped
<1>3. l \in Heights
  BY <1>1, PrevIsLower, AliveHeights DEF Known, Typed, Holding, Holds
<1>4. ResultList(results[l], l)
  BY <1>3 DEF Known, Typed, GoodState
<1>5. ToSet(results[l]) \ {Last(results[l])} \subseteq ToSet(Front(results[l]))
  BY <1>1, <1>4, FrontOfList
<1>6. ASSUME NEW p \in Solutions PROVE (Settled(p) \/ InHand(p))'
  <2>1. p.rows \in Heights
    BY SolutionTyped DEF Solutions
  <2>2. ASSUME p \in ToSet(results[p.rows]) PROVE (Settled(p) \/ InHand(p))'
    <3>1. CASE p.rows # l
      <4>1. results'[p.rows] = results[p.rows]
        BY <1>1, <2>1, <3>1 DEF Known, Typed, GoodState
      <4> QED BY <2>2, <4>1 DEF Settled
    <3>2. CASE p.rows = l /\ p = Last(results[l])
      BY <1>2, <3>2 DEF InHand
    <3>3. CASE p.rows = l /\ p # Last(results[l])
      <4>1. results'[l] = Front(results[l])
        BY <1>1, <1>3 DEF Known, Typed, GoodState
      <4> QED BY <1>5, <2>2, <3>3, <4>1 DEF Settled
    <3> QED BY <3>1, <3>2, <3>3
  <2>3. Settled(p) \/ InHand(p)
    BY DEF Kept, AllKept
  <2> HIDE DEF l
  <2> QED BY <1>1, <1>2, <2>2, <2>3, CarryOver
<1>7. Solutions' = Solutions
  BY <1>1 DEF Solutions, Alive
<1> QED BY <1>1, <1>6, <1>7 DEF Kept, AllKept, SavedKept

LEMMA LookupKept ==
  ASSUME Known, Kept, NEW w \in Workers, Lookup(w), main = "region"
  PROVE  Kept'
<1>1. /\ tpc[w] = "lookup" /\ seen \subseteq seen' /\ hand[w] \in seen'
      /\ seen' \subseteq seen \cup {hand[w]}
      /\ UNCHANGED <<s, stages, results, saved, main>>
  BY DEF Lookup, stageVars
<1>2. PICK c \in {"test", "count"} :
        /\ tpc' = [tpc EXCEPT ![w] = c]
        /\ \A v \in Workers : v # w => hand'[v] = hand[v]
        /\ hand[w] \in seen \/ (c = "count" /\ hand'[w] = hand[w])
  BY DEF Lookup, Known, Custody, ThreadsTyped
<1>3. hand[w].rows <= s /\ hand[w].rows \in Nat /\ s \in Nat
  <2>1. on[w] \in Alive /\ hand[w] \in ForStage(on[w])
    BY <1>1 DEF Known, Typed, Holding, Holds
  <2> QED BY <2>1, AliveHeights, ForStageIsPuz, TopIsNat DEF Known, WindowOK
<1>4. ASSUME NEW p \in Solutions PROVE (Settled(p) \/ InHand(p))'
  <2>1. p.rows \in Nat /\ Grow(p).rows = p.rows + 1
    BY SolutionTyped DEF Solutions
  <2>2. ASSUME hand[w] = Grow(p) PROVE Settled(p)'
    <3>1. p.rows < s
      BY <1>3, <2>1, <2>2
    <3> QED BY <1>1, <2>2, <3>1 DEF Settled
  <2>3. p \in ToSet(results[p.rows]) => Settled(p)'
    BY <1>1 DEF Settled
  <2>4. Settled(p) \/ InHand(p)
    BY DEF Kept, AllKept
  <2> QED BY <1>1, <1>2, <2>2, <2>3, <2>4, CarryOver
<1>5. ASSUME NEW p \in Solutions', p \notin Solutions PROVE InHand(p)'
  <2>1. p = hand[w] /\ p \notin seen
    BY <1>1, <1>5 DEF Solutions, Alive
  <2>2. tpc'[w] = "count" /\ hand'[w] = p
    BY <1>2, <2>1, WorkersAreThreads DEF Known, Custody, ThreadsTyped
  <2> QED BY <2>2 DEF InHand
<1> QED BY <1>1, <1>4, <1>5 DEF Kept, AllKept, SavedKept

LEMMA CountKept ==
  ASSUME Known, Kept, NEW w \in Workers, Count(w), main = "region"
  PROVE  Kept'
<1> DEFINE h == on[w]
           more == [results EXCEPT ![h] = Append(results[h], hand[w])]
<1>1. /\ tpc[w] = "count" /\ tpc' = [tpc EXCEPT ![w] = "expand"]
      /\ UNCHANGED <<s, stages, seen, saved, main, hand>>
      /\ \E gap \in Gaps(hand[w]) : results' = IF gap = "perfect" THEN more ELSE results
  BY DEF Count
<1>2. hand[w] \in ForStage(h) /\ h \in Heights
  BY <1>1, AliveHeights DEF Known, Typed, Holding, Holds
<1>3. hand[w] \in Perfect => hand[w] \in ResultOf(h) /\ hand[w].rows = h /\ results' = more
  BY <1>1, <1>2, PerfectIsOwn DEF Gaps, ResultOf
<1>4. results' = more => hand[w] \in ResultOf(h) \/ results' = results
  BY <1>1, <1>2, PerfectIsOwn DEF Gaps, ResultOf
<1>5. hand[w] \in ResultOf(h) => ToSet(Append(results[h], hand[w])) = ToSet(results[h]) \cup {hand[w]}
  BY <1>2, AppendToList DEF Known, Typed, GoodState
<1>6. /\ more[h] = Append(results[h], hand[w])
      /\ \A k \in Heights : k # h => more[k] = results[k]
  BY <1>2 DEF Known, Typed, GoodState
<1>7. ASSUME NEW p \in Solutions PROVE (Settled(p) \/ InHand(p))'
  <2>1. p.rows \in Heights /\ p \in Perfect
    BY SolutionTyped DEF Solutions
  <2>2. ASSUME p \in ToSet(results[p.rows]) PROVE Settled(p)'
    <3>1. p \in ToSet(results'[p.rows])
      <4> HIDE DEF more, h
      <4> QED BY <1>1, <1>4, <1>5, <1>6, <2>1, <2>2
    <3> QED BY <3>1 DEF Settled
  <2>3. ASSUME hand[w] = p PROVE Settled(p)'
    <3>1. p.rows = h /\ results' = more /\ p \in ToSet(more[h])
      <4> HIDE DEF more, h
      <4> QED BY <1>3, <1>5, <1>6, <2>1, <2>3
    <3> QED BY <3>1 DEF Settled
  <2>4. Settled(p) \/ InHand(p)
    BY DEF Kept, AllKept
  <2> QED BY <1>1, <2>2, <2>3, <2>4, CarryOver
<1>8. Solutions' = Solutions
  BY <1>1 DEF Solutions, Alive
<1> QED BY <1>1, <1>7, <1>8 DEF Kept, AllKept, SavedKept

LEMMA ThreadKept ==
  ASSUME Known, Kept, NEW w \in Workers, ThreadStep(w)
  PROVE  Kept'
<1>0. main = "region"
  BY DEF ThreadStep
<1>1. ASSUME PickStage(w) \/ FetchOwn(w) \/ FetchNothing(w) \/ Expand(w) \/ Leave(w)
      PROVE  Kept'
  <2>1. PICK c \in Points :
          /\ tpc[w] \in {"test", "fetch", "expand"}
          /\ tpc' = [tpc EXCEPT ![w] = c]
          /\ UNCHANGED <<s, stages, results, seen, saved>>
    BY <1>1 DEF PickStage, FetchOwn, FetchNothing, Expand, Leave, Points, searchVars, stageVars
  <2>2. \A v \in Workers : v # w => hand'[v] = hand[v]
    BY <1>1 DEF PickStage, FetchOwn, FetchNothing, Expand, Leave, Known, Custody, ThreadsTyped
  <2> QED BY <1>0, <2>1, <2>2, BystanderKept
<1>2. ASSUME ExpandThrows(w) PROVE Kept'
  BY <1>0, <1>2 DEF ExpandThrows, searchVars, stageVars, threadVars, Kept, AllKept, SavedKept,
                    Solutions, Alive, Settled, InHand
<1> QED BY <1>0, <1>1, <1>2, FetchPrevKept, LookupKept, CountKept DEF ThreadStep, Work

\* Between two regions nothing is in hand.
LEMMA OutsideSettled ==
  ASSUME Known, Kept, Between, main # "done", NEW p \in Solutions
  PROVE  Settled(p)
<1>1. \A w \in Workers : tpc[w] = "out"
  BY WorkersAreThreads DEF Known, Custody, QuietOutside
<1> QED BY <1>1 DEF Kept, AllKept, InHand

LEMMA SaveKept == Known /\ Kept /\ Save => Kept'
<1> SUFFICES ASSUME Known, Kept, Save PROVE Kept'
  OBVIOUS
<1>1. /\ UNCHANGED <<s, stages, results, seen, tpc, hand>>
      /\ main = "save" /\ main' = "exchange" /\ saved' \in {Snapshot, saved}
  BY DEF Save, searchVars, stageVars, threadVars
<1>2. AllKept'
  BY <1>1 DEF Kept, AllKept, Solutions, Alive, Settled, InHand
<1>3. /\ Snapshot.s = s /\ Snapshot.stages = stages
      /\ Snapshot.results = results /\ Snapshot.seen = seen
  BY DEF Snapshot
<1>4. SavedKept'
  <2>1. CASE saved' = saved
    BY <2>1 DEF Kept, SavedKept
  <2>2. CASE saved' = Snapshot
    BY <1>1, <1>3, <2>2, OutsideSettled DEF Between, SavedKept, Solutions, Alive, Settled
  <2> QED BY <1>1, <2>1, <2>2
<1> QED BY <1>2, <1>4 DEF Kept

LEMMA ShiftKept == Known /\ Kept /\ Shift => Kept'
<1> SUFFICES ASSUME Known, Kept, Shift PROVE Kept'
  OBVIOUS
<1>1. /\ main = "result" /\ s' = s + 1 /\ UNCHANGED <<seen, saved>>
      /\ stages' = [i \in 0 .. Top |-> IF i = Top THEN s + 1 ELSE stages[i + 1]]
      /\ results' = [h \in Heights |-> IF h = stages[0] THEN <<>> ELSE results[h]]
  BY DEF Shift, Shifted, ShiftedResults
<1>2. s \in Nat
  BY TopIsNat DEF Known, WindowOK
<1>3. ASSUME NEW p \in Solutions' PROVE Settled(p)'
  <2>1. p \in seen /\ p \in Perfect /\ p.rows \in Heights /\ p.rows \in Nat /\ p.rows <= s
    BY <1>1, <1>3, SolutionTyped DEF Solutions, Known, Typed, GoodState
  <2>2. PICK i \in 0 .. Top : p.rows = stages'[i] /\ p.rows # None
    BY <1>3 DEF Solutions, Alive
  <2>3. i # Top /\ i + 1 \in 0 .. Top /\ 0 \in 0 .. Top /\ p.rows = stages[i + 1]
    BY <1>1, <1>2, <2>1, <2>2, TopIsNat
  <2>4. p \in Solutions
    BY <2>1, <2>2, <2>3 DEF Solutions, Alive
  <2>5. p.rows # stages[0]
    <3>1. stages[i + 1] # None
      BY <2>2, <2>3
    <3>2. i + 1 # 0
      BY <2>3
    <3> QED BY <1>2, <2>3, <3>1, <3>2, HeightsDiffer DEF Known, WindowOK
  <2>6. results'[p.rows] = results[p.rows]
    BY <1>1, <2>1, <2>5
  <2>7. p.rows < s' \/ ~(p.rows < s)
    BY <1>1, <1>2, <2>1
  <2>8. Settled(p)
    BY <1>1, <2>4, OutsideSettled DEF Between
  <2> QED BY <1>1, <2>6, <2>7, <2>8 DEF Settled
<1> QED BY <1>1, <1>3 DEF Kept, AllKept, SavedKept

LEMMA RestoreKept == Known /\ Kept /\ Restore => Kept'
<1> SUFFICES ASSUME Known, Kept, Restore PROVE Kept'
  OBVIOUS
<1>1. /\ saved # NoSave /\ saved' = saved
      /\ s' = saved.s /\ stages' = saved.stages
      /\ results' = saved.results /\ seen' = saved.seen
  BY DEF Restore
<1> QED BY <1>1 DEF Kept, AllKept, SavedKept, Solutions, Alive, Settled

LEMMA NextKept == Known /\ Kept /\ [Next]_vars => Kept'
<1> SUFFICES ASSUME Known, Kept, [Next]_vars PROVE Kept'
  OBVIOUS
<1>1. CASE \E w \in Workers : ThreadStep(w)
  BY <1>1, ThreadKept
<1>2. CASE Leave(Master)
  <2>1. /\ tpc' = [tpc EXCEPT ![Master] = "out"]
        /\ UNCHANGED <<s, stages, results, seen, saved, main, hand>>
    BY <1>2 DEF Leave, searchVars, stageVars
  <2>2. \A w \in Workers : tpc'[w] = tpc[w]
    BY <2>1, WorkersAreThreads DEF Known, Custody, ThreadsTyped
  <2> QED BY <2>1, <2>2 DEF Kept, AllKept, SavedKept, Solutions, Alive, Settled, InHand
<1>3. CASE Watch \/ Signal \/ EndSignal \/ Stopped \/ UNCHANGED vars \/ EndRegion
           \/ ReadFlags \/ ExchangeExit \/ ClearRequest \/ TryRestart
  <2>1. UNCHANGED <<s, stages, results, seen, saved, tpc, hand>>
        /\ (main' # "done" => main # "done")
    BY <1>3
    DEF Watch, Signal, EndSignal, Stopped, vars, EndRegion, ReadFlags, ExchangeExit,
        ClearRequest, TryRestart, searchVars, stageVars, threadVars
  <2> QED BY <2>1 DEF Kept, AllKept, SavedKept, Solutions, Alive, Settled, InHand
<1>4. CASE Save
  BY <1>4, SaveKept
<1>5. CASE NoResult
  <2>1. main = "result" /\ UNCHANGED <<s, stages, results, seen, saved>>
    BY <1>5 DEF NoResult, searchVars, stageVars
  <2>2. ASSUME NEW p \in Solutions' PROVE Settled(p)'
    BY <2>1, <2>2, OutsideSettled DEF Between, Solutions, Alive, Settled
  <2> QED BY <2>1, <2>2 DEF Kept, AllKept, SavedKept
<1>6. CASE Shift
  BY <1>6, ShiftKept
<1>7. CASE Crash \/ Resume
  BY <1>7, RestoreKept DEF Crash, Resume
<1> QED BY <1>1, <1>2, <1>3, <1>4, <1>5, <1>6, <1>7 DEF Next, MainStep

\* A solution found stays a result of its stage or has been taken by the next,
\* through all races of the threads, shifts, checkpoints and resumptions.
THEOREM SolutionsStay == Spec => []SolutionsKept
<1>1. Init => Kept
  BY InitKept
<1>2. Known /\ Kept /\ [Next]_vars => Kept'
  BY NextKept
<1>3. Kept => SolutionsKept
  BY DEF Kept, AllKept, Solutions, Settled, InHand, SolutionsKept
<1> QED BY <1>1, <1>2, <1>3, KnownInvariant, PTL DEF Spec

=============================================================================
