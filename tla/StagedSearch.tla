---------------------------- MODULE StagedSearch ----------------------------
(***************************************************************************)
(* The staged search of search_ils_staged_enhance: a window of stages, one *)
(* per number of rows, OpenMP threads that work on them (ILSStage::doWork) *)
(* inside a parallel region, the main thread that shifts the window,       *)
(* restarts a stage and writes checkpoints between two regions, the signal *)
(* handler, and the resumption of a search from its last checkpoint.       *)
(*                                                                         *)
(* A puzzle is its number of rows and a name that stands for its class     *)
(* under isomorphism; one more row keeps the name.  A puzzle fits          *)
(* perfectly or not, and what fits perfectly passes checkPuz.  Of the work *)
(* queue of a stage only matters whether it is empty; otherwise any puzzle *)
(* of the stage's height may be its next, or one that nobody filled in.    *)
(*                                                                         *)
(* Elements nobody filled in are added by mass_enqueue after ties (see     *)
(* PuzQueue, which has the queues in detail).  Their puzzle is the 1 by 1  *)
(* puzzle of the default constructor, here named Nameless; their gap is    *)
(* whatever the stack held, of which those that elements have are taken.   *)
(* It is another puzzle than those of the search, which have two columns   *)
(* or more.                                                                *)
(*                                                                         *)
(* Stages are named by their number of rows.                               *)
(*                                                                         *)
(* Definitions introduced by "Faulty:" are variants with a plausible bug.  *)
(* No specification uses them; each shows that some property can fail.     *)
(***************************************************************************)
EXTENDS Integers, Sequences, SequencesExt

CONSTANTS
  Workers,        \* OpenMP threads but the master, which only watches
  NumStages,      \* NUM_STAGES
  Target,         \* s_target; the first puzzle has one row
  Names,          \* puzzles of one height that are told apart
  Nameless,       \* the name of the puzzle nobody filled in
  Perfect,        \* those with a perfect fit
  MaxResults,     \* MAX_RESULTS
  RestartThresh,  \* RESTART_THRESH: puzzles without progress
  MaxEvents       \* bound: automatic checkpoints and SIGINTs

Heights == 1 .. (Target + 1)
Puz     == [rows : Heights, name : Names \cup {Nameless}]
Own(h)  == {p \in Puz : p.rows = h /\ p.name # Nameless}    \* puzzles of stage h
None    == 0
Top     == NumStages - 1                     \* g_search.curr
Master  == "master"
Threads == Workers \cup {Master}

ASSUME SearchAssumption ==
  /\ Master \notin Workers
  /\ NumStages \in Nat \ {0, 1}
  /\ Target \in Nat \ {0}
  /\ Nameless \notin Names
  /\ Perfect \subseteq [rows : Heights, name : Names]
  /\ {MaxResults, RestartThresh, MaxEvents} \subseteq Nat

VARIABLES
  \* g_search
  s, stages, main,
  \* the stages: work queue not empty, results, predecessor, stats.since_progress,
  \* stats.best_gap ("none": above zero)
  queue, results, prev, since, best,
  \* canonization.cpp: the isomorph cache; history: puzzles expanded
  seen, expanded,
  \* the threads: control point, stage worked on, puzzle in hand
  tpc, on, hand,
  \* flags: restart of this region, should_checkpoint, should_exit_after_checkpoint,
  \* what the main thread read of the latter
  restart, ckpt, exit, exitRead,
  \* the last complete checkpoint file
  saved,
  \* the signal handler, and a counter for the bound
  sig, events

stageVars == <<queue, results, prev, since, best>>
searchVars == <<s, stages, stageVars, seen, expanded>>
threadVars == <<tpc, on, hand>>
flagVars == <<restart, ckpt, exit, exitRead>>
envVars  == <<sig, events>>
vars == <<searchVars, main, threadVars, flagVars, saved, envVars>>

NoPuz   == [rows |-> None, name |-> None]
Unset   == [rows |-> 1, name |-> Nameless]
NoSave  == [s |-> None]
Current == stages[Top]
Alive   == {stages[i] : i \in 0 .. Top} \ {None}

\* Faulty: a result of the previous stage is used as it is.
GrowNot(p) == p

Grow(p) == [p EXCEPT !.rows = @ + 1]         \* resizePuz(1)

\* What Search::serialize writes.
Snapshot ==
  [s |-> s, stages |-> stages, queue |-> queue, results |-> results,
   since |-> since, best |-> best, seen |-> seen, expanded |-> expanded]

Init ==
  /\ s = 1
  /\ stages = [i \in 0 .. Top |-> IF i = Top THEN 1 ELSE None]
  /\ main = "region"
  /\ queue = [h \in Heights |-> h = 1]
  /\ results = [h \in Heights |-> <<>>]
  /\ prev = [h \in Heights |-> None]
  /\ since = [h \in Heights |-> 0]
  /\ best = [h \in Heights |-> "none"]
  /\ seen = {} /\ expanded = {}
  /\ tpc = [t \in Threads |-> "test"]
  /\ on = [w \in Workers |-> None]
  /\ hand = [w \in Workers |-> NoPuz]
  /\ restart = FALSE /\ ckpt = FALSE /\ exit = FALSE /\ exitRead = FALSE
  /\ saved = NoSave
  /\ sig = "none" /\ events = 0

-----------------------------------------------------------------------------
(* Threads in the parallel region.                                         *)

Running == main \notin {"done", "exited"}

\* Faulty: requests for a checkpoint are left to the main thread.
ContinueUnasked == results[Current] = <<>> /\ ~restart

\* The loop condition, which every thread evaluates for itself.
Continue == results[Current] = <<>> /\ ~restart /\ ~ckpt

\* One of the counted events happens.
Event == events < MaxEvents /\ events' = events + 1

\* The lowest stage of the window.
Lowest(i)  == i = 0 \/ stages[i - 1] = None

\* From the current stage downward, each stage is taken with some probability,
\* the lowest always; a stage below the current one not if it has many results.
Workable ==
  {i \in 0 .. Top : /\ stages[i] # None
                    /\ i = Top \/ Lowest(i) \/ Len(results[stages[i]]) < MaxResults}

Leave(t) ==
  /\ main = "region" /\ tpc[t] = "test"
  /\ ~Continue
  /\ tpc' = [tpc EXCEPT ![t] = "out"]
  /\ UNCHANGED <<searchVars, main, on, hand, flagVars, saved, envVars>>

PickStage(w) ==
  /\ main = "region" /\ tpc[w] = "test"
  /\ Continue
  /\ \E i \in Workable : on' = [on EXCEPT ![w] = stages[i]]
  /\ tpc' = [tpc EXCEPT ![w] = "fetch"]
  /\ UNCHANGED <<searchVars, main, hand, flagVars, saved, envVars>>

\* critical(queue), critical(results): the newest result of the previous stage.
FetchPrev(w) ==
  LET h == on[w] IN
  /\ tpc[w] = "fetch"
  /\ prev[h] # None /\ results[prev[h]] # <<>>
  /\ hand' = [hand EXCEPT ![w] = Grow(Last(results[prev[h]]))]
  /\ results' = [results EXCEPT ![prev[h]] = Front(@)]
  /\ tpc' = [tpc EXCEPT ![w] = "lookup"]
  /\ UNCHANGED <<s, stages, queue, prev, since, best, seen, expanded,
                 main, on, flagVars, saved, envVars>>

\* critical(queue): an element of the stage's own queue, perhaps not its last.  That
\* has what the expansions of its puzzles left, all of the stage's height, and, if
\* there were ties among them, elements nobody filled in.
FetchOwn(w) ==
  LET h == on[w] IN
  /\ tpc[w] = "fetch"
  /\ queue[h]
  /\ \E p \in Own(h) \cup (IF Own(h) \cap expanded # {} THEN {Unset} ELSE {}) :
       hand' = [hand EXCEPT ![w] = p]
  /\ \E more \in BOOLEAN : queue' = [queue EXCEPT ![h] = more]
  /\ tpc' = [tpc EXCEPT ![w] = "lookup"]
  /\ UNCHANGED <<s, stages, results, prev, since, best, seen, expanded,
                 main, on, flagVars, saved, envVars>>

FetchNothing(w) ==
  LET h == on[w] IN
  /\ tpc[w] = "fetch"
  /\ ~queue[h]
  /\ prev[h] # None => results[prev[h]] = <<>>
  /\ tpc' = [tpc EXCEPT ![w] = "test"]
  /\ on' = [on EXCEPT ![w] = None]
  /\ UNCHANGED <<searchVars, main, hand, flagVars, saved, envVars>>

\* Faulty: the cache takes no more puzzles once it holds one.
LookupCapped(w) ==
  /\ tpc[w] = "lookup"
  /\ IF hand[w] \in seen
     THEN /\ tpc' = [tpc EXCEPT ![w] = "test"]
          /\ hand' = [hand EXCEPT ![w] = NoPuz]
          /\ on' = [on EXCEPT ![w] = None]
          /\ UNCHANGED seen
     ELSE /\ tpc' = [tpc EXCEPT ![w] = "count"]
          /\ seen' = IF seen = {} THEN {hand[w]} ELSE seen
          /\ UNCHANGED <<hand, on>>
  /\ UNCHANGED <<s, stages, stageVars, expanded, main, flagVars, saved, envVars>>

\* critical(isomorph): have_seen_isomorph looks up and remembers in one step.
Lookup(w) ==
  /\ tpc[w] = "lookup"
  /\ IF hand[w] \in seen
     THEN /\ tpc' = [tpc EXCEPT ![w] = "test"]
          /\ hand' = [hand EXCEPT ![w] = NoPuz]
          /\ on' = [on EXCEPT ![w] = None]
          /\ UNCHANGED seen
     ELSE /\ tpc' = [tpc EXCEPT ![w] = "count"]
          /\ seen' = seen \cup {hand[w]}
          /\ UNCHANGED <<hand, on>>
  /\ UNCHANGED <<s, stages, stageVars, expanded, main, flagVars, saved, envVars>>

\* Whether a puzzle may improve best_gap.  A restart sets that to 1, which any
\* puzzle improves; one miss may or may not be nearer than another.
Improves(h, gap) ==
  CASE best[h] = "none"    -> {TRUE}
    [] best[h] = "perfect" -> {FALSE}
    [] best[h] = "miss"    -> IF gap = "perfect" THEN {TRUE} ELSE BOOLEAN

\* ceil(gap); no two rows of one column are a USP, so what grew from Unset misses.
Gaps(p) ==
  CASE p = Unset     -> {"miss", "perfect"}
    [] p \in Perfect -> {"perfect"}
    [] OTHER         -> {"miss"}

\* critical(stats), critical(results): a perfect fit is a result.  Beyond the
\* threshold since_progress need not be counted.
Count(w) ==
  LET h == on[w] IN
  /\ tpc[w] = "count"
  /\ \E gap \in Gaps(hand[w]) :
       /\ \E progress \in Improves(h, gap) :
            /\ best' = [best EXCEPT ![h] = IF progress THEN gap ELSE @]
            /\ since' = [since EXCEPT ![h] = IF progress THEN 1
                                            ELSE IF @ > RestartThresh THEN @ ELSE @ + 1]
       /\ results' = IF gap = "perfect" THEN [results EXCEPT ![h] = Append(@, hand[w])]
                     ELSE results
  /\ tpc' = [tpc EXCEPT ![w] = "expand"]
  /\ UNCHANGED <<s, stages, queue, prev, seen, expanded, main, on, hand,
                 flagVars, saved, envVars>>

\* expand_frontier and, in critical(queue), update_queue; the frontier may be empty.
\* The neighbours of a 1 by 1 puzzle are 1 by 1 puzzles, all isomorphic.
Expand(w) ==
  LET h == on[w] IN
  /\ tpc[w] = "expand" /\ hand[w] # Grow(Unset)
  /\ \E q \in {queue[h], TRUE} : queue' = [queue EXCEPT ![h] = q]
  /\ expanded' = expanded \cup {hand[w]}
  /\ tpc' = [tpc EXCEPT ![w] = "test"]
  /\ hand' = [hand EXCEPT ![w] = NoPuz]
  /\ on' = [on EXCEPT ![w] = None]
  /\ UNCHANGED <<s, stages, results, prev, since, best, seen, main,
                 flagVars, saved, envVars>>

\* A result of one column is to be expanded: GpuTask::appendPuzzle throws, for the
\* slots are as wide as the search, nothing catches that in the parallel region,
\* and the process ends without a checkpoint.
ExpandThrows(w) ==
  /\ tpc[w] = "expand" /\ hand[w] = Grow(Unset)
  /\ main' = "exited"
  /\ UNCHANGED <<searchVars, threadVars, flagVars, saved, envVars>>

\* Thread 0: maybe_request_auto_checkpoint, the restart threshold, the display.
Watch ==
  /\ main = "region" /\ tpc[Master] = "test"
  /\ Continue
  /\ \/ Event /\ ckpt' = TRUE
     \/ UNCHANGED <<events, ckpt>>
  /\ restart' = (since[Current] > RestartThresh)
  /\ UNCHANGED <<searchVars, main, threadVars, exit, exitRead, saved, sig>>

-----------------------------------------------------------------------------
(* The main thread between two regions.                                    *)

\* Faulty: the main thread waits for no other thread.
EndRegionEarly ==
  /\ main = "region"
  /\ tpc[Master] = "out"
  /\ main' = "flag"
  /\ UNCHANGED <<searchVars, threadVars, flagVars, saved, envVars>>

\* The barrier at the end of the region.
EndRegion ==
  /\ main = "region"
  /\ \A t \in Threads : tpc[t] = "out"
  /\ main' = "flag"
  /\ UNCHANGED <<searchVars, threadVars, flagVars, saved, envVars>>

ReadFlags ==
  /\ main = "flag"
  /\ main' = IF ckpt THEN "save" ELSE "restart"
  /\ exitRead' = (ckpt /\ exit)
  /\ UNCHANGED <<searchVars, threadVars, restart, ckpt, exit, saved, envVars>>

\* save_checkpoint: the file is written under another name and renamed, which
\* may fail.
Save ==
  /\ main = "save"
  /\ saved' \in {Snapshot, saved}
  /\ main' = "exchange"
  /\ UNCHANGED <<searchVars, threadVars, flagVars, envVars>>

ExchangeExit ==
  /\ main = "exchange"
  /\ exitRead' = (exit \/ exitRead)
  /\ exit' = FALSE
  /\ main' = "clear"
  /\ UNCHANGED <<searchVars, threadVars, restart, ckpt, saved, envVars>>

\* should_checkpoint.store(false), then cleanup and exit, or the next interval.
ClearRequest ==
  /\ main = "clear"
  /\ ckpt' = FALSE
  /\ main' = IF exitRead THEN "exited" ELSE "restart"
  /\ exitRead' = FALSE
  /\ UNCHANGED <<searchVars, threadVars, restart, exit, saved, envVars>>

\* try_restart empties the queue of the current stage.
TryRestart ==
  /\ main = "restart"
  /\ main' = "result"
  /\ IF restart
     THEN /\ queue' = [queue EXCEPT ![Current] = FALSE]
          /\ since' = [since EXCEPT ![Current] = 0]
          /\ best' = [best EXCEPT ![Current] = "none"]
     ELSE UNCHANGED <<queue, since, best>>
  /\ UNCHANGED <<s, stages, results, prev, seen, expanded, threadVars, flagVars, saved, envVars>>

EnterRegion ==
  /\ main' = "region"
  /\ tpc' = [t \in Threads |-> "test"]
  /\ restart' = FALSE

NoResult ==
  /\ main = "result"
  /\ results[Current] = <<>>
  /\ EnterRegion
  /\ UNCHANGED <<searchVars, on, hand, ckpt, exit, exitRead, saved, envVars>>

\* The window after the oldest stage has left and a new one has come.
Shifted == [i \in 0 .. Top |-> IF i = Top THEN s + 1 ELSE stages[i + 1]]

\* Faulty: the stage that becomes the oldest keeps its predecessor.
ShiftedPrevKept == [prev EXCEPT ![s + 1] = s]

\* The stage that becomes the oldest forgets its predecessor, which is freed.
ShiftedPrev ==
  [h \in Heights |-> IF h = s + 1 THEN s
                     ELSE IF stages[0] # None /\ h = stages[1] THEN None
                     ELSE prev[h]]

\* Faulty: the main thread pops the result it takes.
ShiftedResultsPopped ==
  [h \in Heights |-> CASE h = stages[0] -> <<>>
                       [] h = Current   -> Front(results[h])
                       [] OTHER         -> results[h]]

\* takeResult(false) leaves the result to the new stage; the oldest stage is freed.
ShiftedResults == [h \in Heights |-> IF h = stages[0] THEN <<>> ELSE results[h]]

Shift ==
  /\ main = "result"
  /\ results[Current] # <<>>
  /\ stages' = Shifted
  /\ prev' = ShiftedPrev
  /\ queue' = [h \in Heights |-> h # stages[0] /\ queue[h]]
  /\ results' = ShiftedResults
  /\ s' = s + 1
  /\ IF s = Target
     THEN main' = "done" /\ UNCHANGED <<tpc, restart>>
     ELSE EnterRegion
  /\ UNCHANGED <<since, best, seen, expanded, on, hand, ckpt, exit, exitRead, saved, envVars>>

-----------------------------------------------------------------------------
(* The environment.                                                        *)

\* ctrlCHandler makes two stores, at any point of any thread.
Signal ==
  /\ Running /\ sig = "none"
  /\ Event
  /\ exit' = TRUE
  /\ sig' = "half"
  /\ UNCHANGED <<searchVars, main, threadVars, restart, ckpt, exitRead, saved>>

EndSignal ==
  /\ Running /\ sig = "half"
  /\ ckpt' = TRUE
  /\ sig' = "handled"
  /\ UNCHANGED <<searchVars, main, threadVars, restart, exit, exitRead, saved, events>>

\* The nearest stage below i.
Below(st, i) ==
  LET lower == {j \in 0 .. (i - 1) : st[j] # None}
  IN  IF lower = {} THEN None ELSE st[CHOOSE j \in lower : \A x \in lower : x <= j]

\* Search::deserialize in a new process: everything from the file, the links
\* between the stages restored by their order.
Restore ==
  /\ saved # NoSave
  /\ s' = saved.s /\ stages' = saved.stages
  /\ queue' = saved.queue /\ results' = saved.results
  /\ since' = saved.since /\ best' = saved.best
  /\ seen' = saved.seen /\ expanded' = saved.expanded
  /\ prev' = [h \in Heights |->
                IF \E i \in 0 .. Top : saved.stages[i] = h
                THEN Below(saved.stages, CHOOSE i \in 0 .. Top : saved.stages[i] = h)
                ELSE None]
  /\ EnterRegion
  /\ on' = [w \in Workers |-> None]
  /\ hand' = [w \in Workers |-> NoPuz]
  /\ ckpt' = FALSE /\ exit' = FALSE /\ exitRead' = FALSE
  /\ sig' = "none"
  /\ UNCHANGED saved

Resume == main = "exited" /\ Restore /\ UNCHANGED events

\* The process dies at any point, also within Save, whose file has another name
\* until it is complete, and a new one resumes.
Crash == Running /\ Restore /\ UNCHANGED events

\* After the search, or a stop without a checkpoint, nothing happens here.
Stopped ==
  /\ main = "done" \/ (main = "exited" /\ saved = NoSave)
  /\ UNCHANGED vars

Work(w) ==
  \/ PickStage(w)
  \/ FetchPrev(w) \/ FetchOwn(w) \/ FetchNothing(w)
  \/ Lookup(w) \/ Count(w) \/ Expand(w) \/ ExpandThrows(w)

MainStep ==
  \/ EndRegion \/ ReadFlags \/ Save \/ ExchangeExit \/ ClearRequest
  \/ TryRestart \/ NoResult \/ Shift

ThreadStep(w) == main = "region" /\ (Work(w) \/ Leave(w))

Next ==
  \/ \E w \in Workers : ThreadStep(w)
  \/ Watch \/ Leave(Master)
  \/ MainStep
  \/ Signal \/ EndSignal
  \/ Crash \/ Resume
  \/ Stopped

Spec == Init /\ [][Next]_vars

-----------------------------------------------------------------------------
(* Properties.                                                             *)

\* What stage h may work on: its own puzzles, a puzzle nobody filled in, and what
\* grew from one.
ForStage(h) == Own(h) \cup {p \in {Unset, Grow(Unset)} : p.rows <= h}

TypeOK ==
  /\ s \in Heights /\ stages \in [0 .. Top -> Heights \cup {None}]
  /\ main \in {"region", "flag", "save", "exchange", "clear", "restart", "result",
               "done", "exited"}
  /\ queue \in [Heights -> BOOLEAN]
  /\ \A h \in Heights : /\ \A p \in ToSet(results[h]) : p \in Own(h) \cup {Unset}
                        /\ prev[h] \in Heights \cup {None}
                        /\ since[h] \in Nat /\ best[h] \in {"none", "miss", "perfect"}
  /\ seen \subseteq Puz /\ expanded \subseteq seen
  /\ tpc \in [Threads -> {"test", "fetch", "lookup", "count", "expand", "out"}]
  /\ \A w \in Workers : /\ on[w] \in Alive \cup {None}
                        /\ tpc[w] \in {"lookup", "count", "expand"} <=> hand[w] # NoPuz
                        /\ hand[w] # NoPuz => hand[w] \in ForStage(on[w])
  /\ {restart, ckpt, exit, exitRead} \subseteq BOOLEAN
  /\ sig \in {"none", "half", "handled"}

\* The window holds consecutive stages up to the current one, and each takes its
\* results from the one before; the oldest has no predecessor, whether it never
\* had one, lost it in a shift, or was read from a checkpoint.
WindowLinked ==
  \A i \in 0 .. Top :
    /\ stages[i] \in {s - (Top - i), None}
    /\ i = Top => stages[i] # None
    /\ stages[i] # None => prev[stages[i]] = IF i = 0 THEN None ELSE stages[i - 1]

Searching(w) == tpc[w] \in {"count", "expand"}

\* Whatever the interleaving of workers and stages, restarts and resumptions, no
\* puzzle is expanded twice (doWork and have_seen_isomorph).
ExpandedOnce ==
  \A w \in Workers : Searching(w) =>
    /\ hand[w] \notin expanded
    /\ \A v \in Workers \ {w} : Searching(v) => hand[v] # hand[w]

\* A solution found is never lost while its stage is in the window: it is a
\* result of its stage, or the next stage has taken it, once.
SolutionsKept ==
  main # "done" =>
    \A p \in seen \cap Perfect : p.rows \in Alive =>
      \/ p \in ToSet(results[p.rows])
      \/ p.rows < s /\ Grow(p) \in seen
      \/ \E w \in Workers : hand[w] = p /\ tpc[w] = "count"
      \/ \E w \in Workers : hand[w] = Grow(p) /\ tpc[w] = "lookup"

\* A checkpoint has no puzzle in flight: all it marks as seen has been expanded,
\* so that a resumed search skips nothing (the barrier before save_checkpoint).
CheckpointComplete == saved # NoSave => saved.seen = saved.expanded

\* The threads keep running; the main thread is the master of a region.
FairSpec ==
  /\ Spec
  /\ \A w \in Workers : WF_vars(ThreadStep(w))
  /\ WF_vars(Watch \/ Leave(Master) \/ MainStep)

\* A request for a checkpoint is served: the threads leave the region and the main
\* thread clears the request, exits or finishes.
CheckpointServed == ckpt ~> (~ckpt \/ ~Running)

\* Once a SIGINT has been handled, no thread takes up a stage again: the search ends
\* with a checkpoint and an exit, or because it is done.
SigintStopsWork ==
  [][sig = "handled" => \A w \in Workers : ~(tpc[w] = "test" /\ tpc'[w] = "fetch")]_vars
=============================================================================
