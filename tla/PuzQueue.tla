------------------------------ MODULE PuzQueue ------------------------------
(***************************************************************************)
(* The work queues of a stage: BoundedPuzPriorityQueue (one bounded        *)
(* priority queue), BoundedPuzMultilevelFeedbackQueue (a grid of them, one *)
(* per level and priority), and their use by a worker of ILSStage::doWork. *)
(*                                                                         *)
(* A worker takes the best element of some queue, collects its neighbours  *)
(* in private lists, one per priority, and then moves the lists to the     *)
(* next level inside critical(queue).  Other workers only do the same in   *)
(* between, so one worker reaches every state of the queues.               *)
(*                                                                         *)
(* The key of an element is its gap, the distance to a perfect fit, minus  *)
(* a random jitter below one.  Gaps are scaled: fit f and jitter j give    *)
(* the key  Jitters * f - j.  The multiset is ordered by the key only, and *)
(* erase(elt) erases every element with the key of elt.  Elements with one *)
(* key are told apart by an id; which of them comes first is left open.    *)
(*                                                                         *)
(* Definitions introduced by "Faulty:" are variants with a plausible bug.  *)
(* No specification uses them; each shows that some property can fail.     *)
(***************************************************************************)
EXTENDS Integers, FiniteSets, FiniteSetsExt

CONSTANTS
  NumLevels,   \* Q_LEVELS
  NumPriors,   \* Q_PRIORS
  Limit,       \* s * 1000: elements a queue may hold
  Jitters,     \* values of safe_rand(), one million in the code
  MaxMiss,     \* bound: the worst fit is MaxMiss below a perfect one
  MaxElts      \* bound: elements of a frontier, and the first one

ASSUME QueueAssumption ==
  /\ NumLevels \in Nat \ {0}
  /\ NumPriors \in Nat \ {0}
  /\ Limit \in Nat \ {0}
  /\ Jitters \in Nat \ {0}
  /\ MaxMiss \in Nat
  /\ MaxElts \in Nat

Levels == 0 .. (NumLevels - 1)
Priors == 0 .. (NumPriors - 1)
Fits   == (-MaxMiss) .. 0                    \* fit - max_fit
Key(fit, jitter) == Jitters * fit - jitter
Keys   == {Key(f, j) : f \in Fits, j \in 0 .. (Jitters - 1)}

\* elt_type, as far as it is told apart: a named one, or that of an element
\* nobody filled in (NO_TYPE).
Types   == {"named", "none"}
Elt     == [id : Nat, key : Keys, type : Types]
Queue   == [elts : SUBSET Elt, best : Keys, worst : Keys]

\* The bounds of a fresh queue are uninitialised; nothing reads them before
\* the first insertion.
Fresh == [elts |-> {}, best |-> 0, worst |-> 0]

KeysOf(E) == {e.key : e \in E}
BestsOf(q) == {e \in q.elts : \A x \in q.elts : x.key <= e.key}

-----------------------------------------------------------------------------
(* One bounded queue.                                                      *)

\* Faulty: a full queue makes room even for an element that is no better.
RefusesNever(q, e) == FALSE

Refuses(q, e) == Cardinality(q.elts) = Limit /\ e.key <= q.worst

\* Faulty: the new worst bound is not read back.
EvictWorstStale(q) ==
  [q EXCEPT !.elts = {x \in q.elts : x.key # Min(KeysOf(q.elts))}]

\* Room for a better element: every element with the worst key goes.  When none
\* is left, worst_prior is read from an empty multiset; the insertion that
\* follows overwrites it.
EvictWorst(q) ==
  LET kept == {x \in q.elts : x.key # Min(KeysOf(q.elts))}
  IN  [q EXCEPT !.elts = kept, !.worst = IF kept = {} THEN @ ELSE Min(KeysOf(kept))]

\* Faulty: the best bound is kept from the first insertion.
InsertKeepingBest(q, e) ==
  IF q.elts = {}
  THEN [elts |-> {e}, best |-> e.key, worst |-> e.key]
  ELSE [q EXCEPT !.elts = @ \cup {e}, !.worst = IF e.key < @ THEN e.key ELSE @]

Insert(q, e) ==
  IF q.elts = {}
  THEN [elts |-> {e}, best |-> e.key, worst |-> e.key]
  ELSE [elts  |-> q.elts \cup {e},
        best  |-> IF e.key > q.best THEN e.key ELSE q.best,
        worst |-> IF e.key < q.worst THEN e.key ELSE q.worst]

\* Faulty: the size is compared after the insertion that may exceed it.
EnqueueThenTrim(q, e) ==
  IF Cardinality(q.elts) > Limit THEN Insert(EvictWorst(q), e) ELSE Insert(q, e)

Enqueue(q, e) ==
  IF Refuses(q, e) THEN q
  ELSE IF Cardinality(q.elts) = Limit THEN Insert(EvictWorst(q), e)
  ELSE Insert(q, e)

\* Without e and all its ties; best_prior is not refreshed for a last element.
Dequeue(q, e) ==
  LET kept == {x \in q.elts : x.key # e.key}
  IN  [q EXCEPT !.elts = kept,
                !.best = IF Cardinality(kept) > 1 THEN Max(KeysOf(kept)) ELSE @]

-----------------------------------------------------------------------------
(* The queues of a stage and a worker.                                     *)

VARIABLES
  work,      \* [Levels \X Priors -> Queue]: work_queues
  lists,     \* [Priors -> Queue]: local_qs of the worker
  pc,        \* "idle", "expand" or "update"
  at,        \* the element in hand: its level (-1: from the previous stage),
             \* its priority and its fit, ceil(gap)
  left,      \* iterations of mass_enqueue that remain for list cur
  cur,       \* the list that is being moved
  created,   \* ids given out
  searched   \* types counted in stats.searched_types

vars == <<work, lists, pc, at, left, cur, created, searched>>

Ceil(key) == -((-key) \div Jitters)
Crop(p)   == IF p < 0 THEN 0 ELSE IF p >= NumPriors THEN NumPriors - 1 ELSE p
NewElt(key, type) == [id |-> created + 1, key |-> key, type |-> type]
NoElt == [level |-> -1, prior |-> 0, fit |-> 0]

Init ==
  /\ \E key \in Keys :
       work = [lp \in Levels \X Priors |->
                 IF lp = <<0, 0>> /\ MaxElts > 0
                 THEN Insert(Fresh, [id |-> 1, key |-> key, type |-> "named"])
                 ELSE Fresh]
  /\ lists = [p \in Priors |-> Fresh]
  /\ pc = "idle" /\ at = NoElt
  /\ left = 0 /\ cur = 0
  /\ created = IF MaxElts > 0 THEN 1 ELSE 0
  /\ searched = {}

\* A result of the previous stage, one row higher.
TakeInit(fit) ==
  /\ pc = "idle"
  /\ pc' = "expand"
  /\ at' = [level |-> -1, prior |-> 0, fit |-> fit]
  /\ searched' = searched \cup {"named"}
  /\ UNCHANGED <<work, lists, left, cur, created>>

\* Some level with work, some priority of it with work, and its best element.
Take(l, p, e) ==
  /\ pc = "idle"
  /\ e \in BestsOf(work[<<l, p>>])
  /\ work' = [work EXCEPT ![<<l, p>>] = Dequeue(@, e)]
  /\ pc' = "expand"
  /\ at' = [level |-> l, prior |-> p, fit |-> Ceil(e.key)]
  /\ searched' = searched \cup {e.type}
  /\ UNCHANGED <<lists, left, cur, created>>

\* The isomorph cache knows the element: nothing is counted or expanded.
TakeSeen(l, p, e) ==
  /\ pc = "idle"
  /\ e \in BestsOf(work[<<l, p>>])
  /\ work' = [work EXCEPT ![<<l, p>>] = Dequeue(@, e)]
  /\ UNCHANGED <<lists, pc, at, left, cur, created, searched>>

\* The list for a neighbour: two down if it got worse, one if it stayed, one up.
PriorFor(fit) ==
  IF fit < at.fit THEN Crop(at.prior - 2)
  ELSE IF fit = at.fit THEN Crop(at.prior - 1)
  ELSE Crop(at.prior + 1)

AddToFrontier(fit, jitter) ==
  /\ pc = "expand"
  /\ created < MaxElts
  /\ created' = created + 1
  /\ lists' = [lists EXCEPT ![PriorFor(fit)] = Enqueue(@, NewElt(Key(fit, jitter), "named"))]
  /\ UNCHANGED <<work, pc, at, left, cur, searched>>

\* update_queue; the loop of mass_enqueue runs once per element of the list.
BeginUpdate ==
  /\ pc = "expand"
  /\ pc' = "update"
  /\ cur' = 0
  /\ left' = Cardinality(lists[0].elts)
  /\ UNCHANGED <<work, lists, at, created, searched>>

NextLevel == IF at.level < NumLevels - 1 THEN at.level + 1 ELSE NumLevels - 1

MoveBest(e) ==
  /\ pc = "update" /\ left > 0
  /\ e \in BestsOf(lists[cur])
  /\ lists' = [lists EXCEPT ![cur] = Dequeue(@, e)]
  /\ work' = [work EXCEPT ![<<NextLevel, cur>>] = Enqueue(@, e)]
  /\ left' = left - 1
  /\ UNCHANGED <<pc, at, cur, created, searched>>

\* Ties have emptied the list early: dequeue fails, unnoticed, and the element
\* it should have set is enqueued.  Its puzzle is the 1 by 1 puzzle of the default
\* constructor, its type NO_TYPE, and its gap is whatever the stack holds.
MoveUnset(key) ==
  /\ pc = "update" /\ left > 0
  /\ lists[cur].elts = {}
  /\ created' = created + 1
  /\ work' = [work EXCEPT ![<<NextLevel, cur>>] = Enqueue(@, NewElt(key, "none"))]
  /\ left' = left - 1
  /\ UNCHANGED <<lists, pc, at, cur, searched>>

NextList ==
  /\ pc = "update" /\ left = 0
  /\ cur < NumPriors - 1
  /\ cur' = cur + 1
  /\ left' = Cardinality(lists[cur + 1].elts)
  /\ UNCHANGED <<work, lists, pc, at, created, searched>>

\* The worker deletes its lists; the next call makes new ones.
EndUpdate ==
  /\ pc = "update" /\ left = 0
  /\ cur = NumPriors - 1
  /\ pc' = "idle" /\ at' = NoElt /\ cur' = 0
  /\ lists' = [p \in Priors |-> Fresh]
  /\ UNCHANGED <<work, left, created, searched>>

\* The main thread restarts the stage when no worker runs.  Bounds stay.
Restart ==
  /\ pc = "idle"
  /\ work' = [lp \in Levels \X Priors |-> [work[lp] EXCEPT !.elts = {}]]
  /\ UNCHANGED <<lists, pc, at, left, cur, created, searched>>

Next ==
  \/ \E fit \in Fits : TakeInit(fit)
  \/ \E l \in Levels, p \in Priors : \E e \in work[<<l, p>>].elts : Take(l, p, e) \/ TakeSeen(l, p, e)
  \/ \E fit \in Fits, jitter \in 0 .. (Jitters - 1) : AddToFrontier(fit, jitter)
  \/ BeginUpdate
  \/ \E e \in lists[cur].elts : MoveBest(e)
  \/ \E key \in Keys : MoveUnset(key)
  \/ NextList
  \/ EndUpdate
  \/ Restart

Spec == Init /\ [][Next]_vars

-----------------------------------------------------------------------------
(* Properties.                                                             *)

AllQueues == {work[lp] : lp \in Levels \X Priors} \cup {lists[p] : p \in Priors}

SizeBounded  == \A q \in AllQueues : Cardinality(q.elts) <= Limit
WorstExact   == \A q \in AllQueues : q.elts # {} => q.worst = Min(KeysOf(q.elts))
BestNotBelow == \A q \in AllQueues : \A e \in q.elts : e.key <= q.best

\* What a bounded queue caches stays true through insertions, evictions of all
\* ties, removals from the other end, and clear(): no queue and no list holds
\* more than limit elements (BoundedPuzPriorityQueue::enqueue), worst_prior is the
\* worst key, on whose strength enqueue refuses, and best_prior, which mode 2 of
\* dequeue and best() use, never hides a better element.
QueuesSound == SizeBounded /\ WorstExact /\ BestNotBelow

\* Evicted: a full queue made room; nothing as bad as x stayed.
Evicted(x, q, q2) ==
  /\ x \in q.elts /\ Cardinality(q.elts) = Limit
  /\ \A y \in q2.elts : x.key < y.key

\* Refused: the full queue had nothing worse, but may have had a tie of x.
Refused(x, q, q2) ==
  /\ Cardinality(q.elts) = Limit
  /\ \A y \in q2.elts : x.key <= y.key

\* TiedWith: some other element with the key of x is in the queue in its stead.
TiedWith(x, E, q2) == \E e \in E \cap q2.elts : e.key = x.key

Held == UNION {q.elts : q \in AllQueues}

\* An element that a worker holds, in the queues of the stage or in its own lists,
\* is lost for three reasons only while it collects neighbours and moves them: it
\* is worse than everything in the full queue it was evicted from, or no better
\* than everything in the full queue it was to move to
\* (BoundedPuzPriorityQueue::enqueue), or it was left behind by an equal one that
\* moved (dequeue erases all ties).  In particular nothing is in the lists when they
\* are deleted.  What it was evicted for may be an element nobody filled in.
LossesJustified ==
  [][pc # "idle" =>
       \A x \in Held \ Held' :
         \/ \E lp \in Levels \X Priors : Evicted(x, work[lp], work'[lp])
         \/ \E p \in Priors : Evicted(x, lists[p], lists'[p])
         \/ /\ pc = "update" /\ x \in lists[cur].elts
            /\ \/ Refused(x, work[<<NextLevel, cur>>], work'[<<NextLevel, cur>>])
               \/ TiedWith(x, lists[cur].elts, work'[<<NextLevel, cur>>])]_vars

\* Every element a worker searches has a type: display_stats asserts
\* stats.searched_types[0] == 0.
SearchedTypesNamed == "none" \notin searched
=============================================================================
