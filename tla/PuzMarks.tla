------------------------------ MODULE PuzMarks ------------------------------
(***************************************************************************)
(* The result a puzzle carries.  A device computes the size of its         *)
(* simplified instance; copyResultsToPuzzles marks the puzzle as           *)
(* simplified and stores the result in it, and TDMSizeFitTester believes   *)
(* the mark.  Entries are then set, puzzles are copied, moved, queued and  *)
(* restored, while set says nothing to the mark: it must not outlive the   *)
(* entries it was computed for.                                            *)
(*                                                                         *)
(* A puzzle is its entries (a number below Contents, as far as their       *)
(* instances are told apart), the mark and the result.  One worker, its    *)
(* slot, the queue and the results of its stage suffice, as puzzles travel *)
(* between workers only through queues and results.                        *)
(***************************************************************************)
EXTENDS Integers, FiniteSets

CONSTANT Contents

ASSUME ContentsAssumption == Contents \in Nat \ {0}

VARIABLES
  puzzle,      \* p of doWork
  base,        \* its entries when it was taken
  slot,        \* the puzzles of a GPU task slot
  slotState,   \* "filling", "done"
  queue,       \* the puzzles of the work queues
  found,       \* results
  evaluated    \* what the last getFit saw, and what it should have seen (ghost)

markVars == <<puzzle, base, slot, slotState, queue, found, evaluated>>

AllContents == 0 .. (Contents - 1)
Size(c)  == c + 1                            \* the result for these entries
NewPuzzle(c) == [c |-> c, simplified |-> FALSE, results |-> 0]
NoPuzzle     == [c |-> -1, simplified |-> FALSE, results |-> 0]

\* Faulty: a copy keeps the mark and the result.  (A variant with a plausible bug;
\* no specification uses it.)
CopyMark(q) == q

\* doCopy, behind the copy constructors and the copy assignment to a fresh puzzle
\* (a move takes the mark along): a copy is not marked.
Copy(q) == NewPuzzle(q.c)

\* set
SetTo(q, c) == [q EXCEPT !.c = c]

\* getFit of TDMSizeFitTester.
Seen(q) == IF q.simplified THEN q.results ELSE Size(q.c)
Evaluate(q) == evaluated' = [is |-> Seen(q), should |-> Size(q.c)]

MarkInit ==
  /\ puzzle = NoPuzzle /\ base = 0
  /\ slot = {} /\ slotState = "filling"
  /\ queue = {NewPuzzle(0)} /\ found = {}
  /\ evaluated = [is |-> 0, should |-> 0]

-----------------------------------------------------------------------------
\* doWork: an element of the queue is copied out (dequeue, then p = e.p), or a
\* result of the stage before is copied and moved out of resizePuz.
TakeFromQueue(q) ==
  /\ q \in queue
  /\ puzzle' = Copy(Copy(q)) /\ base' = q.c
  /\ queue' = queue \ {q}
  /\ UNCHANGED <<slot, slotState, found, evaluated>>

TakeResult(q) ==
  /\ q \in found
  /\ puzzle' = NewPuzzle(Copy(q).c) /\ base' = q.c
  /\ found' = found \ {q}
  /\ Evaluate(puzzle')
  /\ UNCHANGED <<slot, slotState, queue>>

\* results.push_back(p); takeResult copies, as do checkpoints (words only).
PushResult ==
  /\ puzzle # NoPuzzle /\ puzzle.c = base
  /\ found' = found \cup {Copy(puzzle)}
  /\ UNCHANGED <<puzzle, base, slot, slotState, queue, evaluated>>

\* append_row_replacements, or the streaming generator: a copy of the base with
\* one row set is moved into the slot.
AppendPuzzle(c) ==
  /\ puzzle # NoPuzzle /\ puzzle.c = base /\ slotState = "filling"
  /\ slot' = slot \cup {SetTo(Copy(puzzle), c)}
  /\ UNCHANGED <<puzzle, base, slotState, queue, found, evaluated>>

\* The device is done, and copyResultsToPuzzles.
ResultsToPuzzles ==
  /\ slotState = "filling" /\ slot # {}
  /\ slotState' = "done"
  /\ slot' = {[q EXCEPT !.simplified = TRUE, !.results = Size(q.c)] : q \in slot}
  /\ UNCHANGED <<puzzle, base, queue, found, evaluated>>

\* add_to_frontier: a marked puzzle is evaluated, and a copy queued.
FrontierOfSlot(q) ==
  /\ slotState = "done" /\ q \in slot
  /\ Evaluate(q)
  /\ queue' = queue \cup {Copy(q)}
  /\ UNCHANGED <<puzzle, base, slot, slotState, found>>

MarkEmpty ==
  /\ slotState = "done"
  /\ slotState' = "filling" /\ slot' = {}
  /\ UNCHANGED <<puzzle, base, queue, found, evaluated>>

\* expand_frontier: entries of the puzzle itself are set for every derivative, and
\* set back; a permuted line is set in a copy.
Derivative(c) ==
  /\ puzzle # NoPuzzle
  /\ puzzle' = SetTo(puzzle, c)
  /\ IF c = base THEN UNCHANGED <<queue, evaluated>>
     ELSE Evaluate(puzzle') /\ queue' = queue \cup {Copy(puzzle')}
  /\ UNCHANGED <<base, slot, slotState, found>>

Permuted(c) ==
  /\ puzzle # NoPuzzle /\ puzzle.c = base
  /\ LET q == SetTo(Copy(puzzle), c)
     IN  Evaluate(q) /\ queue' = queue \cup {Copy(q)}
  /\ UNCHANGED <<puzzle, base, slot, slotState, found>>

MarkNext ==
  \/ \E q \in queue : TakeFromQueue(q)
  \/ \E q \in found : TakeResult(q)
  \/ PushResult
  \/ \E c \in AllContents : AppendPuzzle(c) \/ Derivative(c) \/ Permuted(c)
  \/ ResultsToPuzzles \/ (\E q \in slot : FrontierOfSlot(q)) \/ MarkEmpty

MarkSpec == MarkInit /\ [][MarkNext]_markVars

-----------------------------------------------------------------------------
\* Every fitness is that of the entries the puzzle has when it is evaluated, and a
\* mark says nothing of others, wherever the puzzle has been.
MarksCurrent ==
  /\ evaluated.is = evaluated.should
  /\ \A q \in {puzzle} \cup slot \cup queue \cup found :
       q.simplified => q.results = Size(q.c)
=============================================================================
