---------------------------- MODULE TaskIdQueue ----------------------------
(***************************************************************************)
(* GpuTaskIdQueue: the bounded lock-free ring of slot ids between the      *)
(* OpenMP workers and the GPU coordinators.  A step is one access to an    *)
(* atomic or to the value of a cell.  The model is sequentially            *)
(* consistent: the acquire/release pairs on a cell's sequence order the    *)
(* accesses to its value, and a relaxed load of a cursor that returns an   *)
(* old value is a load made earlier.                                       *)
(*                                                                         *)
(* size_t never wraps within the bound on pushes.                          *)
(***************************************************************************)
EXTENDS Integers, Sequences, FiniteSets

CONSTANTS
  Producers,    \* threads calling try_push
  Consumers,    \* threads calling try_pop and empty
  Cap,          \* capacity of the ring
  MaxPushes,    \* bound: successful pushes per producer
  None          \* no value

\* What the constants must satisfy.  With a single cell "published at n" and
\* "free for n + 1" would be the same sequence number; the constructor refuses
\* only 0, the enhanced searcher makes at least two slots.
TaskIdQueueConstants ==
  /\ Cap \in Nat \ {0, 1}
  /\ MaxPushes \in Nat
  /\ Producers \cap Consumers = {}
  /\ None \notin Producers \X (1 .. MaxPushes)

Threads == Producers \cup Consumers
Ids     == Producers \X (1 .. MaxPushes)

VARIABLES
  head, tail,        \* the two cursors
  sequence, value,   \* the cells
  ringPc, pos,       \* control point and local copy of a cursor
  pushed,            \* successful pushes of each producer
  got,               \* value read by a pop in progress
  gone, before       \* ghosts: ids popped; ids published when empty() began

cells == <<sequence, value>>
ringVars == <<head, tail, cells, ringPc, pos, pushed, got, gone, before>>

\* Definitions introduced by "Faulty:" are variants with a plausible bug.  No
\* specification uses them; each shows that some property can fail.

Arg(p) == <<p, pushed[p] + 1>>
Cell(t) == pos[t] % Cap

RingInit ==
  /\ head = 0 /\ tail = 0
  /\ sequence = [i \in 0 .. Cap - 1 |-> i]
  /\ value    = [i \in 0 .. Cap - 1 |-> None]
  /\ ringPc = [t \in Threads |-> "idle"]
  /\ pos    = [t \in Threads |-> 0]
  /\ pushed = [p \in Producers |-> 0]
  /\ got    = [c \in Consumers |-> None]
  /\ gone   = {}
  /\ before = [c \in Consumers |-> {}]

Goto(t, point) == ringPc' = [ringPc EXCEPT ![t] = point]

-----------------------------------------------------------------------------
\* try_push: load the tail ...
BeginPush(p) ==
  /\ ringPc[p] = "idle" /\ pushed[p] < MaxPushes
  /\ pos' = [pos EXCEPT ![p] = tail]
  /\ Goto(p, "inspect")
  /\ UNCHANGED <<head, tail, cells, pushed, got, gone, before>>

\* Faulty: a cursor that is behind is taken for a full ring.
InspectForPushHasty(p) ==
  /\ ringPc[p] = "inspect"
  /\ Goto(p, IF sequence[Cell(p)] = pos[p] THEN "cas" ELSE "idle")
  /\ UNCHANGED <<head, tail, cells, pos, pushed, got, gone, before>>

\* ... compare the cell's sequence with it: free, still occupied, or taken.
InspectForPush(p) ==
  /\ ringPc[p] = "inspect"
  /\ \/ sequence[Cell(p)] = pos[p] /\ Goto(p, "cas") /\ UNCHANGED pos
     \/ sequence[Cell(p)] < pos[p] /\ Goto(p, "idle") /\ UNCHANGED pos
     \/ /\ sequence[Cell(p)] > pos[p]
        /\ pos' = [pos EXCEPT ![p] = tail]
        /\ UNCHANGED ringPc
  /\ UNCHANGED <<head, tail, cells, pushed, got, gone, before>>

\* compare_exchange_weak: it may also fail although the tail has not moved.
CasTail(p) ==
  /\ ringPc[p] = "cas"
  /\ \/ tail = pos[p] /\ tail' = tail + 1 /\ Goto(p, "write") /\ UNCHANGED pos
     \/ pos' = [pos EXCEPT ![p] = tail] /\ Goto(p, "inspect") /\ UNCHANGED tail
  /\ UNCHANGED <<head, cells, pushed, got, gone, before>>

WriteValue(p) ==
  /\ ringPc[p] = "write"
  /\ value' = [value EXCEPT ![Cell(p)] = Arg(p)]
  /\ Goto(p, "publish")
  /\ UNCHANGED <<head, tail, sequence, pos, pushed, got, gone, before>>

Publish(p) ==
  /\ ringPc[p] = "publish"
  /\ sequence' = [sequence EXCEPT ![Cell(p)] = pos[p] + 1]
  /\ pushed' = [pushed EXCEPT ![p] = @ + 1]
  /\ Goto(p, "idle")
  /\ UNCHANGED <<head, tail, value, pos, got, gone, before>>

-----------------------------------------------------------------------------
BeginPop(c) ==
  /\ ringPc[c] = "idle"
  /\ pos' = [pos EXCEPT ![c] = head]
  /\ Goto(c, "inspect")
  /\ UNCHANGED <<head, tail, cells, pushed, got, gone, before>>

\* Faulty: a cursor that is behind is taken for an empty ring.
InspectForPopHasty(c) ==
  /\ ringPc[c] = "inspect"
  /\ Goto(c, IF sequence[Cell(c)] = pos[c] + 1 THEN "cas" ELSE "idle")
  /\ UNCHANGED <<head, tail, cells, pos, pushed, got, gone, before>>

InspectForPop(c) ==
  /\ ringPc[c] = "inspect"
  /\ \/ sequence[Cell(c)] = pos[c] + 1 /\ Goto(c, "cas") /\ UNCHANGED pos
     \/ sequence[Cell(c)] < pos[c] + 1 /\ Goto(c, "idle") /\ UNCHANGED pos
     \/ /\ sequence[Cell(c)] > pos[c] + 1
        /\ pos' = [pos EXCEPT ![c] = head]
        /\ UNCHANGED ringPc
  /\ UNCHANGED <<head, tail, cells, pushed, got, gone, before>>

\* Faulty: the head is stored without comparing.
CasHeadBlind(c) ==
  /\ ringPc[c] = "cas"
  /\ head' = pos[c] + 1 /\ Goto(c, "read")
  /\ UNCHANGED <<tail, cells, pos, pushed, got, gone, before>>

CasHead(c) ==
  /\ ringPc[c] = "cas"
  /\ \/ head = pos[c] /\ head' = head + 1 /\ Goto(c, "read") /\ UNCHANGED pos
     \/ pos' = [pos EXCEPT ![c] = head] /\ Goto(c, "inspect") /\ UNCHANGED head
  /\ UNCHANGED <<tail, cells, pushed, got, gone, before>>

ReadValue(c) ==
  /\ ringPc[c] = "read"
  /\ got' = [got EXCEPT ![c] = value[Cell(c)]]
  /\ Goto(c, "release")
  /\ UNCHANGED <<head, tail, cells, pos, pushed, gone, before>>

Release(c) ==
  /\ ringPc[c] = "release"
  /\ sequence' = [sequence EXCEPT ![Cell(c)] = pos[c] + Cap]
  /\ gone' = gone \cup {got[c]}
  /\ got'  = [got EXCEPT ![c] = None]
  /\ Goto(c, "idle")
  /\ UNCHANGED <<head, tail, value, pos, pushed, before>>

-----------------------------------------------------------------------------
\* empty(): size_approx loads the tail first, then the head.  The difference
\* of the two size_t values is zero only when they are equal.
Published == {id \in Ids : id[2] <= pushed[id[1]]}

BeginEmpty(c) ==
  /\ ringPc[c] = "idle"
  /\ pos' = [pos EXCEPT ![c] = tail]
  /\ before' = [before EXCEPT ![c] = Published]
  /\ Goto(c, "size")
  /\ UNCHANGED <<head, tail, cells, pushed, got, gone>>

\* Faulty: a ring that holds one id counts as empty.
FinishEmptyOffByOne(c) ==
  /\ ringPc[c] = "size"
  /\ Goto(c, IF pos[c] - head <= 1 THEN "empty" ELSE "nonempty")
  /\ UNCHANGED <<head, tail, cells, pos, pushed, got, gone, before>>

FinishEmpty(c) ==
  /\ ringPc[c] = "size"
  /\ Goto(c, IF pos[c] - head = 0 THEN "empty" ELSE "nonempty")
  /\ UNCHANGED <<head, tail, cells, pos, pushed, got, gone, before>>

UseEmpty(c) ==
  /\ ringPc[c] \in {"empty", "nonempty"}
  /\ before' = [before EXCEPT ![c] = {}]
  /\ Goto(c, "idle")
  /\ UNCHANGED <<head, tail, cells, pos, pushed, got, gone>>

-----------------------------------------------------------------------------
RingNext ==
  \/ \E p \in Producers : \/ BeginPush(p) \/ InspectForPush(p) \/ CasTail(p)
                          \/ WriteValue(p) \/ Publish(p)
  \/ \E c \in Consumers : \/ BeginPop(c) \/ InspectForPop(c) \/ CasHead(c)
                          \/ ReadValue(c) \/ Release(c)
                          \/ BeginEmpty(c) \/ FinishEmpty(c) \/ UseEmpty(c)

RingSpec == RingInit /\ [][RingNext]_ringVars

-----------------------------------------------------------------------------
HoldsCell(c) == ringPc[c] \in {"read", "release"}
Claimed(p)   == ringPc[p] \in {"write", "publish"}

\* try_push fails only when the ring is full or some popper, stalled between
\* taking an id and releasing its cell, has been lapped: never because of a
\* stale cursor.  Without stalled poppers a queue with one cell per slot
\* therefore accepts every id.  try_pop fails only when there is nothing to
\* take or the oldest id is not published yet: a completed push at the front
\* is never overlooked.
RefusalsJustified ==
  [][/\ \A p \in Producers : ringPc[p] = "inspect" /\ ringPc'[p] = "idle" =>
          tail - head = Cap \/ \E c \in Consumers : HoldsCell(c)
     /\ \A c \in Consumers : ringPc[c] = "inspect" /\ ringPc'[c] = "idle" =>
          tail = head \/ \E p \in Producers : Claimed(p) /\ pos[p] = head]_ringVars

\* empty() answers true only if every id whose push was complete when empty()
\* was called has been taken since: a coordinator does not go to sleep over
\* work that was there all along.
EmptyIsHonest ==
  \A c \in Consumers : ringPc[c] = "empty" =>
    before[c] \subseteq gone \cup {value[Cell(d)] : d \in {e \in Consumers : HoldsCell(e)}}

\* The abstract queue: the id at a place is its cell's value, or the argument
\* of the push that has claimed it and not written it yet.
IdAt(n) ==
  IF \E p \in Producers : ringPc[p] = "write" /\ pos[p] = n
  THEN Arg(CHOOSE p \in Producers : ringPc[p] = "write" /\ pos[p] = n)
  ELSE value[n % Cap]

Places == [i \in 1 .. tail - head |-> IdAt(head + i - 1)]

Unpublished == {Arg(p) : p \in {q \in Producers : Claimed(q)}}

InHands == [c \in Consumers |-> IF ringPc[c] = "read" THEN value[Cell(c)]
                                ELSE IF ringPc[c] = "release" THEN got[c] ELSE None]

Abstract == INSTANCE IdQueue WITH
  Capacity <- Cap,
  Nothing  <- None,
  items    <- Places,
  hidden   <- Unpublished,
  holding  <- InHands

\* The ring implements the first-in first-out queue of IdQueue: no id is lost,
\* delivered twice, overtaken or read from a cell that was reused.
ImplementsIdQueue == Abstract!QSpec
=============================================================================
