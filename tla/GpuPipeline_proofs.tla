------------------------ MODULE GpuPipeline_proofs ------------------------
(***************************************************************************)
(* Theorems about the GPU task pipeline, for any number of workers, slots, *)
(* coordinators, candidates and expansions.                                *)
(*                                                                         *)
(* First the custody of the GpuTask slots: where the id of a slot can be   *)
(* in each of its states.  SingleCustody and NothingDropped are the core   *)
(* of this invariant, and are inductive only together with what a worker   *)
(* or a coordinator holds at each of its control points.                   *)
(*                                                                         *)
(* Then what the slots contain: what a slot holds at each of its states,   *)
(* what the device holds during a launch, and how the candidates of a call *)
(* are spread over the slots and the results delivered so far.  This       *)
(* second invariant gives the typing of every variable, that a launch      *)
(* never throws, that results reach the candidates they are for, and the   *)
(* refinement of ExpandService.                                            *)
(***************************************************************************)
EXTENDS GpuPipeline, FiniteSetTheorems, SequenceTheorems, WellFoundedInduction, TLAPS

-----------------------------------------------------------------------------
(* Sequences as ordered sets of ids.                                       *)

LEMMA AppendFacts ==
  ASSUME NEW X, NEW s \in Seq(X), NEW i \in X
  PROVE  /\ Append(s, i) \in Seq(X)
         /\ Append(s, i) # << >>
         /\ ToSet(Append(s, i)) = ToSet(s) \cup {i}
         /\ IsInjective(s) /\ i \notin ToSet(s) => IsInjective(Append(s, i))
<1>1. /\ Append(s, i) \in Seq(X) /\ DOMAIN Append(s, i) = DOMAIN s \cup {Len(s) + 1}
      /\ \A j \in DOMAIN s : Append(s, i)[j] = s[j]
      /\ Append(s, i)[Len(s) + 1] = i
      /\ Append(s, i) # << >>
  OBVIOUS
<1> QED  BY <1>1 DEF ToSet, IsInjective

LEMMA TailFacts ==
  ASSUME NEW X, NEW s \in Seq(X), s # << >>
  PROVE  /\ Head(s) \in X /\ Tail(s) \in Seq(X)
         /\ ToSet(s) = ToSet(Tail(s)) \cup {Head(s)}
         /\ IsInjective(s) => IsInjective(Tail(s)) /\ Head(s) \notin ToSet(Tail(s))
<1>1. /\ Head(s) \in X /\ Tail(s) \in Seq(X)
      /\ Head(s) = s[1] /\ 1 \in DOMAIN s
      /\ \A j \in DOMAIN Tail(s) : j + 1 \in DOMAIN s /\ j + 1 # 1 /\ Tail(s)[j] = s[j + 1]
      /\ \A j \in DOMAIN s : j = 1 \/ (j - 1 \in DOMAIN Tail(s) /\ (j - 1) + 1 = j)
      /\ \A j, k \in DOMAIN Tail(s) : j + 1 = k + 1 => j = k
  OBVIOUS
<1> QED  BY <1>1 DEF ToSet, IsInjective

LEMMA ConsFacts ==
  ASSUME NEW X, NEW s \in Seq(X), NEW i \in X
  PROVE  /\ <<i>> \o s \in Seq(X)
         /\ ToSet(<<i>> \o s) = ToSet(s) \cup {i}
         /\ IsInjective(s) /\ i \notin ToSet(s) => IsInjective(<<i>> \o s)
<1> DEFINE t == <<i>> \o s
<1>1. /\ t \in Seq(X) /\ t[1] = i /\ 1 \in DOMAIN t
      /\ \A j \in DOMAIN s : j + 1 \in DOMAIN t /\ t[j + 1] = s[j]
      /\ \A j \in DOMAIN t : j = 1 \/ (j - 1 \in DOMAIN s /\ t[j] = s[j - 1])
      /\ \A j, k \in DOMAIN t : j - 1 = k - 1 => j = k
  OBVIOUS
<1> HIDE DEF t
<1>2. ToSet(t) = ToSet(s) \cup {i}
  BY <1>1 DEF ToSet
<1>3. IsInjective(s) /\ i \notin ToSet(s) => IsInjective(t)
  BY <1>1 DEF ToSet, IsInjective
<1> QED  BY <1>1, <1>2, <1>3 DEF t

-----------------------------------------------------------------------------
(* The invariant.                                                          *)

Typing ==
  /\ state \in [Slots -> SlotStates]
  /\ DOMAIN puzzles = Slots /\ DOMAIN dim = Slots
  /\ queue \in [Queues -> Seq(Slots)] /\ nextQueue \in Queues
  /\ wpc \in [Workers -> WorkerPcs]
  /\ cur \in [Workers -> Slots \cup {NoSlot}]
  /\ target \in [Workers -> Queues] /\ attempt \in [Workers -> Queues]
  /\ outstanding \in [Workers -> Int]
  /\ cpc \in [Coordinators -> CoordPcs] /\ scan \in [Coordinators -> Nat]
  /\ hand \in [Coordinators -> Slots \cup {NoSlot}]
  /\ group \in [Coordinators -> Seq(Slots)]
  /\ deferred \in [Coordinators -> Seq(Slots)]

\* A worker has its hands on one slot of its own while it fills or submits it.
HoldsAt(w) ==
  /\ wpc[w] = "fill" => cur[w] \in Own(w) /\ state[cur[w]] = "Filling"
  /\ wpc[w] \in {"submit", "backoff"} => cur[w] \in Own(w) /\ state[cur[w]] = "Ready"
  /\ wpc[w] \in {"idle", "acquire", "notify", "drain"} => cur[w] = NoSlot
  /\ \A i \in Own(w) : state[i] = "Filling" => wpc[w] = "fill" /\ cur[w] = i
  /\ wpc[w] = "idle" => outstanding[w] = 0

WorkerHolds == \A w \in Workers : HoldsAt(w)

\* A coordinator that waits or has left holds nothing.
CoordinatorHolds ==
  \A c \in Coordinators :
    /\ hand[c] # NoSlot <=> cpc[c] = "claim"
    /\ cpc[c] \in {"launch", "scatter", "count"} => group[c] # << >>
    /\ cpc[c] = "renotify" => group[c] = << >>
    /\ cpc[c] \in {"stopcheck", "lock", "pred", "blocking", "blocked", "exited"} =>
         group[c] = << >> /\ deferred[c] = << >>

\* Once the search has ended no worker is in an expansion.
Quiet ==
  /\ main \in {"search", "stopping", "joining", "joined"}
  /\ main # "search" => \A w \in Workers : wpc[w] = "idle"

IInv == /\ Typing /\ WorkerHolds /\ CoordinatorHolds /\ Quiet
        /\ SingleCustody /\ NothingDropped /\ OutstandingExact

-----------------------------------------------------------------------------
(* The initial states.                                                     *)

LEMMA OwnFinite ==
  ASSUME NEW w
  PROVE  /\ Own(w) \subseteq Slots
         /\ \A T \in SUBSET Own(w) : IsFiniteSet(T)
<1>1. IsFiniteSet(Slots)
  BY PipelineAssumption, FS_Interval DEF Slots
<1> QED  BY <1>1, FS_Subset DEF Own

\* No slot has two owners.
LEMMA OwnDisjoint ==
  ASSUME NEW v, NEW w, NEW i \in Own(v), i \in Own(w)
  PROVE  v = w
BY DEF Own

LEMMA InitIInv == Init => IInv
<1> SUFFICES ASSUME Init PROVE IInv
  OBVIOUS
<1>0. 0 \in Queues /\ NoSlot \notin Slots
  BY PipelineAssumption DEF Queues, Coordinators, NoSlot, Slots
<1>1. Typing
  BY <1>0 DEF Init, Typing, SlotStates, WorkerPcs, CoordPcs, Queues
<1>2. WorkerHolds
  BY OwnFinite DEF Init, WorkerHolds, HoldsAt
<1>3. CoordinatorHolds
  BY DEF Init, CoordinatorHolds
<1>4. Quiet
  BY DEF Init, Quiet
<1>5. SingleCustody
  BY DEF Init, SingleCustody, ToSet, IsInjective, LiveGroup
<1>6. NothingDropped
  BY DEF Init, NothingDropped
<1>7. OutstandingExact
  <2> SUFFICES ASSUME NEW w \in Workers
               PROVE  outstanding[w] = Cardinality(InUse(w))
    BY DEF OutstandingExact
  <2>1. InUse(w) = {}
    BY OwnFinite DEF Init, InUse
  <2> QED  BY <2>1, FS_EmptySet DEF Init
<1> QED  BY <1>1, <1>2, <1>3, <1>4, <1>5, <1>6, <1>7 DEF IInv

-----------------------------------------------------------------------------
(* Steps that move no slot.                                                *)

Submits(w) == wpc[w] \in {"submit", "backoff"}

LEMMA CustodyFrame ==
  ASSUME IInv,
         UNCHANGED <<state, cur, queue, hand, group, deferred, outstanding>>,
         \A w \in Workers : Submits(w)' <=> Submits(w),
         \A c \in Coordinators : cpc'[c] = "count" <=> cpc[c] = "count"
  PROVE  SingleCustody' /\ NothingDropped' /\ OutstandingExact'
<1>1. \A i : Submitting(i)' <=> Submitting(i)
  BY DEF Submitting, Submits
<1>2. \A i : (InHand(i)' <=> InHand(i)) /\ (Queued(i)' <=> Queued(i))
               /\ (Deferred(i)' <=> Deferred(i))
  BY DEF InHand, Queued, Deferred
<1>3. \A c \in Coordinators : LiveGroup(c)' = LiveGroup(c)
  BY DEF LiveGroup
<1>4. \A i : Grouped(i)' <=> Grouped(i)
  BY <1>3 DEF Grouped
<1>5. SingleCustody'
  BY <1>1, <1>2, <1>3 DEF IInv, SingleCustody
<1>6. NothingDropped'
  BY <1>1, <1>2, <1>4 DEF IInv, NothingDropped
<1>7. OutstandingExact'
  BY DEF IInv, OutstandingExact, InUse
<1> QED  BY <1>5, <1>6, <1>7

\* A worker moves between control points at which it holds the same.
LEMMA WorkerFrame ==
  ASSUME IInv, NEW w \in Workers, NEW there \in WorkerPcs,
         wpc' = [wpc EXCEPT ![w] = there],
         there = "fill" <=> wpc[w] = "fill",
         there \in {"submit", "backoff"} <=> Submits(w),
         there = "idle" => outstanding[w] = 0,
         there # "idle" => main = "search",
         UNCHANGED <<state, cur, queue, hand, group, deferred, outstanding, nextQueue,
                     target, scan, main>>,
         DOMAIN puzzles' = Slots, DOMAIN dim' = Slots,
         attempt' \in [Workers -> Queues],
         cpc' = cpc \/ NotifyAll
  PROVE  IInv'
<1>1. cpc' \in [Coordinators -> CoordPcs]
      /\ \A c \in Coordinators : cpc'[c] = cpc[c] \/ (cpc[c] = "blocked" /\ cpc'[c] = "lock")
  BY DEF NotifyAll, IInv, Typing, CoordPcs
<1>2. wpc' \in [Workers -> WorkerPcs] /\ wpc'[w] = there
      /\ \A v \in Workers : v # w => wpc'[v] = wpc[v]
  BY DEF IInv, Typing
<1>3. Typing'
  BY <1>1, <1>2 DEF IInv, Typing
<1>4. WorkerHolds'
  <2>1. UNCHANGED <<state, cur, outstanding>>
    OBVIOUS
  <2>2. WorkerHolds
    BY DEF IInv
  <2> SUFFICES ASSUME NEW v \in Workers
               PROVE  HoldsAt(v)'
    BY DEF WorkerHolds
  <2>3. CASE v = w
    <3>1. there \notin {"fill", "submit", "backoff"} <=> wpc[w] \notin {"fill", "submit", "backoff"}
      BY DEF Submits
    <3>2. wpc[w] \in WorkerPcs
      BY DEF IInv, Typing
    <3>3. wpc'[w] \in {"idle", "acquire", "notify", "drain"} =>
            wpc[w] \in {"idle", "acquire", "notify", "drain"}
      BY <3>1, <3>2, <1>2 DEF WorkerPcs
    <3> QED
      BY <3>3, <2>1, <2>2, <2>3, <1>2 DEF WorkerHolds, HoldsAt, Submits, Own, Owner
  <2>4. CASE v # w
    BY <2>1, <2>2, <2>4, <1>2 DEF WorkerHolds, HoldsAt, Own, Owner
  <2> QED  BY <2>3, <2>4
<1>5. CoordinatorHolds'
  BY <1>1 DEF IInv, CoordinatorHolds
<1>6. Quiet'
  BY <1>2 DEF IInv, Quiet
<1>7. \A v \in Workers : Submits(v)' <=> Submits(v)
  BY <1>2 DEF Submits
<1>8. \A c \in Coordinators : cpc'[c] = "count" <=> cpc[c] = "count"
  BY <1>1
<1> QED  BY <1>3, <1>4, <1>5, <1>6, <1>7, <1>8, CustodyFrame DEF IInv

\* A coordinator moves between control points at which it holds the same.
LEMMA CoordinatorFrame ==
  ASSUME IInv, NEW c \in Coordinators,
         UNCHANGED <<state, puzzles, dim, workerVars, queueVars, mainVars, hand, group,
                     deferred>>,
         cpc' \in [Coordinators -> CoordPcs],
         scan' \in [Coordinators -> Nat],
         \A d \in Coordinators \ {c} :
           cpc'[d] = cpc[d] \/ (cpc[d] = "blocked" /\ cpc'[d] = "lock"),
         cpc'[c] = "claim" <=> cpc[c] = "claim",
         cpc'[c] = "count" <=> cpc[c] = "count",
         cpc'[c] \in {"launch", "scatter"} => group[c] # << >>,
         cpc'[c] = "renotify" => group[c] = << >>,
         cpc'[c] \in {"stopcheck", "lock", "pred", "blocking", "blocked", "exited"} =>
           group[c] = << >> /\ deferred[c] = << >>
  PROVE  IInv'
<1>1. Typing'
  BY DEF IInv, Typing, workerVars, queueVars
<1>2. WorkerHolds'
  BY DEF IInv, WorkerHolds, HoldsAt, Own, Owner, workerVars
<1>3. CoordinatorHolds'
  <2>1. CoordinatorHolds /\ UNCHANGED <<hand, group, deferred>>
    BY DEF IInv
  <2> SUFFICES ASSUME NEW d \in Coordinators
               PROVE  /\ hand[d] # NoSlot <=> cpc'[d] = "claim"
                      /\ cpc'[d] \in {"launch", "scatter", "count"} => group[d] # << >>
                      /\ cpc'[d] = "renotify" => group[d] = << >>
                      /\ cpc'[d] \in {"stopcheck", "lock", "pred", "blocking", "blocked",
                                      "exited"} =>
                           group[d] = << >> /\ deferred[d] = << >>
    BY <2>1 DEF CoordinatorHolds
  <2>2. CASE d = c
    BY <2>1, <2>2 DEF CoordinatorHolds
  <2>3. CASE d # c
    BY <2>1, <2>3 DEF CoordinatorHolds
  <2> QED  BY <2>2, <2>3
<1>4. Quiet'
  BY DEF IInv, Quiet, workerVars, mainVars
<1>5. \A w \in Workers : Submits(w)' <=> Submits(w)
  BY DEF Submits, workerVars
<1>6. \A d \in Coordinators : cpc'[d] = "count" <=> cpc[d] = "count"
  OBVIOUS
<1>7. UNCHANGED <<state, cur, queue, hand, group, deferred, outstanding>>
  BY DEF workerVars, queueVars
<1> QED  BY <1>1, <1>2, <1>3, <1>4, <1>5, <1>6, <1>7, CustodyFrame DEF IInv

LEMMA QuietWorker ==
  ASSUME IInv, NEW w \in Workers, wpc[w] # "idle"
  PROVE  main = "search"
BY DEF IInv, Quiet

LEMMA IdleWorkerSteps ==
  ASSUME IInv, NEW w \in Workers,
         \/ StartCall(w) \/ GiveUpFilling(w) \/ AppendPuzzle(w) \/ PushRefused(w)
         \/ RetryPush(w) \/ NotifySubmitted(w) \/ Return(w)
  PROVE  IInv'
<1>t. /\ DOMAIN puzzles = Slots /\ DOMAIN dim = Slots
      /\ wpc \in [Workers -> WorkerPcs] /\ attempt \in [Workers -> Queues]
  BY DEF IInv, Typing
<1>1. CASE StartCall(w)
  BY <1>1, <1>t, WorkerFrame
  DEF StartCall, Submits, WorkerPcs, slotVars, queueVars, coordVars, mainVars
<1>2. CASE GiveUpFilling(w)
  BY <1>2, <1>t, WorkerFrame, QuietWorker
  DEF GiveUpFilling, Submits, WorkerPcs, slotVars, queueVars, coordVars, mainVars
<1>3. CASE AppendPuzzle(w)
  <2>1. /\ DOMAIN puzzles' = Slots /\ wpc[w] = "fill"
        /\ wpc' = [wpc EXCEPT ![w] = "fill"] /\ "fill" \in WorkerPcs
    BY <1>3, <1>t DEF AppendPuzzle, WorkerPcs
  <2> QED
    BY <1>3, <1>t, <2>1, WorkerFrame, QuietWorker
    DEF AppendPuzzle, Submits, queueVars, coordVars, mainVars
<1>4. CASE PushRefused(w)
  <2>1. \/ wpc' = [wpc EXCEPT ![w] = "submit"]
        \/ wpc' = [wpc EXCEPT ![w] = "backoff"]
    BY <1>4, <1>t DEF PushRefused
  <2>2. attempt' \in [Workers -> Queues]
    <3>1. 0 \in Queues /\ (attempt[w] + 1 < NumCoordinators => attempt[w] + 1 \in Queues)
      BY <1>t, PipelineAssumption DEF Queues, Coordinators
    <3> QED  BY <1>4, <1>t, <3>1 DEF PushRefused
  <2>3. wpc[w] = "submit" /\ "submit" \in WorkerPcs /\ "backoff" \in WorkerPcs
    BY <1>4 DEF PushRefused, WorkerPcs
  <2> QED
    BY <1>4, <1>t, <2>1, <2>2, <2>3, WorkerFrame, QuietWorker
    DEF PushRefused, Submits, slotVars, queueVars, coordVars, mainVars
<1>5. CASE RetryPush(w)
  BY <1>5, <1>t, WorkerFrame, QuietWorker
  DEF RetryPush, Submits, WorkerPcs, slotVars, queueVars, coordVars, mainVars
<1>6. CASE NotifySubmitted(w)
  <2>1. \/ wpc' = [wpc EXCEPT ![w] = "acquire"]
        \/ wpc' = [wpc EXCEPT ![w] = "drain"]
    BY <1>6 DEF NotifySubmitted
  <2>2. wpc[w] = "notify" /\ "acquire" \in WorkerPcs /\ "drain" \in WorkerPcs
    BY <1>6 DEF NotifySubmitted, WorkerPcs
  <2> QED
    BY <1>6, <1>t, <2>1, <2>2, WorkerFrame, QuietWorker
    DEF NotifySubmitted, Submits, slotVars, queueVars, mainVars
<1>7. CASE Return(w)
  BY <1>7, <1>t, WorkerFrame
  DEF Return, Submits, WorkerPcs, slotVars, queueVars, coordVars, mainVars
<1> QED  BY <1>1, <1>2, <1>3, <1>4, <1>5, <1>6, <1>7

LEMMA IdleCoordinatorSteps ==
  ASSUME IInv, NEW c \in Coordinators,
         \/ SkipEmptyQueue(c) \/ FindNothing(c) \/ StopCheck(c) \/ StopCoalescing(c)
         \/ PollAgain(c) \/ EnterWait(c) \/ EvaluatePredicate(c) \/ Block(c)
         \/ SpuriousWakeup(c) \/ Launch(c) \/ Renotify(c)
  PROVE  IInv'
<1>t. /\ cpc \in [Coordinators -> CoordPcs] /\ scan \in [Coordinators -> Nat]
      /\ CoordinatorHolds
  BY DEF IInv, Typing
<1> USE <1>t, CoordinatorFrame DEF slotVars
<1>1. CASE SkipEmptyQueue(c)
  BY <1>1 DEF SkipEmptyQueue
<1>2. CASE FindNothing(c)
  BY <1>2 DEF FindNothing, NothingTaken, CoordPcs
<1>3. CASE StopCheck(c)
  BY <1>3 DEF StopCheck, ScanQueue, CoordPcs, CoordinatorHolds
<1>4. CASE StopCoalescing(c)
  BY <1>4 DEF StopCoalescing, NothingTaken, CoordPcs
<1>5. CASE PollAgain(c)
  BY <1>5 DEF PollAgain, NothingTaken
<1>6. CASE EnterWait(c)
  BY <1>6 DEF EnterWait, CoordPcs, CoordinatorHolds
<1>7. CASE EvaluatePredicate(c)
  BY <1>7 DEF EvaluatePredicate, ScanQueue, CoordPcs, CoordinatorHolds
<1>8. CASE Block(c)
  BY <1>8 DEF Block, CoordPcs, CoordinatorHolds
<1>9. CASE SpuriousWakeup(c)
  BY <1>9 DEF SpuriousWakeup, CoordPcs, CoordinatorHolds
<1>10. CASE Launch(c)
  BY <1>10 DEF Launch, CoordPcs, CoordinatorHolds
<1>11. CASE Renotify(c)
  BY <1>11 DEF Renotify, ScanQueue, CoordPcs, CoordinatorHolds
<1> QED  BY <1>1, <1>2, <1>3, <1>4, <1>5, <1>6, <1>7, <1>8, <1>9, <1>10, <1>11

LEMMA MainSteps ==
  ASSUME IInv, StopPipeline \/ NotifyStop \/ Join \/ UNCHANGED vars
  PROVE  IInv'
<1>1. /\ cpc' \in [Coordinators -> CoordPcs]
      /\ \A c \in Coordinators : cpc'[c] = cpc[c] \/ (cpc[c] = "blocked" /\ cpc'[c] = "lock")
  BY DEF StopPipeline, NotifyStop, Join, vars, NotifyAll, IInv, Typing, CoordPcs, coordVars
<1>2. UNCHANGED <<slotVars, queueVars, workerVars, scan, hand, group, deferred>>
  BY DEF StopPipeline, NotifyStop, Join, vars, coordVars
<1>3. Typing'
  BY <1>1, <1>2 DEF IInv, Typing, slotVars, queueVars, workerVars
<1>4. WorkerHolds'
  BY <1>2 DEF IInv, WorkerHolds, HoldsAt, Own, Owner, slotVars, workerVars
<1>5. CoordinatorHolds'
  BY <1>1, <1>2 DEF IInv, CoordinatorHolds
<1>6. Quiet'
  BY <1>2 DEF StopPipeline, NotifyStop, Join, vars, mainVars, workerVars, IInv, Quiet
<1>7. SingleCustody' /\ NothingDropped' /\ OutstandingExact'
  <2>1. \A w \in Workers : Submits(w)' <=> Submits(w)
    BY <1>2 DEF Submits, workerVars
  <2>2. \A c \in Coordinators : cpc'[c] = "count" <=> cpc[c] = "count"
    BY <1>1
  <2>3. UNCHANGED <<state, cur, queue, hand, group, deferred, outstanding>>
    BY <1>2 DEF slotVars, workerVars, queueVars
  <2> QED  BY <2>1, <2>2, <2>3, CustodyFrame
<1> QED  BY <1>3, <1>4, <1>5, <1>6, <1>7 DEF IInv

-----------------------------------------------------------------------------
(* Steps that move a slot.                                                 *)

\* What a worker's step leaves alone.
LEMMA CoordinatorSide ==
  ASSUME IInv, UNCHANGED coordVars
  PROVE  /\ CoordinatorHolds'
         /\ \A i : (InHand(i)' <=> InHand(i)) /\ (Deferred(i)' <=> Deferred(i))
                   /\ (Grouped(i)' <=> Grouped(i))
         /\ \A c \in Coordinators : LiveGroup(c)' = LiveGroup(c)
<1>1. CoordinatorHolds'
  BY DEF IInv, CoordinatorHolds, coordVars
<1>2. \A c \in Coordinators : LiveGroup(c)' = LiveGroup(c)
  BY DEF LiveGroup, coordVars
<1> QED  BY <1>1, <1>2 DEF InHand, Deferred, Grouped, coordVars

LEMMA BeginFillingStep ==
  ASSUME IInv, NEW w \in Workers, BeginFilling(w)
  PROVE  IInv'
<1>t. Typing /\ WorkerHolds /\ SingleCustody /\ NothingDropped /\ OutstandingExact /\ Quiet
  BY DEF IInv
<1>1. PICK i \in Own(w) :
        /\ state[i] = "Empty" /\ state' = [state EXCEPT ![i] = "Filling"]
        /\ dim' = [dim EXCEPT ![i] = wdim[w]] /\ puzzles' = [puzzles EXCEPT ![i] = << >>]
        /\ cur' = [cur EXCEPT ![w] = i]
  BY DEF BeginFilling
<1>2. /\ wpc[w] = "acquire" /\ wpc' = [wpc EXCEPT ![w] = "fill"]
      /\ UNCHANGED <<queue, nextQueue, coordVars, main, target, attempt, outstanding>>
  BY DEF BeginFilling, queueVars, mainVars
<1>3. i \in Slots /\ cur[w] = NoSlot
  BY <1>1, <1>2, <1>t, OwnFinite DEF WorkerHolds, HoldsAt
<1>c. CoordinatorHolds' /\ (\A j : InHand(j)' <=> InHand(j)) /\ (\A j : Deferred(j)' <=> Deferred(j))
      /\ (\A j : Grouped(j)' <=> Grouped(j)) /\ (\A c \in Coordinators : LiveGroup(c)' = LiveGroup(c))
  BY <1>2, CoordinatorSide
<1>s. \A j : Submitting(j)' <=> Submitting(j)
  BY <1>1, <1>2, <1>t DEF Submitting, Typing
<1>4. Typing'
  BY <1>1, <1>2, <1>3, <1>t DEF Typing, SlotStates, WorkerPcs, coordVars
<1>5. WorkerHolds'
  <2> SUFFICES ASSUME NEW v \in Workers
               PROVE  HoldsAt(v)'
    BY DEF WorkerHolds
  <2>1. CASE v = w
    BY <1>1, <1>2, <1>3, <1>t, <2>1, OwnFinite DEF WorkerHolds, HoldsAt, Typing
  <2>2. CASE v # w
    BY <1>1, <1>2, <1>3, <1>t, <2>2, OwnFinite, OwnDisjoint DEF WorkerHolds, HoldsAt, Typing
  <2> QED  BY <2>1, <2>2
<1>6. Quiet'
  BY <1>2, <1>t DEF Quiet, Typing
<1>7. SingleCustody'
  BY <1>1, <1>2, <1>3, <1>c, <1>s, <1>t DEF SingleCustody, Typing, coordVars
<1>8. NothingDropped'
  BY <1>1, <1>2, <1>3, <1>c, <1>s, <1>t DEF NothingDropped, Typing, Queued
<1>9. OutstandingExact'
  <2>1. ASSUME NEW v \in Workers
        PROVE  InUse(v)' = InUse(v)
    <3> SUFFICES ASSUME NEW j \in Own(v)
                 PROVE  /\ state'[j] \in {"Ready", "Processing", "Done"} /\ cur'[v] # j
                        <=> state[j] \in {"Ready", "Processing", "Done"} /\ cur[v] # j
      BY DEF InUse, Own, Owner
    <3>1. j \in Slots /\ (j = i => v = w)
      BY <1>1, OwnFinite, OwnDisjoint
    <3>2. j # NoSlot
      BY <3>1, PipelineAssumption DEF Slots, NoSlot
    <3> QED  BY <1>1, <1>2, <1>3, <1>t, <3>1, <3>2 DEF Typing
  <2> QED  BY <2>1, <1>2, <1>t DEF OutstandingExact
<1> QED  BY <1>4, <1>5, <1>6, <1>7, <1>8, <1>9, <1>c DEF IInv

\* The queue a push or a scan turns to exists.
LEMMA QueueIndex ==
  ASSUME NEW a \in Nat, NEW b \in Nat
  PROVE  (a + b) % NumCoordinators \in Queues
BY PipelineAssumption DEF Queues, Coordinators

LEMMA MarkReadyStep ==
  ASSUME IInv, NEW w \in Workers, MarkReady(w)
  PROVE  IInv'
<1>t. Typing /\ WorkerHolds /\ SingleCustody /\ NothingDropped /\ OutstandingExact /\ Quiet
  BY DEF IInv
<1> DEFINE i == cur[w]
<1>1. /\ wpc[w] = "fill" /\ wpc' = [wpc EXCEPT ![w] = "submit"]
      /\ state[i] = "Filling" /\ state' = [state EXCEPT ![i] = "Ready"]
      /\ target' = [target EXCEPT ![w] = nextQueue]
      /\ nextQueue' = (nextQueue + 1) % NumCoordinators
      /\ attempt' = [attempt EXCEPT ![w] = 0]
  BY DEF MarkReady
<1>2. UNCHANGED <<queue, coordVars, main, cur, puzzles, dim, outstanding>>
  BY DEF MarkReady, mainVars
<1>3. i \in Own(w) /\ i \in Slots
  BY <1>1, <1>t, OwnFinite DEF WorkerHolds, HoldsAt
<1>c. CoordinatorHolds' /\ (\A j : InHand(j)' <=> InHand(j)) /\ (\A j : Deferred(j)' <=> Deferred(j))
      /\ (\A j : Grouped(j)' <=> Grouped(j)) /\ (\A c \in Coordinators : LiveGroup(c)' = LiveGroup(c))
  BY <1>2, CoordinatorSide
<1>s. \A j : Submitting(j)' <=> Submitting(j) \/ j = i
  BY <1>1, <1>2, <1>t DEF Submitting, Typing
<1>4. Typing'
  <2>1. nextQueue' \in Queues /\ 0 \in Queues
    BY <1>1, <1>t, QueueIndex, PipelineAssumption DEF Typing, Queues, Coordinators
  <2> QED
    BY <1>1, <1>2, <1>3, <1>t, <2>1 DEF Typing, SlotStates, WorkerPcs, coordVars
<1>5. WorkerHolds'
  <2> SUFFICES ASSUME NEW v \in Workers
               PROVE  HoldsAt(v)'
    BY DEF WorkerHolds
  <2>1. CASE v = w
    BY <1>1, <1>2, <1>3, <1>t, <2>1, OwnFinite DEF WorkerHolds, HoldsAt, Typing, Own, Owner
  <2>2. CASE v # w
    <3>1. \A j \in Own(v) : j # i /\ j \in Slots /\ state'[j] = state[j]
      BY <1>1, <1>3, <1>t, <2>2, OwnFinite, OwnDisjoint DEF Typing
    <3>2. wpc'[v] = wpc[v] /\ cur'[v] = cur[v] /\ outstanding' = outstanding
      BY <1>1, <1>2, <1>t, <2>2 DEF Typing
    <3> QED  BY <3>1, <3>2, <1>t DEF WorkerHolds, HoldsAt, Own, Owner
  <2> QED  BY <2>1, <2>2
<1>6. Quiet'
  BY <1>1, <1>2, <1>t DEF Quiet, Typing
<1>7. SingleCustody'
  BY <1>1, <1>2, <1>3, <1>c, <1>s, <1>t DEF SingleCustody, Typing, coordVars
<1>8. NothingDropped'
  BY <1>1, <1>2, <1>3, <1>c, <1>s, <1>t DEF NothingDropped, Typing, Queued
<1>9. OutstandingExact'
  <2>1. ASSUME NEW v \in Workers
        PROVE  InUse(v)' = InUse(v)
    <3> SUFFICES ASSUME NEW j \in Own(v)
                 PROVE  /\ state'[j] \in {"Ready", "Processing", "Done"} /\ cur'[v] # j
                        <=> state[j] \in {"Ready", "Processing", "Done"} /\ cur[v] # j
      BY DEF InUse, Own, Owner
    <3>1. j \in Slots /\ (j = i => v = w)
      BY <1>3, OwnFinite, OwnDisjoint
    <3> QED  BY <1>1, <1>2, <1>t, <3>1 DEF Typing
  <2> QED  BY <2>1, <1>2, <1>t DEF OutstandingExact
<1> QED  BY <1>4, <1>5, <1>6, <1>7, <1>8, <1>9, <1>c DEF IInv

LEMMA PushAcceptedStep ==
  ASSUME IInv, NEW w \in Workers, PushAccepted(w)
  PROVE  IInv'
<1>t. Typing /\ WorkerHolds /\ SingleCustody /\ NothingDropped /\ OutstandingExact /\ Quiet
  BY DEF IInv
<1> DEFINE i == cur[w]
           p == TargetQueue(w)
<1>p. p \in Queues /\ 0 \in Queues /\ i \in Own(w) /\ i \in Slots /\ state[i] = "Ready"
  <2>1. target[w] \in Nat /\ attempt[w] \in Nat
    BY <1>t DEF Typing, Queues, Coordinators
  <2>2. wpc[w] = "submit"
    BY DEF PushAccepted
  <2>3. TargetQueue(w) \in Queues
    BY <2>1, QueueIndex DEF TargetQueue
  <2>4. 0 \in Queues
    BY PipelineAssumption DEF Queues, Coordinators
  <2> QED  BY <2>2, <2>3, <2>4, <1>t, OwnFinite DEF WorkerHolds, HoldsAt
<1>1. /\ wpc[w] = "submit" /\ wpc' = [wpc EXCEPT ![w] = "notify"]
      /\ queue' = [queue EXCEPT ![p] = Append(queue[p], i)]
      /\ cur' = [cur EXCEPT ![w] = NoSlot]
      /\ target' = [target EXCEPT ![w] = 0] /\ attempt' = [attempt EXCEPT ![w] = 0]
      /\ outstanding' = [outstanding EXCEPT ![w] = outstanding[w] + 1]
  BY DEF PushAccepted
<1> HIDE DEF p
<1>2. UNCHANGED <<state, puzzles, dim, nextQueue, coordVars, main>>
  BY DEF PushAccepted, mainVars, slotVars
<1>c. CoordinatorHolds' /\ (\A j : InHand(j)' <=> InHand(j)) /\ (\A j : Deferred(j)' <=> Deferred(j))
      /\ (\A j : Grouped(j)' <=> Grouped(j)) /\ (\A c \in Coordinators : LiveGroup(c)' = LiveGroup(c))
  BY <1>2, CoordinatorSide
<1>i. Submitting(i) /\ i # NoSlot
  BY <1>1, <1>p, PipelineAssumption DEF Submitting, Slots, NoSlot
<1>s. \A j \in Slots : Submitting(j)' <=> Submitting(j) /\ j # i
  <2> SUFFICES ASSUME NEW j \in Slots
               PROVE  Submitting(j)' <=> Submitting(j) /\ j # i
    OBVIOUS
  <2>1. ASSUME NEW v \in Workers, cur[v] = i, Submits(v)
        PROVE  v = w
    BY <2>1, <1>p, <1>t, OwnDisjoint DEF WorkerHolds, HoldsAt, Submits
  <2>2. j # NoSlot
    BY PipelineAssumption DEF Slots, NoSlot
  <2> QED  BY <2>1, <2>2, <1>1, <1>t DEF Submitting, Submits, Typing
<1>a. /\ queue[p] \in Seq(Slots) /\ i \notin ToSet(queue[p])
      /\ \A q \in Queues : ToSet(queue[q]) \subseteq Slots
      /\ \A q \in Queues : i \notin ToSet(queue[q])
  <2>1. \A q \in Queues : queue[q] \in Seq(Slots)
    BY <1>t DEF Typing
  <2>2. \A q \in Queues : ToSet(queue[q]) \subseteq Slots
    BY <2>1 DEF ToSet
  <2> QED  BY <2>1, <2>2, <1>p, <1>i, <1>t DEF SingleCustody
<1>b. /\ Append(queue[p], i) \in Seq(Slots)
      /\ queue'[p] = Append(queue[p], i)
      /\ ToSet(queue'[p]) = ToSet(queue[p]) \cup {i}
      /\ IsInjective(queue[p]) => IsInjective(queue'[p])
      /\ \A q \in Queues \ {p} : queue'[q] = queue[q]
  BY <1>a, <1>p, <1>1, <1>t, AppendFacts DEF Typing
<1>q. \A q \in Queues, j \in Slots :
        j \in ToSet(queue'[q]) <=> j \in ToSet(queue[q]) \/ (q = p /\ j = i)
  BY <1>b
<1>4. Typing'
  <2>1. queue' \in [Queues -> Seq(Slots)]
    BY <1>b, <1>1, <1>t, <1>p DEF Typing
  <2>2. cur' \in [Workers -> Slots \cup {NoSlot}] /\ wpc' \in [Workers -> WorkerPcs]
        /\ outstanding' \in [Workers -> Int]
    BY <1>1, <1>t DEF Typing, WorkerPcs
  <2> QED
    BY <1>1, <1>2, <1>p, <1>t, <2>1, <2>2 DEF Typing, coordVars
<1>5. WorkerHolds'
  <2> SUFFICES ASSUME NEW v \in Workers
               PROVE  HoldsAt(v)'
    BY DEF WorkerHolds
  <2>1. CASE v = w
    BY <1>1, <1>2, <1>p, <1>t, <2>1 DEF WorkerHolds, HoldsAt, Typing, Own, Owner
  <2>2. CASE v # w
    <3>1. wpc'[v] = wpc[v] /\ cur'[v] = cur[v] /\ outstanding'[v] = outstanding[v]
      BY <1>1, <1>2, <1>t, <2>2 DEF Typing
    <3> QED  BY <3>1, <1>2, <1>t DEF WorkerHolds, HoldsAt, Own, Owner
  <2> QED  BY <2>1, <2>2
<1>6. Quiet'
  BY <1>1, <1>2, <1>t DEF Quiet, Typing
<1>7. SingleCustody'
  <2>1. \A q \in Queues :
          /\ IsInjective(queue'[q])
          /\ \A j \in ToSet(queue'[q]) :
               /\ state[j] = "Ready" /\ ~Submitting(j)' /\ ~InHand(j)
               /\ \A r \in Queues : j \in ToSet(queue'[r]) => r = q
    <3>1. ~InHand(i)
      BY <1>i, <1>t DEF SingleCustody, InHand
    <3>2. \A q \in Queues : IsInjective(queue'[q])
      BY <1>b, <1>p, <1>t DEF SingleCustody
    <3>3. \A q \in Queues : ToSet(queue'[q]) \subseteq Slots
      BY <1>a, <1>b, <1>p
    <3> QED  BY <3>1, <3>2, <3>3, <1>q, <1>s, <1>a, <1>p, <1>t DEF SingleCustody
  <2>2. \A c \in Coordinators : hand[c] # NoSlot => ~Submitting(hand[c])'
    BY <1>s, <1>t, <1>2 DEF SingleCustody, Typing, coordVars
  <2> QED  BY <2>1, <2>2, <1>2, <1>c, <1>t DEF SingleCustody, coordVars
<1>8. NothingDropped'
  <2>1. \A j \in Slots : (Queued(j) \/ j = i) => Queued(j)'
    BY <1>q, <1>p DEF Queued
  <2> QED  BY <2>1, <1>2, <1>c, <1>s, <1>t DEF NothingDropped
<1>9. OutstandingExact'
  <2> SUFFICES ASSUME NEW v \in Workers
               PROVE  outstanding'[v] = Cardinality(InUse(v)')
    BY DEF OutstandingExact
  <2>0. Own(v)' = Own(v) /\ IsFiniteSet(InUse(v)) /\ NoSlot \notin Own(v)
    <3>1. NoSlot \notin Slots
      BY PipelineAssumption DEF Slots, NoSlot
    <3> QED  BY <3>1, OwnFinite DEF Own, Owner, InUse
  <2>1. CASE v = w
    <3>1. InUse(w)' = InUse(w) \cup {i} /\ i \notin InUse(w)
      BY <2>0, <2>1, <1>1, <1>2, <1>p, <1>t DEF InUse, Typing
    <3>2. Cardinality(InUse(w)') = Cardinality(InUse(w)) + 1
      BY <3>1, <2>0, <2>1, FS_AddElement
    <3>3. outstanding'[w] = outstanding[w] + 1
      BY <1>1, <1>t DEF Typing
    <3> QED  BY <3>2, <3>3, <2>1, <1>t DEF OutstandingExact
  <2>2. CASE v # w
    <3>1. InUse(v)' = InUse(v)
      BY <2>0, <2>2, <1>1, <1>2, <1>t DEF InUse, Typing
    <3> QED  BY <3>1, <2>2, <1>1, <1>t DEF OutstandingExact, Typing
  <2> QED  BY <2>1, <2>2
<1> QED  BY <1>4, <1>5, <1>6, <1>7, <1>8, <1>9, <1>c DEF IInv

LEMMA ProcessDoneStep ==
  ASSUME IInv, NEW w \in Workers, ProcessDone(w)
  PROVE  IInv'
<1>t. Typing /\ WorkerHolds /\ SingleCustody /\ NothingDropped /\ OutstandingExact /\ Quiet
  BY DEF IInv
<1>1. PICK i \in Own(w) :
        /\ state[i] = "Done" /\ state' = [state EXCEPT ![i] = "Empty"]
        /\ puzzles' = [puzzles EXCEPT ![i] = << >>]
        /\ outstanding' = [outstanding EXCEPT ![w] = outstanding[w] - 1]
  BY DEF ProcessDone
<1>2. /\ wpc[w] \in {"acquire", "backoff", "drain"}
      /\ UNCHANGED <<queue, nextQueue, coordVars, main, wpc, cur, target, attempt, dim>>
  BY DEF ProcessDone, queueVars, mainVars
<1>3. i \in Slots /\ i # cur[w]
  <2>1. NoSlot \notin Slots
    BY PipelineAssumption DEF Slots, NoSlot
  <2> QED  BY <2>1, <1>1, <1>2, <1>t, OwnFinite DEF WorkerHolds, HoldsAt
<1>c. CoordinatorHolds' /\ (\A j : InHand(j)' <=> InHand(j)) /\ (\A j : Deferred(j)' <=> Deferred(j))
      /\ (\A j : Grouped(j)' <=> Grouped(j)) /\ (\A c \in Coordinators : LiveGroup(c)' = LiveGroup(c))
  BY <1>2, CoordinatorSide
<1>s. \A j : Submitting(j)' <=> Submitting(j)
  BY <1>2 DEF Submitting
<1>4. Typing'
  BY <1>1, <1>2, <1>3, <1>t DEF Typing, SlotStates, coordVars
<1>5. WorkerHolds'
  <2> SUFFICES ASSUME NEW v \in Workers
               PROVE  HoldsAt(v)'
    BY DEF WorkerHolds
  <2>1. CASE v = w
    BY <1>1, <1>2, <1>3, <1>t, <2>1, OwnFinite DEF WorkerHolds, HoldsAt, Typing, Own, Owner
  <2>2. CASE v # w
    <3>1. \A j \in Own(v) : j # i /\ j \in Slots /\ state'[j] = state[j]
      BY <1>1, <1>3, <1>t, <2>2, OwnFinite, OwnDisjoint DEF Typing
    <3>2. wpc'[v] = wpc[v] /\ cur'[v] = cur[v] /\ outstanding'[v] = outstanding[v]
      BY <1>1, <1>2, <1>t, <2>2 DEF Typing
    <3> QED  BY <3>1, <3>2, <1>t DEF WorkerHolds, HoldsAt, Own, Owner
  <2> QED  BY <2>1, <2>2
<1>6. Quiet'
  BY <1>2, <1>t DEF Quiet
<1>7. SingleCustody'
  BY <1>1, <1>2, <1>3, <1>c, <1>s, <1>t DEF SingleCustody, Typing, coordVars
<1>8. NothingDropped'
  BY <1>1, <1>2, <1>3, <1>c, <1>s, <1>t DEF NothingDropped, Typing, Queued
<1>9. OutstandingExact'
  <2> SUFFICES ASSUME NEW v \in Workers
               PROVE  outstanding'[v] = Cardinality(InUse(v)')
    BY DEF OutstandingExact
  <2>0. Own(v)' = Own(v) /\ Own(v) \subseteq Slots /\ IsFiniteSet(InUse(v))
    BY OwnFinite DEF Own, Owner, InUse
  <2>1. CASE v = w
    <3>1. InUse(w)' = InUse(w) \ {i} /\ i \in InUse(w)
      BY <2>0, <2>1, <1>1, <1>2, <1>3, <1>t DEF InUse, Typing
    <3>2. Cardinality(InUse(w)') = Cardinality(InUse(w)) - 1
      BY <3>1, <2>0, <2>1, FS_RemoveElement
    <3>3. outstanding'[w] = outstanding[w] - 1
      BY <1>1, <1>t DEF Typing
    <3> QED  BY <3>2, <3>3, <2>1, <1>t DEF OutstandingExact
  <2>2. CASE v # w
    <3>1. i \notin Own(v)
      BY <1>1, <2>2, OwnDisjoint
    <3>2. InUse(v)' = InUse(v)
      BY <3>1, <2>0, <2>2, <1>1, <1>2, <1>t DEF InUse, Typing
    <3> QED  BY <3>2, <2>2, <1>1, <1>t DEF OutstandingExact, Typing
  <2> QED  BY <2>1, <2>2
<1> QED  BY <1>4, <1>5, <1>6, <1>7, <1>8, <1>9, <1>c DEF IInv

\* What a coordinator's step leaves alone when it moves slots between Ready,
\* Processing and Done only.
LEMMA WorkerSide ==
  ASSUME IInv, UNCHANGED <<workerVars, mainVars>>, state' \in [Slots -> SlotStates],
         \A i \in Slots : state'[i] = state[i]
           \/ (state[i] = "Ready" /\ ~Submitting(i) /\ state'[i] = "Processing")
           \/ (state[i] = "Processing" /\ state'[i] = "Done")
  PROVE  WorkerHolds' /\ Quiet' /\ OutstandingExact' /\ \A i : Submitting(i)' <=> Submitting(i)
<1>t. WorkerHolds /\ OutstandingExact /\ Quiet
  BY DEF IInv
<1>1. \A w \in Workers : Own(w)' = Own(w) /\ Own(w) \subseteq Slots
  BY OwnFinite DEF Own, Owner
<1>2. WorkerHolds'
  <2> SUFFICES ASSUME NEW w \in Workers
               PROVE  HoldsAt(w)'
    BY DEF WorkerHolds
  <2>1. HoldsAt(w) /\ wpc'[w] = wpc[w] /\ cur'[w] = cur[w] /\ outstanding'[w] = outstanding[w]
    BY <1>t DEF WorkerHolds, workerVars
  <2>2. wpc[w] \in {"submit", "backoff"} => Submitting(cur[w])
    BY DEF Submitting
  <2> QED  BY <2>1, <2>2, <1>1 DEF HoldsAt
<1>3. Quiet'
  BY <1>t DEF Quiet, workerVars, mainVars
<1>4. OutstandingExact'
  <2>1. \A w \in Workers : InUse(w)' = InUse(w)
    BY <1>1 DEF InUse, workerVars
  <2> QED  BY <2>1, <1>t DEF OutstandingExact, workerVars
<1> QED  BY <1>2, <1>3, <1>4 DEF Submitting, workerVars

LEMMA PopHeadStep ==
  ASSUME IInv, NEW c \in Coordinators, PopHead(c)
  PROVE  IInv'
<1>t. Typing /\ CoordinatorHolds /\ SingleCustody /\ NothingDropped
  BY DEF IInv
<1> DEFINE p == ScannedQueue(c)
           i == Head(queue[p])
<1>p. p \in Queues
  <2>1. scan[c] \in Nat
    BY <1>t DEF Typing
  <2>2. c \in Nat
    BY DEF Coordinators
  <2> QED  BY <2>1, <2>2, QueueIndex DEF ScannedQueue
<1>1. /\ queue[p] # << >> /\ cpc[c] = "take"
      /\ hand' = [hand EXCEPT ![c] = i] /\ queue' = [queue EXCEPT ![p] = Tail(queue[p])]
      /\ cpc' = [cpc EXCEPT ![c] = "claim"]
      /\ UNCHANGED <<slotVars, nextQueue, workerVars, mainVars, scan, group, deferred>>
  BY DEF PopHead
<1> HIDE DEF p
<1>2. /\ i \in Slots /\ Tail(queue[p]) \in Seq(Slots)
      /\ ToSet(queue[p]) = ToSet(Tail(queue[p])) \cup {i}
      /\ IsInjective(Tail(queue[p])) /\ i \notin ToSet(Tail(queue[p]))
  BY <1>1, <1>p, <1>t, TailFacts DEF Typing, SingleCustody
<1> HIDE DEF i
<1>3. /\ \A q \in Queues : queue'[q] = IF q = p THEN Tail(queue[p]) ELSE queue[q]
      /\ \A d \in Coordinators : hand'[d] = IF d = c THEN i ELSE hand[d]
      /\ \A d \in Coordinators : cpc'[d] = IF d = c THEN "claim" ELSE cpc[d]
  BY <1>1, <1>t DEF Typing
<1>i. /\ state[i] = "Ready" /\ ~Submitting(i) /\ ~InHand(i)
      /\ \A q \in Queues : i \in ToSet(queue[q]) => q = p
      /\ hand[c] = NoSlot /\ NoSlot \notin Slots
  <2>1. i \in ToSet(queue[p])
    BY <1>2
  <2>2. NoSlot \notin Slots
    BY PipelineAssumption DEF Slots, NoSlot
  <2> QED  BY <2>1, <2>2, <1>1, <1>p, <1>t DEF SingleCustody, CoordinatorHolds
<1>4. Typing'
  BY <1>1, <1>2, <1>p, <1>t DEF Typing, CoordPcs, slotVars, workerVars
<1>5. WorkerHolds' /\ Quiet' /\ OutstandingExact' /\ \A j : Submitting(j)' <=> Submitting(j)
  BY <1>1, <1>t, WorkerSide DEF Typing, slotVars
<1>6. CoordinatorHolds'
  BY <1>1, <1>2, <1>3, <1>i, <1>t DEF CoordinatorHolds
<1>7. \A d \in Coordinators : LiveGroup(d)' = LiveGroup(d)
  BY <1>1, <1>3 DEF LiveGroup
<1>8. \A j : (Deferred(j)' <=> Deferred(j)) /\ (Grouped(j)' <=> Grouped(j))
  BY <1>1, <1>7 DEF Deferred, Grouped
<1>9. \A j : j # NoSlot => (InHand(j)' <=> InHand(j) \/ j = i)
  BY <1>3, <1>i DEF InHand
<1>10. SingleCustody'
  <2>1. \A q \in Queues : ToSet(queue'[q]) \subseteq ToSet(queue[q]) \ {i}
                        /\ IsInjective(queue'[q])
    BY <1>2, <1>3, <1>i, <1>t DEF SingleCustody
  <2>2. \A q \in Queues : NoSlot \notin ToSet(queue[q])
    <3>1. \A q \in Queues : queue[q] \in Seq(Slots)
      BY <1>t DEF Typing
    <3> QED  BY <3>1, <1>i DEF ToSet
  <2>3. \A q \in Queues :
          /\ IsInjective(queue'[q])
          /\ \A j \in ToSet(queue'[q]) :
               /\ state[j] = "Ready" /\ ~Submitting(j) /\ ~InHand(j)'
               /\ \A r \in Queues : j \in ToSet(queue'[r]) => r = q
    BY <2>1, <2>2, <1>9, <1>t DEF SingleCustody
  <2>4. \A d \in Coordinators : hand'[d] # NoSlot =>
          /\ state[hand'[d]] = "Ready" /\ ~Submitting(hand'[d])
          /\ \A e \in Coordinators : hand'[e] = hand'[d] => e = d
    BY <1>3, <1>i, <1>t DEF SingleCustody, InHand
  <2>5. \A d \in Coordinators : ~Submitting(hand[d])' <=> ~Submitting(hand'[d])
    BY <1>1 DEF Submitting, workerVars
  <2>6. SingleCustody
    BY <1>t
  <2> QED
    BY <2>3, <2>4, <2>5, <2>6, <1>1, <1>5, <1>7, <1>8 DEF SingleCustody, slotVars
<1>11. NothingDropped'
  <2>1. \A j \in Slots : Queued(j) => Queued(j)' \/ j = i
    BY <1>2, <1>3 DEF Queued
  <2>2. \A j \in Slots : (InHand(j) \/ j = i) => InHand(j)'
    BY <1>9, <1>i
  <2> QED  BY <2>1, <2>2, <1>1, <1>5, <1>8, <1>t DEF NothingDropped, slotVars
<1> QED  BY <1>4, <1>5, <1>6, <1>10, <1>11 DEF IInv

\* Claiming turns the popped Ready slot into a Processing one, in the group
\* or, if it does not fit there, in front of the deferred tasks.
LEMMA ClaimStep ==
  ASSUME IInv, NEW c \in Coordinators, Claim(c)
  PROVE  IInv'
<1>t. Typing /\ CoordinatorHolds /\ SingleCustody /\ NothingDropped
  BY DEF IInv
<1>n. cpc[c] = "claim" /\ NoSlot \notin Slots
  BY PipelineAssumption DEF Claim, Slots, NoSlot
<1>h. PICK i \in Slots : i = hand[c]
  BY <1>n, <1>t DEF CoordinatorHolds, Typing
<1>i. /\ cpc[c] = "claim" /\ i # NoSlot /\ NoSlot \notin Slots
      /\ state[i] = "Ready" /\ ~Submitting(i)
      /\ \A d \in Coordinators : hand[d] = i => d = c
  BY <1>n, <1>h, <1>t DEF SingleCustody, Submitting
<1>1. /\ state' = [state EXCEPT ![i] = "Processing"] /\ hand' = [hand EXCEPT ![c] = NoSlot]
      /\ scan' = [scan EXCEPT ![c] = 0]
      /\ UNCHANGED <<puzzles, dim, queueVars, workerVars, mainVars>>
  BY <1>i, <1>h DEF Claim
<1> DEFINE fits == Fits(c, i)
<1>2. /\ fits => /\ group' = [group EXCEPT ![c] = Append(group[c], i)]
                 /\ deferred' = deferred
                 /\ \/ cpc' = [cpc EXCEPT ![c] = "take"]
                    \/ cpc' = [cpc EXCEPT ![c] = "launch"]
      /\ ~fits => /\ group' = group /\ group[c] # << >>
                  /\ deferred' = [deferred EXCEPT ![c] = <<i>> \o deferred[c]]
                  /\ cpc' = [cpc EXCEPT ![c] = "launch"]
  <2>1. fits => /\ group' = [group EXCEPT ![c] = Append(group[c], i)]
                /\ deferred' = [deferred EXCEPT ![c] = deferred[c]]
                /\ \/ cpc' = [cpc EXCEPT ![c] = "take"]
                   \/ cpc' = [cpc EXCEPT ![c] = "launch"]
    BY <1>i, <1>h DEF Claim, Accept
  <2>2. [deferred EXCEPT ![c] = deferred[c]] = deferred
    BY <1>t DEF Typing
  <2>3. ~fits => /\ group' = group
                 /\ deferred' = [deferred EXCEPT ![c] = <<i>> \o deferred[c]]
                 /\ cpc' = [cpc EXCEPT ![c] = "launch"]
    BY <1>i, <1>h DEF Claim, Accept
  <2>4. ~fits => group[c] # << >>
    BY DEF Fits
  <2> QED  BY <2>1, <2>2, <2>3, <2>4
<1> HIDE DEF fits
<1>3. /\ group[c] \in Seq(Slots) /\ deferred[c] \in Seq(Slots)
      /\ \A d \in Coordinators : i \notin ToSet(LiveGroup(d)) /\ i \notin ToSet(deferred[d])
  BY <1>i, <1>t DEF SingleCustody, Typing
<1>4. /\ Append(group[c], i) \in Seq(Slots) /\ Append(group[c], i) # << >>
      /\ <<i>> \o deferred[c] \in Seq(Slots)
      /\ ToSet(Append(group[c], i)) = ToSet(group[c]) \cup {i}
      /\ ToSet(<<i>> \o deferred[c]) = ToSet(deferred[c]) \cup {i}
      /\ IsInjective(group[c]) /\ i \notin ToSet(group[c]) => IsInjective(Append(group[c], i))
      /\ IsInjective(deferred[c]) /\ i \notin ToSet(deferred[c]) =>
           IsInjective(<<i>> \o deferred[c])
  BY <1>3, <1>i, AppendFacts, ConsFacts
<1>5. /\ \A d \in Coordinators \ {c} : /\ group'[d] = group[d] /\ deferred'[d] = deferred[d]
                                       /\ cpc'[d] = cpc[d] /\ hand'[d] = hand[d]
      /\ hand'[c] = NoSlot /\ cpc'[c] \in {"take", "launch"}
      /\ fits => group'[c] = Append(group[c], i) /\ deferred'[c] = deferred[c]
      /\ ~fits => group'[c] = group[c] /\ deferred'[c] = <<i>> \o deferred[c]
      /\ \A j \in Slots : state'[j] = IF j = i THEN "Processing" ELSE state[j]
  BY <1>1, <1>2, <1>i, <1>t DEF Typing
<1>6. /\ LiveGroup(c) = group[c] /\ LiveGroup(c)' = group'[c]
      /\ \A d \in Coordinators \ {c} : LiveGroup(d)' = LiveGroup(d)
  BY <1>5, <1>i DEF LiveGroup
<1>7. Typing'
  <2>1. state' \in [Slots -> SlotStates] /\ hand' \in [Coordinators -> Slots \cup {NoSlot}]
        /\ scan' \in [Coordinators -> Nat] /\ cpc' \in [Coordinators -> CoordPcs]
    BY <1>1, <1>2, <1>t DEF Typing, SlotStates, CoordPcs
  <2>2. group' \in [Coordinators -> Seq(Slots)] /\ deferred' \in [Coordinators -> Seq(Slots)]
    BY <1>2, <1>4, <1>t DEF Typing
  <2> QED  BY <2>1, <2>2, <1>1, <1>t DEF Typing, queueVars, workerVars
<1>8. WorkerHolds' /\ Quiet' /\ OutstandingExact' /\ \A j : Submitting(j)' <=> Submitting(j)
  BY <1>1, <1>5, <1>7, <1>i, WorkerSide DEF Typing
<1>9. CoordinatorHolds'
  BY <1>2, <1>4, <1>5, <1>t DEF CoordinatorHolds
<1>10. /\ \A j : j # NoSlot => (InHand(j)' <=> InHand(j) /\ j # i)
       /\ \A j : Queued(j)' <=> Queued(j)
  BY <1>1, <1>5, <1>i, <1>h DEF InHand, Queued, queueVars
<1>11. \A d \in Coordinators, j \in Slots :
         /\ j \in ToSet(LiveGroup(d)') <=> j \in ToSet(LiveGroup(d)) \/ (fits /\ d = c /\ j = i)
         /\ j \in ToSet(deferred'[d]) <=> j \in ToSet(deferred[d]) \/ (~fits /\ d = c /\ j = i)
  BY <1>4, <1>5, <1>6
<1>12. \A d \in Coordinators : /\ ToSet(LiveGroup(d)') \subseteq Slots
                               /\ ToSet(deferred'[d]) \subseteq Slots
                               /\ IsInjective(LiveGroup(d)') /\ IsInjective(deferred'[d])
  <2>1. \A d \in Coordinators : ToSet(group'[d]) \subseteq Slots /\ ToSet(deferred'[d]) \subseteq Slots
    <3>1. \A d \in Coordinators : group'[d] \in Seq(Slots) /\ deferred'[d] \in Seq(Slots)
      BY <1>7 DEF Typing
    <3> QED  BY <3>1 DEF ToSet
  <2>2. \A d \in Coordinators \ {c} : ToSet(LiveGroup(d)) \subseteq Slots
    <3>1. \A d \in Coordinators : group[d] \in Seq(Slots)
      BY <1>t DEF Typing
    <3>2. \A d \in Coordinators : ToSet(group[d]) \subseteq Slots
      BY <3>1 DEF ToSet
    <3>3. \A d \in Coordinators : cpc[d] = "count" => ToSet(Tail(group[d])) \subseteq ToSet(group[d])
      BY <3>1, <1>t, TailFacts DEF CoordinatorHolds
    <3> QED  BY <3>2, <3>3 DEF LiveGroup
  <2>3. \A d \in Coordinators : IsInjective(LiveGroup(d)) /\ IsInjective(deferred[d])
    BY <1>t DEF SingleCustody
  <2>4. IsInjective(LiveGroup(c)') /\ IsInjective(deferred'[c])
    <3>1. /\ IsInjective(group[c]) /\ i \notin ToSet(group[c])
          /\ IsInjective(deferred[c]) /\ i \notin ToSet(deferred[c])
      BY <2>3, <1>3, <1>6
    <3>2. IsInjective(Append(group[c], i)) /\ IsInjective(<<i>> \o deferred[c])
      BY <3>1, <1>4
    <3>3. IsInjective(group'[c]) /\ IsInjective(deferred'[c])
      BY <3>1, <3>2, <1>5
    <3> QED  BY <3>3, <1>6
  <2>5. \A d \in Coordinators \ {c} : IsInjective(LiveGroup(d)') /\ IsInjective(deferred'[d])
    BY <2>3, <1>5, <1>6
  <2> QED  BY <2>1, <2>2, <2>4, <2>5, <1>6
<1>13. SingleCustody'
  <2>1. ASSUME NEW q \in Queues
        PROVE  /\ IsInjective(queue'[q])
               /\ \A j \in ToSet(queue'[q]) :
                    /\ state'[j] = "Ready" /\ ~Submitting(j)' /\ ~InHand(j)'
                    /\ \A r \in Queues : j \in ToSet(queue'[r]) => r = q
    <3>1. queue' = queue /\ InHand(i)
      BY <1>1, <1>h DEF queueVars, InHand
    <3>2. queue[q] \in Seq(Slots)
      BY <1>t DEF Typing
    <3>3. ToSet(queue[q]) \subseteq Slots
      BY <3>2 DEF ToSet
    <3> QED  BY <3>1, <3>3, <1>5, <1>8, <1>10, <1>i, <1>t DEF SingleCustody
  <2>2. ASSUME NEW d \in Coordinators, hand'[d] # NoSlot
        PROVE  /\ state'[hand'[d]] = "Ready" /\ ~Submitting(hand[d])'
               /\ \A e \in Coordinators : hand'[e] = hand'[d] => e = d
    <3>1. d # c /\ hand'[d] = hand[d] /\ hand[d] # i /\ hand[d] \in Slots
      BY <2>2, <1>5, <1>i, <1>t DEF Typing
    <3>2. ~Submitting(hand[d])
      BY <3>1, <1>i, <1>t DEF SingleCustody
    <3>3. ~Submitting(hand[d])'
      BY <3>1, <3>2, <1>1 DEF Submitting, workerVars
    <3>4. ASSUME NEW e \in Coordinators, hand'[e] = hand'[d]
          PROVE  e = d
      <4>1. e # c /\ hand'[e] = hand[e]
        BY <2>2, <3>4, <1>5
      <4>2. hand[d] # NoSlot /\ hand[e] = hand[d]
        BY <4>1, <3>1, <3>4, <1>i
      <4> QED  BY <4>2, <1>t DEF SingleCustody
    <3>5. state[hand[d]] = "Ready"
      BY <3>1, <1>i, <1>t DEF SingleCustody
    <3>6. state'[hand'[d]] = "Ready"
      BY <3>1, <3>5, <1>5
    <3> QED  BY <3>3, <3>4, <3>6
  <2>3. ASSUME NEW d \in Coordinators, NEW j \in ToSet(LiveGroup(d)')
        PROVE  /\ state'[j] = "Processing" /\ ~Deferred(j)'
               /\ \A e \in Coordinators : j \in ToSet(LiveGroup(e)') => e = d
    <3>1. j \in Slots
      BY <1>12
    <3>2. CASE j = i
      BY <3>1, <3>2, <1>3, <1>5, <1>11 DEF Deferred
    <3>3. CASE j # i
      <4>1. j \in ToSet(LiveGroup(d))
        BY <3>1, <3>3, <1>11
      <4>2. state[j] = "Processing" /\ ~Deferred(j)
            /\ \A e \in Coordinators : j \in ToSet(LiveGroup(e)) => e = d
        BY <4>1, <1>t DEF SingleCustody
      <4> QED  BY <4>2, <3>1, <3>3, <1>5, <1>11 DEF Deferred
    <3> QED  BY <3>2, <3>3
  <2>4. ASSUME NEW d \in Coordinators, NEW j \in ToSet(deferred'[d])
        PROVE  /\ state'[j] = "Processing"
               /\ \A e \in Coordinators : j \in ToSet(deferred'[e]) => e = d
    <3>1. j \in Slots
      BY <1>12
    <3>2. CASE j = i
      BY <3>1, <3>2, <1>3, <1>5, <1>11
    <3>3. CASE j # i
      <4>1. j \in ToSet(deferred[d])
        BY <3>1, <3>3, <1>11
      <4>2. state[j] = "Processing"
            /\ \A e \in Coordinators : j \in ToSet(deferred[e]) => e = d
        BY <4>1, <1>t DEF SingleCustody
      <4> QED  BY <4>2, <3>1, <3>3, <1>5, <1>11
    <3> QED  BY <3>2, <3>3
  <2> QED  BY <2>1, <2>2, <2>3, <2>4, <1>12 DEF SingleCustody
<1>14. NothingDropped'
  <2>1. \A j \in Slots : Grouped(j) => Grouped(j)'
    BY <1>11 DEF Grouped
  <2>2. \A j \in Slots : Deferred(j) => Deferred(j)'
    BY <1>11 DEF Deferred
  <2>3. Grouped(i)' \/ Deferred(i)'
    BY <1>11, <1>i DEF Grouped, Deferred
  <2> QED  BY <2>1, <2>2, <2>3, <1>5, <1>8, <1>10, <1>i, <1>t DEF NothingDropped
<1> QED  BY <1>7, <1>8, <1>9, <1>13, <1>14 DEF IInv

\* Steps that move no id in or out of a queue or a hand, as far as the first
\* half of SingleCustody goes.
LEMMA QueueSide ==
  ASSUME IInv, UNCHANGED <<queue, hand>>,
         \A j \in Slots : state'[j] = "Ready" <=> state[j] = "Ready",
         \A j : Submitting(j)' <=> Submitting(j),
         \A d \in Coordinators :
           /\ IsInjective(LiveGroup(d)')
           /\ \A j \in ToSet(LiveGroup(d)') :
                /\ state'[j] = "Processing" /\ ~Deferred(j)'
                /\ \A e \in Coordinators : j \in ToSet(LiveGroup(e)') => e = d,
         \A d \in Coordinators :
           /\ IsInjective(deferred'[d])
           /\ \A j \in ToSet(deferred'[d]) :
                /\ state'[j] = "Processing"
                /\ \A e \in Coordinators : j \in ToSet(deferred'[e]) => e = d
  PROVE  /\ SingleCustody'
         /\ \A j : (InHand(j)' <=> InHand(j)) /\ (Queued(j)' <=> Queued(j))
<1>1. \A j : (InHand(j)' <=> InHand(j)) /\ (Queued(j)' <=> Queued(j))
  BY DEF InHand, Queued
<1>2. /\ \A q \in Queues : ToSet(queue[q]) \subseteq Slots
      /\ \A d \in Coordinators : hand[d] # NoSlot => hand[d] \in Slots
  <2>1. /\ \A q \in Queues : queue[q] \in Seq(Slots)
        /\ \A d \in Coordinators : hand[d] \in Slots \cup {NoSlot}
    BY DEF IInv, Typing
  <2> QED  BY <2>1 DEF ToSet
<1>3. SingleCustody
  BY DEF IInv
<1>4. \A d \in Coordinators : Submitting(hand[d])' <=> Submitting(hand[d])
  OBVIOUS
<1>5. \A q \in Queues :
        /\ IsInjective(queue'[q])
        /\ \A j \in ToSet(queue'[q]) :
             /\ state'[j] = "Ready" /\ ~Submitting(j)' /\ ~InHand(j)'
             /\ \A r \in Queues : j \in ToSet(queue'[r]) => r = q
  BY <1>1, <1>2, <1>3 DEF SingleCustody
<1>6. \A d \in Coordinators : hand'[d] # NoSlot =>
        /\ state'[hand'[d]] = "Ready" /\ ~Submitting(hand[d])'
        /\ \A e \in Coordinators : hand'[e] = hand'[d] => e = d
  BY <1>2, <1>3, <1>4 DEF SingleCustody
<1> QED  BY <1>1, <1>5, <1>6 DEF SingleCustody

LEMMA TakeDeferredStep ==
  ASSUME IInv, NEW c \in Coordinators, TakeDeferred(c)
  PROVE  IInv'
<1>t. Typing /\ CoordinatorHolds /\ SingleCustody /\ NothingDropped
  BY DEF IInv
<1>d. cpc[c] = "take" /\ deferred[c] \in Seq(Slots) /\ deferred[c] # << >>
  BY <1>t DEF TakeDeferred, Typing
<1>h. PICK i \in Slots : i = Head(deferred[c])
  BY <1>d, TailFacts
<1>u. /\ UNCHANGED <<state, puzzles, dim, queueVars, workerVars, mainVars, hand>>
      /\ scan' = [scan EXCEPT ![c] = 0]
  BY DEF TakeDeferred, slotVars
<1>1. CASE ~Fits(c, i)
  <2>1. group[c] # << >>
    BY <1>1 DEF Fits
  <2>2. cpc' = [cpc EXCEPT ![c] = "launch"] /\ group' = group
        /\ deferred' = [deferred EXCEPT ![c] = deferred[c]]
    BY <1>1, <1>h DEF TakeDeferred, Accept
  <2>3. deferred' = deferred /\ scan' \in [Coordinators -> Nat]
    BY <2>2, <1>u, <1>t DEF Typing
  <2>4. cpc' \in [Coordinators -> CoordPcs] /\ cpc'[c] = "launch"
        /\ \A d \in Coordinators \ {c} : cpc'[d] = cpc[d]
    BY <2>2, <1>t DEF Typing, CoordPcs
  <2> QED  BY <2>1, <2>2, <2>3, <2>4, <1>d, <1>u, CoordinatorFrame
<1>2. CASE Fits(c, i)
  <2>1. /\ group' = [group EXCEPT ![c] = Append(group[c], i)]
        /\ deferred' = [deferred EXCEPT ![c] = Tail(deferred[c])]
        /\ \/ cpc' = [cpc EXCEPT ![c] = "take"]
           \/ cpc' = [cpc EXCEPT ![c] = "launch"]
    BY <1>2, <1>h DEF TakeDeferred, Accept
  <2>2. /\ LiveGroup(c) = group[c] /\ group[c] \in Seq(Slots)
        /\ IsInjective(group[c]) /\ IsInjective(deferred[c])
        /\ i \in ToSet(deferred[c]) /\ state[i] = "Processing"
        /\ \A d \in Coordinators : i \in ToSet(deferred[d]) => d = c
        /\ \A d \in Coordinators : i \notin ToSet(LiveGroup(d))
    <3>1. group[c] \in Seq(Slots) /\ LiveGroup(c) = group[c]
      BY <1>d, <1>t DEF Typing, LiveGroup
    <3>2. i \in ToSet(deferred[c])
      BY <1>h, <1>d, TailFacts
    <3>3. Deferred(i)
      BY <3>2 DEF Deferred
    <3> QED  BY <3>1, <3>2, <3>3, <1>t DEF SingleCustody
  <2>3. /\ Append(group[c], i) \in Seq(Slots) /\ Append(group[c], i) # << >>
        /\ ToSet(Append(group[c], i)) = ToSet(group[c]) \cup {i}
        /\ IsInjective(Append(group[c], i))
        /\ Tail(deferred[c]) \in Seq(Slots)
        /\ ToSet(Tail(deferred[c])) = ToSet(deferred[c]) \ {i}
        /\ IsInjective(Tail(deferred[c]))
    <3>1. i \notin ToSet(group[c])
      BY <2>2
    <3> QED  BY <3>1, <2>2, <1>d, <1>h, AppendFacts, TailFacts
  <2>4. /\ \A d \in Coordinators \ {c} : /\ group'[d] = group[d] /\ deferred'[d] = deferred[d]
                                         /\ cpc'[d] = cpc[d]
        /\ cpc'[c] \in {"take", "launch"}
        /\ group'[c] = Append(group[c], i) /\ deferred'[c] = Tail(deferred[c])
    BY <2>1, <1>t DEF Typing
  <2>5. /\ LiveGroup(c)' = group'[c]
        /\ \A d \in Coordinators \ {c} : LiveGroup(d)' = LiveGroup(d)
    BY <2>4 DEF LiveGroup
  <2>6. Typing'
    <3>1. cpc' \in [Coordinators -> CoordPcs] /\ scan' \in [Coordinators -> Nat]
      BY <2>1, <1>u, <1>t DEF Typing, CoordPcs
    <3>2. group' \in [Coordinators -> Seq(Slots)] /\ deferred' \in [Coordinators -> Seq(Slots)]
      BY <2>1, <2>3, <1>t DEF Typing
    <3> QED  BY <3>1, <3>2, <1>u, <1>t DEF Typing, queueVars, workerVars
  <2>7. WorkerHolds' /\ Quiet' /\ OutstandingExact' /\ \A j : Submitting(j)' <=> Submitting(j)
    BY <1>u, <2>6, WorkerSide DEF Typing
  <2>8. CoordinatorHolds'
    BY <2>3, <2>4, <1>u, <1>d, <1>t DEF CoordinatorHolds
  <2>9. \A d \in Coordinators : \A j :
          /\ j \in ToSet(LiveGroup(d)') <=> j \in ToSet(LiveGroup(d)) \/ (d = c /\ j = i)
          /\ j \in ToSet(deferred'[d]) <=> j \in ToSet(deferred[d]) /\ ~(d = c /\ j = i)
    BY <2>2, <2>3, <2>4, <2>5
  <2>10. \A d \in Coordinators : IsInjective(LiveGroup(d)') /\ IsInjective(deferred'[d])
    <3>1. \A d \in Coordinators : IsInjective(LiveGroup(d)) /\ IsInjective(deferred[d])
      BY <1>t DEF SingleCustody
    <3> QED  BY <3>1, <2>3, <2>4, <2>5
  <2>11. ASSUME NEW d \in Coordinators, NEW j \in ToSet(LiveGroup(d)')
         PROVE  /\ state'[j] = "Processing" /\ ~Deferred(j)'
                /\ \A e \in Coordinators : j \in ToSet(LiveGroup(e)') => e = d
    <3>1. CASE j = i
      BY <3>1, <2>2, <2>9, <1>u DEF Deferred
    <3>2. CASE j # i
      <4>1. j \in ToSet(LiveGroup(d))
        BY <3>2, <2>9
      <4>2. state[j] = "Processing" /\ ~Deferred(j)
            /\ \A e \in Coordinators : j \in ToSet(LiveGroup(e)) => e = d
        BY <4>1, <1>t DEF SingleCustody
      <4> QED  BY <4>2, <3>2, <2>9, <1>u DEF Deferred
    <3> QED  BY <3>1, <3>2
  <2>12. ASSUME NEW d \in Coordinators, NEW j \in ToSet(deferred'[d])
         PROVE  /\ state'[j] = "Processing"
                /\ \A e \in Coordinators : j \in ToSet(deferred'[e]) => e = d
    <3>1. j \in ToSet(deferred[d])
      BY <2>9
    <3>2. state[j] = "Processing"
          /\ \A e \in Coordinators : j \in ToSet(deferred[e]) => e = d
      BY <3>1, <1>t DEF SingleCustody
    <3> QED  BY <3>2, <2>9, <1>u
  <2>13. SingleCustody' /\ \A j : (InHand(j)' <=> InHand(j)) /\ (Queued(j)' <=> Queued(j))
    BY <2>7, <2>10, <2>11, <2>12, <1>u, QueueSide DEF queueVars
  <2>14. NothingDropped'
    <3>1. \A j : Grouped(j) \/ Deferred(j) => Grouped(j)' \/ Deferred(j)'
      BY <2>9 DEF Grouped, Deferred
    <3> QED  BY <3>1, <2>7, <2>13, <1>u, <1>t DEF NothingDropped
  <2> QED  BY <2>6, <2>7, <2>8, <2>13, <2>14 DEF IInv
<1> QED  BY <1>1, <1>2

\* markDone takes the head of the group out of custody.
LEMMA ScatterStep ==
  ASSUME IInv, NEW c \in Coordinators, Scatter(c)
  PROVE  IInv'
<1>t. Typing /\ CoordinatorHolds /\ SingleCustody /\ NothingDropped
  BY DEF IInv
<1>g. cpc[c] = "scatter" /\ group[c] \in Seq(Slots) /\ group[c] # << >>
  BY <1>t DEF Scatter, Typing, CoordinatorHolds
<1>h. PICK i \in Slots : i = Head(group[c])
  BY <1>g, TailFacts
<1>1. /\ state[i] = "Processing" /\ state' = [state EXCEPT ![i] = "Done"]
      /\ cpc' = [cpc EXCEPT ![c] = "count"]
      /\ UNCHANGED <<dim, puzzles, queueVars, workerVars, mainVars, scan, hand, group, deferred>>
  BY <1>h DEF Scatter
<1>2. /\ LiveGroup(c) = group[c] /\ LiveGroup(c)' = Tail(group[c])
      /\ \A d \in Coordinators \ {c} : cpc'[d] = cpc[d] /\ LiveGroup(d)' = LiveGroup(d)
      /\ cpc'[c] = "count"
      /\ \A j \in Slots : state'[j] = IF j = i THEN "Done" ELSE state[j]
  <2>1. /\ \A d \in Coordinators \ {c} : cpc'[d] = cpc[d]
        /\ cpc'[c] = "count"
        /\ \A j \in Slots : state'[j] = IF j = i THEN "Done" ELSE state[j]
    BY <1>1, <1>t DEF Typing
  <2> QED  BY <2>1, <1>1, <1>g DEF LiveGroup
<1>3. /\ ToSet(group[c]) = ToSet(Tail(group[c])) \cup {i} /\ i \notin ToSet(Tail(group[c]))
      /\ IsInjective(Tail(group[c]))
  <2>1. IsInjective(group[c])
    BY <1>2, <1>t DEF SingleCustody
  <2> QED  BY <2>1, <1>g, <1>h, TailFacts
<1>4. /\ ~Deferred(i)
      /\ \A d \in Coordinators : i \in ToSet(LiveGroup(d)) => d = c
  BY <1>2, <1>3, <1>t DEF SingleCustody
<1>5. \A d \in Coordinators : \A j :
        j \in ToSet(LiveGroup(d)') <=> j \in ToSet(LiveGroup(d)) /\ j # i
  BY <1>2, <1>3, <1>4
<1>6. \A d \in Coordinators : /\ ToSet(LiveGroup(d)') \subseteq Slots
                              /\ ToSet(deferred[d]) \subseteq Slots
  <2>1. \A d \in Coordinators : group[d] \in Seq(Slots) /\ deferred[d] \in Seq(Slots)
    BY <1>t DEF Typing
  <2>2. \A d \in Coordinators : cpc'[d] = "count" => group[d] # << >>
    BY <1>2, <1>g, <1>t DEF CoordinatorHolds
  <2>3. \A d \in Coordinators : LiveGroup(d)' \in Seq(Slots)
    BY <2>1, <2>2, <1>1 DEF LiveGroup
  <2> QED  BY <2>1, <2>3 DEF ToSet
<1>7. Typing'
  BY <1>1, <1>t DEF Typing, SlotStates, CoordPcs, queueVars, workerVars
<1>8. WorkerHolds' /\ Quiet' /\ OutstandingExact' /\ \A j : Submitting(j)' <=> Submitting(j)
  BY <1>1, <1>2, <1>7, WorkerSide DEF Typing
<1>9. CoordinatorHolds'
  BY <1>1, <1>2, <1>g, <1>t DEF CoordinatorHolds
<1>10. \A d \in Coordinators : IsInjective(LiveGroup(d)') /\ IsInjective(deferred'[d])
  <2>1. \A d \in Coordinators : IsInjective(LiveGroup(d)) /\ IsInjective(deferred[d])
    BY <1>t DEF SingleCustody
  <2> QED  BY <2>1, <1>1, <1>2, <1>3
<1>11. ASSUME NEW d \in Coordinators, NEW j \in ToSet(LiveGroup(d)')
       PROVE  /\ state'[j] = "Processing" /\ ~Deferred(j)'
              /\ \A e \in Coordinators : j \in ToSet(LiveGroup(e)') => e = d
  <2>1. j \in ToSet(LiveGroup(d)) /\ j # i /\ j \in Slots
    BY <1>5, <1>6
  <2>2. state[j] = "Processing" /\ ~Deferred(j)
        /\ \A e \in Coordinators : j \in ToSet(LiveGroup(e)) => e = d
    BY <2>1, <1>t DEF SingleCustody
  <2> QED  BY <2>1, <2>2, <1>1, <1>2, <1>5 DEF Deferred
<1>12. ASSUME NEW d \in Coordinators, NEW j \in ToSet(deferred'[d])
       PROVE  /\ state'[j] = "Processing"
              /\ \A e \in Coordinators : j \in ToSet(deferred'[e]) => e = d
  <2>1. j \in ToSet(deferred[d]) /\ j \in Slots /\ j # i
    BY <1>1, <1>4, <1>6 DEF Deferred
  <2>2. state[j] = "Processing"
        /\ \A e \in Coordinators : j \in ToSet(deferred[e]) => e = d
    BY <2>1, <1>t DEF SingleCustody
  <2> QED  BY <2>1, <2>2, <1>1, <1>2
<1>13. SingleCustody' /\ \A j : (InHand(j)' <=> InHand(j)) /\ (Queued(j)' <=> Queued(j))
  BY <1>1, <1>2, <1>8, <1>10, <1>11, <1>12, QueueSide DEF queueVars
<1>14. NothingDropped'
  <2>1. \A j \in Slots : j # i => (Grouped(j)' <=> Grouped(j)) /\ (Deferred(j)' <=> Deferred(j))
    BY <1>1, <1>5 DEF Grouped, Deferred
  <2> QED  BY <2>1, <1>2, <1>8, <1>13, <1>t DEF NothingDropped
<1> QED  BY <1>7, <1>8, <1>9, <1>13, <1>14 DEF IInv

LEMMA CountBatchStep ==
  ASSUME IInv, NEW c \in Coordinators, CountBatch(c)
  PROVE  IInv'
<1>t. Typing /\ CoordinatorHolds /\ SingleCustody /\ NothingDropped
  BY DEF IInv
<1>g. cpc[c] = "count" /\ group[c] \in Seq(Slots) /\ group[c] # << >>
  BY <1>t DEF CountBatch, Typing, CoordinatorHolds
<1>1. /\ group' = [group EXCEPT ![c] = Tail(group[c])]
      /\ cpc' = [cpc EXCEPT ![c] = IF Len(group[c]) > 1 THEN "scatter" ELSE "renotify"]
      /\ UNCHANGED <<slotVars, queueVars, workerVars, mainVars, scan, hand, deferred>>
  BY DEF CountBatch
<1>2. /\ Tail(group[c]) \in Seq(Slots)
      /\ Len(group[c]) > 1 <=> Tail(group[c]) # << >>
  <2>1. Tail(group[c]) \in Seq(Slots) /\ Len(Tail(group[c])) = Len(group[c]) - 1
    BY <1>g
  <2>2. \A s \in Seq(Slots) : s # << >> <=> Len(s) > 0
    OBVIOUS
  <2>3. Len(group[c]) \in Nat
    BY <1>g
  <2>4. Tail(group[c]) # << >> <=> Len(Tail(group[c])) > 0
    BY <2>1, <2>2
  <2> QED  BY <2>1, <2>3, <2>4
<1>3. /\ group'[c] = Tail(group[c])
      /\ cpc'[c] = IF Len(group[c]) > 1 THEN "scatter" ELSE "renotify"
      /\ \A d \in Coordinators \ {c} : group'[d] = group[d] /\ cpc'[d] = cpc[d]
  BY <1>1, <1>t DEF Typing
<1>4. \A d \in Coordinators : LiveGroup(d)' = LiveGroup(d)
  BY <1>3, <1>g DEF LiveGroup
<1>5. Typing'
  <2>1. group' \in [Coordinators -> Seq(Slots)]
    BY <1>1, <1>2, <1>t DEF Typing
  <2>2. cpc' \in [Coordinators -> CoordPcs]
    BY <1>1, <1>t DEF Typing, CoordPcs
  <2> QED  BY <2>1, <2>2, <1>1, <1>t DEF Typing, slotVars, queueVars, workerVars
<1>6. WorkerHolds' /\ Quiet' /\ OutstandingExact' /\ \A j : Submitting(j)' <=> Submitting(j)
  BY <1>1, <1>5, WorkerSide DEF Typing, slotVars
<1>7. CoordinatorHolds'
  <2>1. cpc'[c] = "scatter" => group'[c] # << >>
    BY <1>2, <1>3
  <2>2. cpc'[c] = "renotify" => group'[c] = << >>
    BY <1>2, <1>3
  <2>3. cpc'[c] \in {"scatter", "renotify"} /\ hand' = hand /\ deferred' = deferred
    BY <1>1, <1>3
  <2> QED  BY <2>1, <2>2, <2>3, <1>3, <1>g, <1>t DEF CoordinatorHolds
<1>8. \A j : (Deferred(j)' <=> Deferred(j)) /\ (Grouped(j)' <=> Grouped(j))
  BY <1>1, <1>4 DEF Deferred, Grouped
<1>9. SingleCustody' /\ \A j : (InHand(j)' <=> InHand(j)) /\ (Queued(j)' <=> Queued(j))
  BY <1>1, <1>4, <1>6, <1>8, <1>t, QueueSide DEF SingleCustody, slotVars, queueVars
<1>10. NothingDropped'
  BY <1>1, <1>6, <1>8, <1>9, <1>t DEF NothingDropped, slotVars
<1> QED  BY <1>5, <1>6, <1>7, <1>9, <1>10 DEF IInv

-----------------------------------------------------------------------------
(* The theorems.                                                           *)

LEMMA NextIInv == IInv /\ [Next]_vars => IInv'
<1> SUFFICES ASSUME IInv, [Next]_vars
             PROVE  IInv'
  OBVIOUS
<1>1. ASSUME NEW w \in Workers, Worker(w)
      PROVE  IInv'
  BY <1>1, IdleWorkerSteps, BeginFillingStep, MarkReadyStep, PushAcceptedStep, ProcessDoneStep
  DEF Worker
<1>2. ASSUME NEW c \in Coordinators, Coordinator(c)
      PROVE  IInv'
  BY <1>2, IdleCoordinatorSteps, TakeDeferredStep, PopHeadStep, ClaimStep, ScatterStep,
     CountBatchStep
  DEF Coordinator
<1>3. CASE Main
  BY <1>3, MainSteps DEF Main
<1>4. CASE UNCHANGED vars
  BY <1>4, MainSteps
<1> QED  BY <1>1, <1>2, <1>3, <1>4 DEF Next, Terminated

\* The invariant holds of every reachable state.
THEOREM Invariance == Spec => []IInv
<1> QED  BY InitIInv, NextIInv, PTL DEF Spec

\* The id of a slot is in one place only, so two coordinators never run the
\* same batch.
THEOREM Custody == Spec => []SingleCustody
<1> QED  BY Invariance, PTL DEF IInv

\* No id is lost between markReady and markDone.
THEOREM NothingLost == Spec => []NothingDropped
<1> QED  BY Invariance, PTL DEF IInv

LEMMA IdleIsEmpty == IInv => IdleWorkerOwnsNothing
<1> SUFFICES ASSUME IInv, NEW w \in Workers, wpc[w] = "idle"
             PROVE  outstanding[w] = 0 /\ \A i \in Own(w) : state[i] = "Empty"
  BY DEF IdleWorkerOwnsNothing
<1>1. HoldsAt(w) /\ outstanding[w] = 0 /\ cur[w] = NoSlot
  BY DEF IInv, WorkerHolds, HoldsAt
<1>2. InUse(w) = {}
  <2>1. IsFiniteSet(InUse(w)) /\ Cardinality(InUse(w)) = 0
    BY <1>1, OwnFinite DEF IInv, OutstandingExact, InUse
  <2> QED  BY <2>1, FS_EmptySet
<1>3. ASSUME NEW i \in Own(w)
      PROVE  state[i] = "Empty"
  <2>1. i \in Slots /\ i # NoSlot
    BY OwnFinite, PipelineAssumption DEF Slots, NoSlot
  <2>2. state[i] \in SlotStates /\ state[i] # "Filling"
    BY <2>1, <1>1 DEF IInv, Typing, HoldsAt
  <2>3. state[i] \notin {"Ready", "Processing", "Done"}
    BY <2>1, <1>1, <1>2 DEF InUse
  <2> QED  BY <2>2, <2>3 DEF SlotStates
<1> QED  BY <1>1, <1>3

\* `outstanding` is the number of slots the worker still has to read, and a
\* worker outside an expansion has a clean pool: the counter reaches zero only
\* when every slot has been read, not before.
THEOREM Accounting == Spec => []WorkersAccounted
<1>1. IInv => WorkersAccounted
  BY IdleIsEmpty DEF IInv, WorkersAccounted
<1> QED  BY <1>1, Invariance, PTL

\* Every slot has an owner among the workers.
LEMMA EverySlotOwned == \A i \in Slots : \E w \in Workers : i \in Own(w)
<1> SUFFICES ASSUME NEW i \in Slots
             PROVE  Owner(i) \in Workers
  BY DEF Own
<1> DEFINE q == Owner(i)
<1>1. /\ i \in Nat /\ i < NumWorkers * SlotsPerWorker
      /\ NumWorkers \in Nat /\ SlotsPerWorker \in Nat /\ SlotsPerWorker > 0
  <2>1. NumWorkers * SlotsPerWorker \in Nat
    BY PipelineAssumption
  <2> QED  BY <2>1, PipelineAssumption DEF Slots
<1>2. q \in Nat /\ q * SlotsPerWorker <= i
  BY <1>1 DEF Owner
<1> HIDE DEF q
<1>3. ASSUME q >= NumWorkers
      PROVE  FALSE
  <2>1. q * SlotsPerWorker >= NumWorkers * SlotsPerWorker
    BY <1>1, <1>2, <1>3
  <2>2. q * SlotsPerWorker \in Nat /\ NumWorkers * SlotsPerWorker \in Nat
    BY <1>1, <1>2
  <2> QED  BY <2>1, <2>2, <1>1, <1>2
<1>4. q \in 0 .. (NumWorkers - 1)
  BY <1>1, <1>2, <1>3
<1> QED  BY <1>4 DEF q, Workers

LEMMA NothingLeftBehind == IInv => NoWorkAbandoned
<1> SUFFICES ASSUME IInv
             PROVE  NoWorkAbandoned
  OBVIOUS
<1>1. \A c \in Coordinators : cpc[c] = "exited" =>
        hand[c] = NoSlot /\ group[c] = << >> /\ deferred[c] = << >>
  BY DEF IInv, CoordinatorHolds
<1>2. ASSUME main = "joined"
      PROVE  (\A q \in Queues : queue[q] = << >>) /\ \A i \in Slots : state[i] = "Empty"
  <2>1. \A w \in Workers : wpc[w] = "idle"
    BY <1>2 DEF IInv, Quiet
  <2>2. \A i \in Slots : state[i] = "Empty"
    BY <2>1, EverySlotOwned, IdleIsEmpty DEF IdleWorkerOwnsNothing
  <2>3. ASSUME NEW q \in Queues, queue[q] # << >>
        PROVE  FALSE
    <3>1. queue[q] \in Seq(Slots)
      BY DEF IInv, Typing
    <3>2. Head(queue[q]) \in Slots /\ Head(queue[q]) \in ToSet(queue[q])
      BY <3>1, <2>3, TailFacts
    <3>3. state[Head(queue[q])] = "Ready"
      BY <3>2 DEF IInv, SingleCustody
    <3> QED  BY <3>2, <3>3, <2>2
  <2> QED  BY <2>2, <2>3
<1> QED  BY <1>1, <1>2 DEF NoWorkAbandoned

\* When cleanupGpuPipeline frees the slots and the device buffers, nothing is
\* queued, held or running.
THEOREM NothingAbandoned == Spec => []NoWorkAbandoned
<1> QED  BY Invariance, NothingLeftBehind, PTL

\* The input of a batch is left alone from markReady to markDone.
InputKept(i) == /\ puzzles'[i] = puzzles[i] /\ dim'[i] = dim[i]
                /\ state'[i] \in {"Ready", "Processing", "Done"}

LEMMA FrozenStep ==
  ASSUME IInv, [Next]_vars, NEW i \in Slots, state[i] \in {"Ready", "Processing"}
  PROVE  InputKept(i)
<1> USE DEF InputKept
<1>t. state \in [Slots -> SlotStates] /\ DOMAIN puzzles = Slots /\ DOMAIN dim = Slots
  BY DEF IInv, Typing
<1>s. UNCHANGED <<state, puzzles, dim>> => InputKept(i)
  OBVIOUS
<1>1. ASSUME NEW w \in Workers, Worker(w)
      PROVE  InputKept(i)
  <2>1. CASE BeginFilling(w)
    <3>1. PICK j \in Own(w) : /\ state[j] = "Empty"
                              /\ state' = [state EXCEPT ![j] = "Filling"]
                              /\ dim' = [dim EXCEPT ![j] = wdim[w]]
                              /\ puzzles' = [puzzles EXCEPT ![j] = << >>]
      BY <2>1 DEF BeginFilling
    <3>2. i # j
      BY <3>1
    <3> QED  BY <3>1, <3>2, <1>t
  <2>2. CASE AppendPuzzle(w)
    <3>1. state[cur[w]] = "Filling"
      BY <2>2 DEF AppendPuzzle, IInv, WorkerHolds, HoldsAt
    <3>2. i # cur[w]
      BY <3>1
    <3> QED  BY <2>2, <3>2, <1>t DEF AppendPuzzle
  <2>3. CASE MarkReady(w)
    BY <2>3, <1>t DEF MarkReady
  <2>4. CASE ProcessDone(w)
    <3>1. PICK j \in Own(w) : /\ state[j] = "Done"
                              /\ state' = [state EXCEPT ![j] = "Empty"]
                              /\ puzzles' = [puzzles EXCEPT ![j] = << >>]
      BY <2>4 DEF ProcessDone
    <3>2. i # j
      BY <3>1
    <3> QED  BY <2>4, <3>1, <3>2, <1>t DEF ProcessDone
  <2>5. CASE \/ StartCall(w) \/ GiveUpFilling(w) \/ PushAccepted(w) \/ PushRefused(w)
             \/ RetryPush(w) \/ NotifySubmitted(w) \/ Return(w)
    BY <2>5, <1>s DEF StartCall, GiveUpFilling, PushAccepted, PushRefused, RetryPush,
       NotifySubmitted, Return, slotVars
  <2> QED  BY <1>1, <2>1, <2>2, <2>3, <2>4, <2>5 DEF Worker
<1>2. ASSUME NEW c \in Coordinators, Coordinator(c)
      PROVE  InputKept(i)
  <2>1. CASE Claim(c)
    BY <2>1, <1>t DEF Claim
  <2>2. CASE Scatter(c)
    BY <2>2, <1>t DEF Scatter
  <2>3. CASE \/ TakeDeferred(c) \/ PopHead(c) \/ SkipEmptyQueue(c) \/ FindNothing(c)
             \/ StopCheck(c) \/ StopCoalescing(c) \/ PollAgain(c) \/ EnterWait(c)
             \/ EvaluatePredicate(c) \/ Block(c) \/ SpuriousWakeup(c) \/ Launch(c)
             \/ CountBatch(c) \/ Renotify(c)
    BY <2>3, <1>s DEF TakeDeferred, PopHead, SkipEmptyQueue, FindNothing, StopCheck,
       StopCoalescing, PollAgain, EnterWait, EvaluatePredicate, Block, SpuriousWakeup,
       Launch, CountBatch, Renotify, slotVars
  <2> QED  BY <1>2, <2>1, <2>2, <2>3 DEF Coordinator
<1>3. CASE Main \/ UNCHANGED vars
  BY <1>3, <1>s DEF Main, StopPipeline, NotifyStop, Join, vars, slotVars
<1> QED  BY <1>1, <1>2, <1>3 DEF Next, Terminated

\* While a batch is Ready or Processing its input does not change.
THEOREM FrozenInput == Spec => InputFrozen
<1>1. IInv /\ [Next]_vars => [\A i \in Slots : state[i] \in {"Ready", "Processing"} => InputKept(i)]_vars
  BY FrozenStep
<1> QED  BY <1>1, Invariance, PTL DEF Spec, InputFrozen, InputKept

-----------------------------------------------------------------------------
(* What the slots contain: induction and concatenation.                    *)
(*                                                                         *)
(* Concatenation (FlattenSeq) is defined by recursion over the parts.      *)
(* These lemmas derive induction, for a set of numbers or of sequences,    *)
(* from the well-foundedness of < on Nat, and with it what the             *)
(* concatenation of sequences is.                                          *)

\* Induction over the naturals, for a set of them.
LEMMA SetInduction ==
  ASSUME NEW S, 0 \in S, \A n \in Nat : n \in S => n + 1 \in S
  PROVE  Nat \subseteq S
<1> DEFINE T == Nat \ S
           R == OpToRel(<, Nat)
<1>1. SUFFICES ASSUME T # {} PROVE FALSE
  OBVIOUS
<1>2. IsWellFoundedOn(R, Nat)
  BY NatLessThanWellFounded
<1>3. PICK n \in T : \A m \in T : ~(<<m, n>> \in R)
  <2> HIDE DEF R
  <2> QED  BY <1>1, <1>2, WFMin
<1>4. \A m \in T : ~(m < n)
  BY <1>3 DEF OpToRel
<1>5. n # 0 /\ n \in Nat
  BY <1>3
<1>6. n - 1 \in Nat /\ n - 1 < n /\ (n - 1) + 1 = n
  BY <1>5
<1>7. n - 1 \in S
  BY <1>4, <1>6
<1> QED  BY <1>3, <1>6, <1>7

\* f holds the concatenations of the parts of s from the first on.
Accumulates(f, s) ==
  f = [i \in 1 .. Len(s) |-> IF i = 1 THEN s[i] ELSE f[i - 1] \o s[i]]

LEMMA PrefixesExist ==
  ASSUME NEW X, NEW s \in Seq(X)
  PROVE  \E f : Accumulates(f, s)
<1> DEFINE Upto(f, n) == f = [i \in 1 .. n |-> IF i = 1 THEN s[i] ELSE f[i - 1] \o s[i]]
           S == {n \in Nat : \E f : Upto(f, n)}
<1>1. 0 \in S
  <2>1. Upto([i \in 1 .. 0 |-> IF i = 1 THEN s[i] ELSE [j \in 1 .. 0 |-> 0][i - 1] \o s[i]], 0)
    OBVIOUS
  <2> QED  BY <2>1
<1>2. ASSUME NEW n \in Nat, n \in S PROVE n + 1 \in S
  <2>1. PICK f : Upto(f, n)
    BY <1>2
  <2> DEFINE g == [i \in 1 .. n + 1 |-> IF i = 1 THEN s[i] ELSE f[i - 1] \o s[i]]
  <2>2. \A i \in 1 .. n + 1 : i # 1 => i - 1 \in 1 .. n
    OBVIOUS
  <2>3. \A j \in 1 .. n : g[j] = f[j]
    <3> SUFFICES ASSUME NEW j \in 1 .. n PROVE g[j] = f[j]
      OBVIOUS
    <3>1. g[j] = IF j = 1 THEN s[j] ELSE f[j - 1] \o s[j]
      OBVIOUS
    <3>2. [i \in 1 .. n |-> IF i = 1 THEN s[i] ELSE f[i - 1] \o s[i]][j]
            = IF j = 1 THEN s[j] ELSE f[j - 1] \o s[j]
      OBVIOUS
    <3> QED  BY <2>1, <3>1, <3>2
  <2>4. Upto(g, n + 1)
    BY <2>2, <2>3
  <2>5. \E h : Upto(h, n + 1)
    <3> HIDE DEF Upto, g
    <3> QED  BY <2>4
  <2> HIDE DEF Upto, g
  <2> QED  BY <2>5
<1>3. Len(s) \in S
  <2> HIDE DEF S
  <2> QED  BY <1>1, <1>2, SetInduction
<1> QED  BY <1>3 DEF Accumulates

LEMMA FlattenIsLast ==
  ASSUME NEW X, NEW s \in Seq(X), s # << >>
  PROVE  \E f : Accumulates(f, s) /\ FlattenSeq(s) = f[Len(s)]
<1> DEFINE f == CHOOSE g : g = [i \in 1 .. Len(s) |-> IF i = 1 THEN s[i] ELSE g[i - 1] \o s[i]]
<1>1. Accumulates(f, s)
  BY PrefixesExist DEF Accumulates
<1>2. FlattenSeq(s) = f[Len(s)]
  BY DEF FlattenSeq
<1> QED  BY <1>1, <1>2
\* The concatenations of the first n parts depend on these parts only.
SameStart(s, t) == /\ Len(s) \in Nat /\ Len(t) \in Nat /\ Len(t) <= Len(s)
                   /\ \A i \in 1 .. Len(t) : s[i] = t[i]

LEMMA PrefixesAgree ==
  ASSUME NEW s, NEW t, NEW f, NEW g, SameStart(s, t),
         Accumulates(f, s), Accumulates(g, t),
         NEW m \in 1 .. Len(t)
  PROVE  f[m] = g[m]
<1> DEFINE S == {n \in Nat : n + 1 <= Len(t) => f[n + 1] = g[n + 1]}
<1>0. Len(s) \in Nat /\ Len(t) \in Nat /\ Len(t) <= Len(s)
      /\ \A i \in 1 .. Len(t) : s[i] = t[i]
  BY DEF SameStart
<1>f. ASSUME NEW i \in 1 .. Len(s) PROVE f[i] = IF i = 1 THEN s[i] ELSE f[i - 1] \o s[i]
  <2>1. [j \in 1 .. Len(s) |-> IF j = 1 THEN s[j] ELSE f[j - 1] \o s[j]][i]
          = IF i = 1 THEN s[i] ELSE f[i - 1] \o s[i]
    OBVIOUS
  <2> QED  BY <2>1 DEF Accumulates
<1>g. ASSUME NEW i \in 1 .. Len(t) PROVE g[i] = IF i = 1 THEN t[i] ELSE g[i - 1] \o t[i]
  <2>1. [j \in 1 .. Len(t) |-> IF j = 1 THEN t[j] ELSE g[j - 1] \o t[j]][i]
          = IF i = 1 THEN t[i] ELSE g[i - 1] \o t[i]
    OBVIOUS
  <2> QED  BY <2>1 DEF Accumulates
<1>1. 0 \in S
  BY <1>0, <1>f, <1>g
<1>2. ASSUME NEW n \in Nat, n \in S PROVE n + 1 \in S
  <2> SUFFICES ASSUME n + 2 <= Len(t) PROVE f[n + 2] = g[n + 2]
    OBVIOUS
  <2>1. f[n + 1] = g[n + 1] /\ n + 2 \in 1 .. Len(t) /\ n + 2 \in 1 .. Len(s) /\ (n + 2) - 1 = n + 1
    BY <1>0, <1>2
  <2> DEFINE k == n + 2
  <2>2. k \in 1 .. Len(s) /\ k \in 1 .. Len(t) /\ k # 1
    BY <2>1
  <2> HIDE DEF k
  <2>3. f[k] = f[k - 1] \o s[k] /\ g[k] = g[k - 1] \o t[k]
    BY <2>2, <1>f, <1>g
  <2>4. k - 1 = n + 1 /\ s[k] = t[k]
    BY <2>2, <1>0 DEF k
  <2> QED  BY <2>1, <2>3, <2>4 DEF k
<1>3. Nat \subseteq S
  <2> HIDE DEF S
  <2> QED  BY <1>1, <1>2, SetInduction
<1>4. m - 1 \in S /\ (m - 1) + 1 = m
  <2>1. m - 1 \in Nat /\ (m - 1) + 1 = m
    BY <1>0
  <2> HIDE DEF S
  <2> QED  BY <1>3, <2>1
<1> QED  BY <1>0, <1>4

LEMMA AppendedSeq ==
  ASSUME NEW X, NEW s \in Seq(X), NEW x \in X
  PROVE  LET t == Append(s, x)
         IN  /\ t \in Seq(X) /\ t # << >> /\ Len(t) = Len(s) + 1 /\ Len(s) \in Nat
             /\ t[Len(t)] = x
             /\ \A i \in 1 .. Len(s) : t[i] = s[i]
OBVIOUS

LEMMA FlattenLonger ==
  ASSUME NEW Y, NEW s \in Seq(Y), NEW x \in Y, s # << >>
  PROVE  FlattenSeq(Append(s, x)) = FlattenSeq(s) \o x
<1> SUFFICES ASSUME NEW t, t = Append(s, x) PROVE FlattenSeq(t) = FlattenSeq(s) \o x
  OBVIOUS
<1>1. /\ t \in Seq(Y) /\ t # << >> /\ Len(t) = Len(s) + 1 /\ Len(s) \in Nat
      /\ t[Len(t)] = x
      /\ \A i \in 1 .. Len(s) : t[i] = s[i]
  BY AppendedSeq
<1>2. Len(s) \in 1 .. Len(s) /\ Len(s) <= Len(t) /\ Len(t) # 1 /\ Len(t) - 1 = Len(s)
      /\ Len(t) \in 1 .. Len(t) /\ Len(t) \in Nat
  BY <1>1
<1>3. PICK f : Accumulates(f, t) /\ FlattenSeq(t) = f[Len(t)]
  BY <1>1, FlattenIsLast
<1>4. PICK g : Accumulates(g, s) /\ FlattenSeq(s) = g[Len(s)]
  BY FlattenIsLast
<1>5. f[Len(s)] = g[Len(s)]
  <2>1. SameStart(t, s)
    BY <1>1, <1>2 DEF SameStart
  <2> QED  BY <2>1, <1>2, <1>3, <1>4, PrefixesAgree
<1>6. f[Len(t)] = f[Len(t) - 1] \o t[Len(t)]
  <2>1. [j \in 1 .. Len(t) |-> IF j = 1 THEN t[j] ELSE f[j - 1] \o t[j]][Len(t)]
          = f[Len(t) - 1] \o t[Len(t)]
    BY <1>2
  <2> QED  BY <1>3, <2>1 DEF Accumulates
<1> QED  BY <1>1, <1>2, <1>3, <1>4, <1>5, <1>6

LEMMA FlattenOne == ASSUME NEW X, NEW x \in Seq(X) PROVE FlattenSeq(<<x>>) = x
<1> DEFINE Y == Seq(X)
<1>1. <<x>> \in Seq(Y) /\ <<x>> # << >> /\ Len(<<x>>) = 1
  OBVIOUS
<1> HIDE DEF Y
<1>2. PICK f : Accumulates(f, <<x>>) /\ FlattenSeq(<<x>>) = f[Len(<<x>>)]
  BY <1>1, FlattenIsLast
<1>3. f[1] = x
  BY <1>1, <1>2 DEF Accumulates
<1> QED  BY <1>1, <1>2, <1>3

LEMMA FlattenAppend ==
  ASSUME NEW X, NEW s \in Seq(Seq(X)), NEW x \in Seq(X)
  PROVE  FlattenSeq(Append(s, x)) = FlattenSeq(s) \o x
<1>1. CASE s = << >>
  <2>1. FlattenSeq(s) = << >> /\ Append(s, x) = <<x>> /\ << >> \o x = x
    BY <1>1 DEF FlattenSeq
  <2> QED  BY <2>1, FlattenOne
<1>2. CASE s # << >>
  BY <1>2, FlattenLonger
<1> QED  BY <1>1, <1>2

LEMMA FlattenEmpty == FlattenSeq(<< >>) = << >>
BY DEF FlattenSeq

\* Induction over sequences, for a set of them.
LEMMA SequenceInduction ==
  ASSUME NEW X, NEW S, << >> \in S,
         \A s \in Seq(X), x \in X : s \in S => Append(s, x) \in S
  PROVE  Seq(X) \subseteq S
<1> DEFINE N == {n \in Nat : \A s \in Seq(X) : Len(s) = n => s \in S}
<1>1. 0 \in N
  OBVIOUS
<1>2. ASSUME NEW n \in Nat, n \in N PROVE n + 1 \in N
  <2> SUFFICES ASSUME NEW s \in Seq(X), Len(s) = n + 1 PROVE s \in S
    OBVIOUS
  <2> DEFINE front == SubSeq(s, 1, n)
  <2>1. front \in Seq(X) /\ Len(front) = n /\ s[n + 1] \in X /\ s = Append(front, s[n + 1])
    OBVIOUS
  <2>2. front \in S
    BY <1>2, <2>1
  <2> HIDE DEF front
  <2> QED  BY <2>1, <2>2
<1>3. Nat \subseteq N
  <2> HIDE DEF N
  <2> QED  BY <1>1, <1>2, SetInduction
<1>4. ASSUME NEW s \in Seq(X) PROVE s \in S
  <2>1. Len(s) \in N
    BY <1>3
  <2> QED  BY <2>1
<1> QED  BY <1>4

LEMMA FlattenType ==
  ASSUME NEW X, NEW s \in Seq(Seq(X))
  PROVE  FlattenSeq(s) \in Seq(X)
<1> DEFINE S == {t \in Seq(Seq(X)) : FlattenSeq(t) \in Seq(X)}
<1>1. << >> \in S
  <2>1. << >> \in Seq(Seq(X)) /\ << >> \in Seq(X)
    OBVIOUS
  <2> QED  BY <2>1, FlattenEmpty
<1>2. ASSUME NEW t \in Seq(Seq(X)), NEW x \in Seq(X), t \in S PROVE Append(t, x) \in S
  <2>1. FlattenSeq(t) \o x \in Seq(X) /\ Append(t, x) \in Seq(Seq(X))
    BY <1>2
  <2> QED  BY <2>1, FlattenAppend
<1>3. Seq(Seq(X)) \subseteq S
  <2> HIDE DEF S
  <2> QED  BY <1>1, <1>2, SequenceInduction
<1> QED  BY <1>3

LEMMA FlattenCons ==
  ASSUME NEW X, NEW x \in Seq(X), NEW s \in Seq(Seq(X))
  PROVE  FlattenSeq(<<x>> \o s) = x \o FlattenSeq(s)
<1> DEFINE S == {t \in Seq(Seq(X)) : FlattenSeq(<<x>> \o t) = x \o FlattenSeq(t)}
<1>1. << >> \in S
  <2>1. <<x>> \o << >> = Append(<< >>, x) /\ << >> \o x = x /\ x \o << >> = x
    OBVIOUS
  <2>2. << >> \in Seq(Seq(X))
    OBVIOUS
  <2>3. FlattenSeq(Append(<< >>, x)) = << >> \o x
    BY <2>2, FlattenAppend, FlattenEmpty
  <2> QED  BY <2>1, <2>2, <2>3, FlattenEmpty
<1>2. ASSUME NEW t \in Seq(Seq(X)), NEW y \in Seq(X), t \in S PROVE Append(t, y) \in S
  <2>1. Append(t, y) \in Seq(Seq(X)) /\ <<x>> \o t \in Seq(Seq(X))
        /\ <<x>> \o Append(t, y) = Append(<<x>> \o t, y)
    OBVIOUS
  <2>2. FlattenSeq(<<x>> \o Append(t, y)) = (x \o FlattenSeq(t)) \o y
    BY <1>2, <2>1, FlattenAppend
  <2>3. (x \o FlattenSeq(t)) \o y = x \o (FlattenSeq(t) \o y)
    <3>1. FlattenSeq(t) \in Seq(X)
      BY FlattenType
    <3> QED  BY <3>1, ConcatAssociative
  <2>4. FlattenSeq(Append(t, y)) = FlattenSeq(t) \o y
    BY FlattenAppend
  <2> QED  BY <2>1, <2>2, <2>3, <2>4
<1>3. Seq(Seq(X)) \subseteq S
  <2> HIDE DEF S
  <2> QED  BY <1>1, <1>2, SequenceInduction
<1> QED  BY <1>3

LEMMA ConcatLength ==
  ASSUME NEW X, NEW s \in Seq(X), NEW t \in Seq(X)
  PROVE  /\ Len(s \o t) = Len(s) + Len(t)
         /\ Len(s) \in Nat /\ Len(t) \in Nat
OBVIOUS

LEMMA FrontSeq ==
  ASSUME NEW X, NEW s \in Seq(X), NEW n \in Nat, Len(s) = n + 1
  PROVE  \E u \in Seq(X), x \in X :
           s = Append(u, x) /\ Len(u) = n /\ x = s[n + 1] /\ \A i \in 1 .. n : u[i] = s[i]
<1> DEFINE u == SubSeq(s, 1, n)
<1>1. u \in Seq(X) /\ Len(u) = n /\ s[n + 1] \in X /\ s = Append(u, s[n + 1])
      /\ \A i \in 1 .. n : u[i] = s[i]
  OBVIOUS
<1> HIDE DEF u
<1> QED  BY <1>1

LEMMA SameSeq ==
  ASSUME NEW X, NEW s \in Seq(X), NEW t \in Seq(X), Len(s) = Len(t),
         \A i \in 1 .. Len(t) : s[i] = t[i]
  PROVE  s = t
OBVIOUS

\* Concatenating empty parts gives nothing.
LEMMA FlattenNothing ==
  ASSUME NEW X, NEW s \in Seq(Seq(X)), \A i \in DOMAIN s : s[i] = << >>
  PROVE  FlattenSeq(s) = << >>
<1> DEFINE Y == Seq(X)
           S == {t \in Seq(Y) : (\A i \in 1 .. Len(t) : t[i] = << >>) => FlattenSeq(t) = << >>}
<1>1. << >> \in S
  BY FlattenEmpty
<1>2. ASSUME NEW t \in Seq(Y), NEW x \in Y, t \in S PROVE Append(t, x) \in S
  <2> DEFINE u == Append(t, x)
  <2>1. /\ u \in Seq(Y) /\ u # << >> /\ Len(u) = Len(t) + 1 /\ Len(t) \in Nat
        /\ u[Len(u)] = x
        /\ \A i \in 1 .. Len(t) : u[i] = t[i]
    <3> HIDE DEF Y
    <3> QED  BY AppendedSeq
  <2>2. FlattenSeq(u) = FlattenSeq(t) \o x
    BY FlattenAppend
  <2> HIDE DEF u, Y
  <2>3. ASSUME \A i \in 1 .. Len(u) : u[i] = << >> PROVE FlattenSeq(u) = << >>
    <3>1. x = << >> /\ \A i \in 1 .. Len(t) : t[i] = << >>
      BY <2>1, <2>3
    <3>2. FlattenSeq(t) = << >>
      BY <3>1, <1>2
    <3>3. << >> \o << >> = << >>
      OBVIOUS
    <3> QED  BY <2>2, <3>1, <3>2, <3>3
  <2> QED  BY <2>1, <2>3 DEF u
<1>3. Seq(Y) \subseteq S
  <2> HIDE DEF S, Y
  <2> QED  BY <1>1, <1>2, SequenceInduction
<1> QED  BY <1>3

LEMMA SumExchange ==
  ASSUME NEW p \in Nat, NEW a \in Nat, NEW b \in Nat
  PROVE  p + a + b = p + b + a
OBVIOUS

\* s and t are alike but for the part at k.
DifferAt(s, t, k) == /\ Len(s) = Len(t) /\ k \in 1 .. Len(t)
                     /\ \A i \in 1 .. Len(t) : i # k => s[i] = t[i]

\* Exchanging one part changes the length by the difference of the two parts.
LEMMA FlattenExchange ==
  ASSUME NEW X, NEW s \in Seq(Seq(X)), NEW t \in Seq(Seq(X)), NEW k, DifferAt(s, t, k)
  PROVE  Len(FlattenSeq(s)) + Len(t[k]) = Len(FlattenSeq(t)) + Len(s[k])
<1> DEFINE Y == Seq(X)
           P(u, v, j) == Len(FlattenSeq(v)) + Len(u[j]) = Len(FlattenSeq(u)) + Len(v[j])
           S == {u \in Seq(Y) : \A v \in Seq(Y), j \in 1 .. Len(u) :
                   Len(v) = Len(u) /\ (\A i \in 1 .. Len(u) : i # j => v[i] = u[i])
                     => P(u, v, j)}
<1>1. << >> \in S
  OBVIOUS
<1>2. ASSUME NEW a \in Seq(Y), NEW x \in Y, a \in S PROVE Append(a, x) \in S
  <2> SUFFICES ASSUME NEW u, u = Append(a, x),
                      NEW v \in Seq(Y), NEW j \in 1 .. Len(u), Len(v) = Len(u),
                      \A i \in 1 .. Len(u) : i # j => v[i] = u[i]
               PROVE  P(u, v, j)
    <3>1. Append(a, x) \in Seq(Y)
      OBVIOUS
    <3> HIDE DEF P
    <3> QED  BY <3>1
  <2>1. /\ u \in Seq(Y) /\ Len(u) = Len(a) + 1 /\ Len(a) \in Nat /\ u[Len(u)] = x
        /\ \A i \in 1 .. Len(a) : u[i] = a[i]
    <3> HIDE DEF Y
    <3> QED  BY AppendedSeq
  <2>2. PICK b \in Seq(Y), y \in Y :
           v = Append(b, y) /\ Len(b) = Len(a) /\ y = v[Len(a) + 1]
           /\ \A i \in 1 .. Len(a) : b[i] = v[i]
    <3>1. Len(a) \in Nat /\ Len(v) = Len(a) + 1
      BY <2>1
    <3> HIDE DEF Y, S
    <3> QED  BY <3>1, FrontSeq
  <2>3. FlattenSeq(u) = FlattenSeq(a) \o x /\ FlattenSeq(v) = FlattenSeq(b) \o y
    BY <2>2, FlattenAppend
  <2>4. FlattenSeq(a) \in Seq(X) /\ FlattenSeq(b) \in Seq(X)
    BY FlattenType
  <2>5. /\ Len(FlattenSeq(u)) = Len(FlattenSeq(a)) + Len(x)
        /\ Len(FlattenSeq(v)) = Len(FlattenSeq(b)) + Len(y)
        /\ Len(FlattenSeq(a)) \in Nat /\ Len(FlattenSeq(b)) \in Nat
        /\ Len(x) \in Nat /\ Len(y) \in Nat
    <3> HIDE DEF P, S
    <3> QED  BY <2>3, <2>4, ConcatLength
  <2>6. CASE j = Len(u)
    <3>1. \A i \in 1 .. Len(a) : i \in 1 .. Len(u) /\ i # j
      <4> HIDE DEF P, Y, S
      <4> QED  BY <2>1, <2>6
    <3>2. \A i \in 1 .. Len(a) : b[i] = a[i]
      BY <3>1, <2>1, <2>2
    <3>3. a = b
      <4> HIDE DEF Y, S
      <4> QED  BY <2>2, <3>2, SameSeq
    <3>4. u[j] = x /\ v[j] = y
      BY <2>1, <2>2, <2>6
    <3> HIDE DEF Y, S
    <3>5. (Len(FlattenSeq(a)) + Len(y)) + Len(x) = (Len(FlattenSeq(a)) + Len(x)) + Len(y)
      BY <2>5, SumExchange
    <3> QED  BY <2>5, <3>3, <3>4, <3>5, Zenon
  <2>7. CASE j # Len(u)
    <3>1. j \in 1 .. Len(a) /\ \A i \in 1 .. Len(a) : i \in 1 .. Len(u)
      <4> HIDE DEF P, Y, S
      <4> QED  BY <2>1, <2>7
    <3>2. x = y
      <4>1. Len(u) \in 1 .. Len(u)
        BY <2>1
      <4> QED  BY <4>1, <2>1, <2>2, <2>7
    <3>3. \A i \in 1 .. Len(a) : i # j => b[i] = a[i]
      BY <3>1, <2>1, <2>2
    <3>4. P(a, b, j)
      <4> HIDE DEF P, Y
      <4> QED  BY <1>2, <2>2, <3>1, <3>3
    <3>5. a[j] = u[j] /\ b[j] = v[j]
      BY <3>1, <2>1, <2>2
    <3>6. a[j] \in Y /\ b[j] \in Y
      <4> HIDE DEF Y, S
      <4> QED  BY <3>1, <2>2, ElementOfSeq
    <3>7. Len(a[j]) \in Nat /\ Len(b[j]) \in Nat
      <4> HIDE DEF P, S
      <4> QED  BY <3>6, ConcatLength
    <3> HIDE DEF Y, S
    <3>8. (Len(FlattenSeq(b)) + Len(x)) + Len(a[j]) = (Len(FlattenSeq(a)) + Len(x)) + Len(b[j])
      <4>1. Len(FlattenSeq(b)) + Len(a[j]) = Len(FlattenSeq(a)) + Len(b[j])
        BY <3>4, Zenon
      <4>2. PICK p \in Nat : p = Len(FlattenSeq(a))
        BY <2>5, Zenon
      <4>3. PICK q \in Nat : q = Len(FlattenSeq(b))
        BY <2>5, Zenon
      <4>4. PICK l \in Nat : l = Len(a[j])
        BY <3>7, Zenon
      <4>5. PICK m \in Nat : m = Len(b[j])
        BY <3>7, Zenon
      <4>6. PICK n \in Nat : n = Len(x)
        BY <2>5, Zenon
      <4>7. q + l = p + m
        BY <4>1, <4>2, <4>3, <4>4, <4>5, Zenon
      <4>8. (q + n) + l = (p + n) + m
        <5> HIDE DEF P, S, Y
        <5> QED  BY <4>7
      <4> QED  BY <4>2, <4>3, <4>4, <4>5, <4>6, <4>8, Zenon
    <3> QED  BY <3>2, <3>5, <3>8, <2>5, Zenon
  <2> QED  BY <2>6, <2>7
<1>3. Seq(Y) \subseteq S
  <2> HIDE DEF S, Y
  <2> QED  BY <1>1, <1>2, SequenceInduction
<1>4. P(t, s, k)
  <2> HIDE DEF P
  <2> QED  BY <1>3 DEF DifferAt
<1> QED  BY <1>4

-----------------------------------------------------------------------------
(* The batches of a group of slots.                                        *)

Gather(p, g) == [j \in DOMAIN g |-> p[g[j]]]

LEMMA GatherLen ==
  ASSUME NEW D, NEW p, NEW g \in Seq(D)
  PROVE  Len(Gather(p, g)) = Len(g)
<1>1. DOMAIN g = 1 .. Len(g) /\ Len(g) \in Nat
  OBVIOUS
<1> QED  BY <1>1 DEF Gather

LEMMA GatherType ==
  ASSUME NEW D, NEW Y, NEW p \in [D -> Y], NEW g \in Seq(D)
  PROVE  Gather(p, g) \in Seq(Y) /\ Len(Gather(p, g)) = Len(g)
<1>1. DOMAIN g = 1 .. Len(g) /\ Len(g) \in Nat /\ \A j \in 1 .. Len(g) : g[j] \in D
  OBVIOUS
<1>2. Gather(p, g) \in [1 .. Len(g) -> Y]
  BY <1>1 DEF Gather
<1>3. \A h \in [1 .. Len(g) -> Y] : h \in Seq(Y) /\ Len(h) = Len(g)
  BY <1>1
<1> QED  BY <1>2, <1>3

LEMMA GatherAppend ==
  ASSUME NEW D, NEW Y, NEW p \in [D -> Y], NEW g \in Seq(D), NEW i \in D
  PROVE  Gather(p, Append(g, i)) = Append(Gather(p, g), p[i])
<1> DEFINE G == Gather(p, g)
           H == Gather(p, Append(g, i))
<1>1. /\ Append(g, i) \in Seq(D) /\ Len(Append(g, i)) = Len(g) + 1 /\ Len(g) \in Nat
      /\ \A j \in 1 .. Len(g) : Append(g, i)[j] = g[j]
      /\ Append(g, i)[Len(g) + 1] = i
  OBVIOUS
<1>2. DOMAIN g = 1 .. Len(g) /\ DOMAIN Append(g, i) = 1 .. Len(g) + 1
  BY <1>1
<1>3. /\ \A j \in 1 .. Len(g) : H[j] = G[j]
      /\ H[Len(g) + 1] = p[i]
  <2>1. \A j \in 1 .. Len(g) : G[j] = p[g[j]]
    BY <1>2 DEF Gather
  <2>2. \A j \in 1 .. Len(g) + 1 : H[j] = p[Append(g, i)[j]]
    BY <1>2 DEF Gather
  <2>3. \A j \in 1 .. Len(g) : j \in 1 .. Len(g) + 1
    BY <1>1
  <2>4. Len(g) + 1 \in 1 .. Len(g) + 1
    BY <1>1
  <2> HIDE DEF G, H
  <2> QED  BY <1>1, <2>1, <2>2, <2>3, <2>4
<1>4. G \in Seq(Y) /\ H \in Seq(Y) /\ p[i] \in Y
  BY <1>1, GatherType
<1>5. Len(H) = Len(G) + 1 /\ Len(G) = Len(g)
  <2>1. \A u \in Seq(D) : Len(Gather(p, u)) = Len(u)
    BY GatherLen
  <2>2. Len(H) = Len(Append(g, i)) /\ Len(G) = Len(g)
    BY <2>1, <1>1, Zenon
  <2> HIDE DEF G, H
  <2> QED  BY <1>1, <2>2
<1> HIDE DEF G, H
<1>6. H = Append(G, p[i])
  BY <1>1, <1>3, <1>4, <1>5
<1> QED  BY <1>6 DEF G, H

LEMMA GatherCons ==
  ASSUME NEW D, NEW Y, NEW p \in [D -> Y], NEW g \in Seq(D), g # << >>
  PROVE  Gather(p, g) = <<p[Head(g)]>> \o Gather(p, Tail(g))
<1> DEFINE G == Gather(p, g)
           T == Gather(p, Tail(g))
<1>1. /\ Tail(g) \in Seq(D) /\ Len(Tail(g)) = Len(g) - 1 /\ Len(g) \in Nat \ {0}
      /\ \A j \in 1 .. Len(g) - 1 : Tail(g)[j] = g[j + 1]
      /\ Head(g) = g[1] /\ g[1] \in D
  OBVIOUS
<1>2. DOMAIN g = 1 .. Len(g) /\ DOMAIN Tail(g) = 1 .. Len(g) - 1
  BY <1>1
<1>3. G[1] = p[Head(g)] /\ \A j \in 1 .. Len(g) - 1 : G[j + 1] = T[j]
  <2>1. \A j \in 1 .. Len(g) : G[j] = p[g[j]]
    BY <1>2 DEF Gather
  <2>2. \A j \in 1 .. Len(g) - 1 : T[j] = p[Tail(g)[j]]
    BY <1>2 DEF Gather
  <2>3. 1 \in 1 .. Len(g) /\ \A j \in 1 .. Len(g) - 1 : j + 1 \in 1 .. Len(g)
    BY <1>1
  <2> HIDE DEF G, T
  <2> QED  BY <1>1, <2>1, <2>2, <2>3
<1>4. G \in Seq(Y) /\ T \in Seq(Y) /\ p[Head(g)] \in Y
  BY <1>1, GatherType
<1>5. Len(G) = Len(T) + 1 /\ Len(T) = Len(g) - 1
  <2>1. Len(G) = Len(g) /\ Len(T) = Len(Tail(g))
    BY <1>1, GatherLen
  <2> HIDE DEF G, T
  <2> QED  BY <1>1, <2>1
<1> HIDE DEF G, T
<1>6. G = <<p[Head(g)]>> \o T
  BY <1>1, <1>3, <1>4, <1>5
<1> QED  BY <1>6 DEF G, T

LEMMA GatherSame ==
  ASSUME NEW D, NEW g \in Seq(D), NEW p, NEW q, \A i \in ToSet(g) : p[i] = q[i]
  PROVE  Gather(p, g) = Gather(q, g)
BY DEF Gather, ToSet

LEMMA GatherOne ==
  ASSUME NEW D, NEW Y, NEW p \in [D -> Y], NEW i \in D
  PROVE  Gather(p, <<i>>) = <<p[i]>>
<1>1. DOMAIN <<i>> = {1} /\ <<i>>[1] = i
  OBVIOUS
<1>2. Gather(p, <<i>>) = [j \in {1} |-> p[i]]
  BY <1>1 DEF Gather
<1> QED  BY <1>2

-----------------------------------------------------------------------------
(* The slots of a worker.                                                  *)

LEMMA OwnInterval ==
  ASSUME NEW w \in Workers
  PROVE  Own(w) = (w * SlotsPerWorker) .. (w * SlotsPerWorker + SlotsPerWorker - 1)
<1> DEFINE S == SlotsPerWorker
           N == NumWorkers
<1>1. S \in Nat /\ S > 0 /\ N \in Nat /\ w \in Nat /\ w + 1 <= N
  BY PipelineAssumption DEF Workers
<1>m. \A a \in Nat, b \in Nat : a <= b => a * S <= b * S
  BY <1>1
<1>n. \A a \in Nat : a * S \in Nat /\ (a + 1) * S = a * S + S
  BY <1>1
<1>2. ASSUME NEW i \in Nat
      PROVE  /\ i \div S \in Nat /\ (i \div S) * S <= i /\ i < (i \div S) * S + S
  BY <1>1
<1> HIDE DEF S, N
<1>3. ASSUME NEW i \in Own(w)
      PROVE  i \in (w * S) .. (w * S + S - 1)
  <2>1. i \in Nat /\ i \div S = w
    BY <1>3 DEF Own, Owner, Slots, S
  <2>2. w * S <= i /\ i < w * S + S
    BY <2>1, <1>2
  <2>3. w * S \in Nat
    BY <1>1, <1>n
  <2> QED  BY <2>1, <2>2, <2>3, <1>1
<1>4. ASSUME NEW i \in (w * S) .. (w * S + S - 1)
      PROVE  i \in Own(w)
  <2>1. w * S \in Nat /\ i \in Nat /\ w * S <= i /\ i < w * S + S
    BY <1>1, <1>4, <1>n
  <2>2. N * S \in Nat /\ (w + 1) * S <= N * S /\ (w + 1) * S = w * S + S
    BY <1>1, <1>m, <1>n
  <2>3. i \in 0 .. (N * S - 1)
    BY <2>1, <2>2, <1>1
  <2> DEFINE q == i \div S
  <2>4. q \in Nat /\ q * S <= i /\ i < q * S + S
    BY <2>1, <1>2
  <2> HIDE DEF q
  <2>5. q * S \in Nat /\ (q + 1) * S = q * S + S
    BY <2>4, <1>n
  <2>6. ~(q + 1 <= w)
    <3>1. q + 1 <= w => (q + 1) * S <= w * S
      BY <1>1, <1>m, <2>4
    <3> QED  BY <3>1, <2>1, <2>4, <2>5, <1>1
  <2>7. ~(w + 1 <= q)
    <3>1. w + 1 <= q => (w + 1) * S <= q * S
      BY <1>1, <1>m, <2>4
    <3> QED  BY <3>1, <2>1, <2>2, <2>4, <2>5, <1>1
  <2>8. q = w
    BY <2>4, <2>6, <2>7, <1>1
  <2> QED  BY <2>3, <2>8 DEF Own, Owner, Slots, q, S, N
<1> QED  BY <1>3, <1>4 DEF S

LEMMA OwnCardinality ==
  ASSUME NEW w \in Workers
  PROVE  IsFiniteSet(Own(w)) /\ Cardinality(Own(w)) = SlotsPerWorker
<1>1. /\ w * SlotsPerWorker \in Int
      /\ w * SlotsPerWorker + SlotsPerWorker - 1 \in Int
      /\ SlotsPerWorker \in Nat \ {0}
      /\ (w * SlotsPerWorker + SlotsPerWorker - 1) - w * SlotsPerWorker + 1 = SlotsPerWorker
      /\ w * SlotsPerWorker <= w * SlotsPerWorker + SlotsPerWorker - 1
  BY PipelineAssumption DEF Workers
<1> QED  BY <1>1, OwnInterval, FS_Interval

-----------------------------------------------------------------------------
(* The invariant.                                                          *)

ContentTyping ==
  /\ dim     \in [Slots -> Dims \cup {NoDim}]
  /\ puzzles \in [Slots -> Seq(Candidate)]
  /\ results \in [Slots -> Seq(Candidate)]
  /\ calls \in [Workers -> 0 .. MaxCalls]
  /\ wdim  \in [Workers -> Dims \cup {NoDim}]
  /\ todo  \in [Workers -> 0 .. MaxPuzzles]
  /\ sent  \in [Workers -> 0 .. MaxPuzzles]
  /\ stopping  \in [Workers -> BOOLEAN]
  /\ delivered \in [Workers -> SUBSET (Candidate \X Candidate)]
  /\ scan   \in [Coordinators -> 0 .. NumCoordinators]
  /\ device \in [Coordinators -> Seq(Candidate)]
  /\ exactCount \in [Coordinators -> BOOLEAN]
  /\ lastSolved \in [Coordinators -> 0 .. Trials]
  /\ stopGpuWorker \in BOOLEAN

\* A slot holds a batch of its owner's current call, never too long for the
\* pinned buffers, nothing when it is Empty, something once it is submitted,
\* and the results of that very batch when it is Done.
BatchAt(i) ==
  /\ Len(puzzles[i]) <= Trials
  /\ state[i] = "Empty" => puzzles[i] = << >>
  /\ state[i] \in {"Ready", "Processing", "Done"} => puzzles[i] # << >>
  /\ state[i] = "Done" => results[i] = puzzles[i]
  /\ \A j \in DOMAIN puzzles[i] :
       puzzles[i][j].by = Owner(i) /\ puzzles[i][j].call = calls[Owner(i)]

SlotBatches == \A i \in Slots : BatchAt(i)

\* A worker takes a slot only for a candidate it still has to send, and stops
\* sending early only after a hit.
SendsAt(w) ==
  /\ sent[w] <= todo[w]
  /\ wpc[w] = "acquire" => sent[w] < todo[w]
  /\ wpc[w] = "fill" => ~stopping[w] /\ (sent[w] < todo[w] \/ puzzles[cur[w]] # << >>)
  /\ wpc[w] = "drain" /\ ~stopping[w] => sent[w] = todo[w]

Sends == \A w \in Workers : SendsAt(w)

\* The candidates of a call that are delivered or held, none of them twice.
Used(w)       == {d[1].n : d \in delivered[w]}
Held(i)       == {puzzles[i][j].n : j \in DOMAIN puzzles[i]}
OwnBatches(w) == [k \in 1 .. SlotsPerWorker |-> puzzles[w * SlotsPerWorker + k - 1]]

HeldOnce(w) ==
  /\ Used(w) \cup UNION {Held(i) : i \in Own(w)} = 1 .. sent[w]
  /\ \A i \in Own(w) : Used(w) \cap Held(i) = {}
  /\ \A i, k \in Own(w) : i # k => Held(i) \cap Held(k) = {}
  /\ \A i \in Own(w) : \A j, k \in DOMAIN puzzles[i] :
       puzzles[i][j].n = puzzles[i][k].n => j = k
  /\ Cardinality(Used(w)) + Len(FlattenSeq(OwnBatches(w))) = sent[w]

AllHeldOnce == \A w \in Workers : wpc[w] # "idle" /\ ~stopping[w] => HeldOnce(w)

\* The batches a coordinator has claimed and not given back fit one launch,
\* and during the launch the device holds their concatenation.
Batches(c) == Gather(puzzles, LiveGroup(c))

LaunchAt(c) ==
  /\ Len(deferred[c]) <= 1
  /\ cpc[c] = "claim" => deferred[c] = << >>
  /\ cpc[c] \in {"take", "claim", "launch"} =>
       /\ \A j \in DOMAIN group[c] : dim[group[c][j]] = dim[group[c][1]]
       /\ Total(group[c]) <= MaxTrials
  /\ cpc[c] \in {"scatter", "count"} => device[c] = FlattenSeq(Batches(c))

Launches == \A c \in Coordinators : LaunchAt(c)

Contents == ContentTyping /\ SlotBatches /\ Sends /\ AllHeldOnce /\ Launches /\ OwnResults

BInv == IInv /\ Contents

-----------------------------------------------------------------------------
(* The sizes of groups.                                                    *)

LEMMA TotalEmpty == Total(<< >>) = 0
<1>1. [j \in DOMAIN << >> |-> puzzles[<< >>[j]]] = << >>
  OBVIOUS
<1>2. Len(<< >>) = 0
  OBVIOUS
<1> QED  BY <1>1, <1>2, FlattenEmpty DEF Total

LEMMA TotalIs == \A g : Total(g) = Len(FlattenSeq(Gather(puzzles, g)))
BY DEF Total, Gather

LEMMA TotalAppend ==
  ASSUME puzzles \in [Slots -> Seq(Candidate)], NEW g \in Seq(Slots), NEW i \in Slots
  PROVE  /\ Total(Append(g, i)) = Total(g) + Len(puzzles[i])
         /\ Total(g) \in Nat /\ Len(puzzles[i]) \in Nat
<1> DEFINE Y == Seq(Candidate)
<1>1. puzzles \in [Slots -> Y] /\ puzzles[i] \in Y
  OBVIOUS
<1>2. Gather(puzzles, Append(g, i)) = Append(Gather(puzzles, g), puzzles[i])
      /\ Gather(puzzles, g) \in Seq(Y)
  <2> HIDE DEF Y
  <2> QED  BY <1>1, GatherAppend, GatherType
<1>3. FlattenSeq(Gather(puzzles, Append(g, i))) = FlattenSeq(Gather(puzzles, g)) \o puzzles[i]
  BY <1>1, <1>2, FlattenAppend
<1>4. FlattenSeq(Gather(puzzles, g)) \in Seq(Candidate)
  BY <1>2, FlattenType
<1>5. /\ Len(FlattenSeq(Gather(puzzles, Append(g, i))))
           = Len(FlattenSeq(Gather(puzzles, g))) + Len(puzzles[i])
      /\ Len(FlattenSeq(Gather(puzzles, g))) \in Nat /\ Len(puzzles[i]) \in Nat
  BY <1>1, <1>3, <1>4, ConcatLength
<1> HIDE DEF Y
<1> QED  BY <1>5, TotalIs

LEMMA OneSlotFits == \A n \in Nat : n <= Trials => n <= MaxTrials
<1>1. Trials \in Nat /\ LaunchSlots \in Nat /\ LaunchSlots >= 1
  BY PipelineAssumption
<1>2. MaxTrials >= Trials /\ MaxTrials \in Nat
  <2>1. 1 * Trials <= LaunchSlots * Trials
    BY <1>1
  <2> QED  BY <1>1, <2>1 DEF MaxTrials
<1> QED  BY <1>1, <1>2

-----------------------------------------------------------------------------
(* The initial states.                                                     *)

LEMMA InitBInv == Init => BInv
<1> SUFFICES ASSUME Init PROVE BInv
  OBVIOUS
<1>1. ContentTyping
  <2>1. /\ 0 \in 0 .. MaxCalls /\ 0 \in 0 .. MaxPuzzles /\ 0 \in 0 .. NumCoordinators
        /\ 0 \in 0 .. Trials /\ << >> \in Seq(Candidate)
    BY PipelineAssumption
  <2>2. /\ dim \in [Slots -> Dims \cup {NoDim}]
        /\ puzzles \in [Slots -> Seq(Candidate)] /\ results \in [Slots -> Seq(Candidate)]
        /\ wdim \in [Workers -> Dims \cup {NoDim}]
        /\ delivered \in [Workers -> SUBSET (Candidate \X Candidate)]
        /\ device \in [Coordinators -> Seq(Candidate)]
    BY <2>1 DEF Init
  <2>3. /\ calls \in [Workers -> 0 .. MaxCalls] /\ todo \in [Workers -> 0 .. MaxPuzzles]
        /\ sent \in [Workers -> 0 .. MaxPuzzles]
        /\ scan \in [Coordinators -> 0 .. NumCoordinators]
        /\ lastSolved \in [Coordinators -> 0 .. Trials]
    BY <2>1 DEF Init
  <2>4. /\ stopping \in [Workers -> BOOLEAN] /\ exactCount \in [Coordinators -> BOOLEAN]
        /\ stopGpuWorker \in BOOLEAN
    BY DEF Init
  <2> QED  BY <2>2, <2>3, <2>4 DEF ContentTyping
<1>2. SlotBatches
  BY PipelineAssumption DEF Init, SlotBatches, BatchAt
<1>3. Sends
  BY DEF Init, Sends, SendsAt
<1>4. AllHeldOnce
  BY DEF Init, AllHeldOnce
<1>5. Launches
  <2>1. Total(<< >>) <= MaxTrials
    BY TotalEmpty, OneSlotFits, PipelineAssumption
  <2>2. Len(<< >>) <= 1
    OBVIOUS
  <2> QED  BY <2>1, <2>2 DEF Init, Launches, LaunchAt
<1>6. OwnResults
  BY DEF Init, OwnResults
<1> QED  BY <1>1, <1>2, <1>3, <1>4, <1>5, <1>6, InitIInv DEF BInv, Contents

-----------------------------------------------------------------------------
(* What a step that does not concern them leaves alone.                    *)

LEMMA LiveGroupFacts ==
  ASSUME IInv, NEW c \in Coordinators
  PROVE  /\ LiveGroup(c) \in Seq(Slots)
         /\ \A i \in ToSet(LiveGroup(c)) : i \in Slots /\ state[i] = "Processing"
<1>1. group[c] \in Seq(Slots) /\ (cpc[c] = "count" => group[c] # << >>)
  BY DEF IInv, Typing, CoordinatorHolds
<1>2. LiveGroup(c) \in Seq(Slots)
  <2>1. CASE cpc[c] = "count"
    BY <1>1, <2>1, TailFacts DEF LiveGroup
  <2>2. CASE cpc[c] # "count"
    BY <1>1, <2>2 DEF LiveGroup
  <2> QED  BY <2>1, <2>2
<1>3. ToSet(LiveGroup(c)) \subseteq Slots
  BY <1>2 DEF ToSet
<1> QED  BY <1>2, <1>3 DEF IInv, SingleCustody

LEMMA LaunchKept ==
  ASSUME BInv, NEW c \in Coordinators,
         group'[c] = group[c], deferred'[c] = deferred[c], device'[c] = device[c],
         cpc'[c] = cpc[c] \/ (cpc[c] = "blocked" /\ cpc'[c] = "lock"),
         \A i \in Slots : state[i] = "Processing" =>
           puzzles'[i] = puzzles[i] /\ dim'[i] = dim[i]
  PROVE  LaunchAt(c)'
<1>1. LaunchAt(c)
  BY DEF BInv, Contents, Launches
<1>2. LiveGroup(c)' = LiveGroup(c)
  BY DEF LiveGroup
<1>3. LiveGroup(c) \in Seq(Slots)
      /\ \A i \in ToSet(LiveGroup(c)) : puzzles'[i] = puzzles[i] /\ dim'[i] = dim[i]
  BY LiveGroupFacts DEF BInv
<1>4. Gather(puzzles', LiveGroup(c)) = Gather(puzzles, LiveGroup(c))
  BY <1>3, GatherSame
<1>5. Batches(c)' = Batches(c)
  BY <1>2, <1>4 DEF Batches
<1>6. ASSUME cpc[c] \in {"take", "claim", "launch"}
      PROVE  /\ \A j \in DOMAIN group[c] : dim'[group[c][j]] = dim'[group[c][1]]
             /\ Total(group[c])' <= MaxTrials
  <2>1. LiveGroup(c) = group[c]
    BY <1>6 DEF LiveGroup
  <2>2. Total(group[c])' = Total(group[c])
    <3>1. Total(group[c])' = Len(FlattenSeq(Gather(puzzles', group'[c])))
      BY DEF Total, Gather
    <3> QED  BY <3>1, <2>1, <1>4, TotalIs
  <2>3. \A j \in DOMAIN group[c] : dim'[group[c][j]] = dim[group[c][j]] /\ 1 \in DOMAIN group[c]
    <3>1. \A j \in DOMAIN group[c] : group[c][j] \in ToSet(group[c]) /\ 1 \in DOMAIN group[c]
      BY <1>3, <2>1 DEF ToSet
    <3> QED  BY <3>1, <2>1, <1>3
  <2> QED  BY <2>2, <2>3, <1>1, <1>6 DEF LaunchAt
<1> QED  BY <1>1, <1>5, <1>6 DEF LaunchAt

LEMMA OwnIndex ==
  ASSUME NEW w \in Workers, NEW k \in 1 .. SlotsPerWorker
  PROVE  w * SlotsPerWorker + k - 1 \in Own(w)
<1>1. w * SlotsPerWorker \in Nat /\ SlotsPerWorker \in Nat
  BY PipelineAssumption DEF Workers
<1>2. w * SlotsPerWorker + k - 1 \in (w * SlotsPerWorker) .. (w * SlotsPerWorker + SlotsPerWorker - 1)
  BY <1>1
<1> QED  BY <1>2, OwnInterval

LEMMA HeldKept ==
  ASSUME NEW v \in Workers, HeldOnce(v), delivered'[v] = delivered[v], sent'[v] = sent[v],
         \A i \in Own(v) : puzzles'[i] = puzzles[i]
  PROVE  HeldOnce(v)'
<1>1. Used(v)' = Used(v) /\ Own(v)' = Own(v)
  BY DEF Used, Own, Owner
<1>2. \A i \in Own(v) : Held(i)' = Held(i)
  BY DEF Held
<1>3. OwnBatches(v)' = OwnBatches(v)
  BY OwnIndex DEF OwnBatches
<1>4. UNION {Held(i)' : i \in Own(v)} = UNION {Held(i) : i \in Own(v)}
  BY <1>2
<1> QED  BY <1>1, <1>2, <1>3, <1>4 DEF HeldOnce

LEMMA CallsKept ==
  ASSUME BInv, UNCHANGED <<workerVars, puzzles>>
  PROVE  Sends' /\ AllHeldOnce' /\ OwnResults'
<1>1. Sends'
  BY DEF BInv, Contents, Sends, SendsAt, workerVars
<1>2. AllHeldOnce'
  BY HeldKept DEF BInv, Contents, AllHeldOnce, workerVars
<1>3. OwnResults'
  BY DEF BInv, Contents, OwnResults, workerVars
<1> QED  BY <1>1, <1>2, <1>3

LEMMA BatchesKept ==
  ASSUME BInv, UNCHANGED <<slotVars, calls>>
  PROVE  SlotBatches'
BY DEF BInv, Contents, SlotBatches, BatchAt, Owner, slotVars

\* A worker that neither touches a slot nor its call's progress.
LEMMA StandingSteps ==
  ASSUME BInv, NEW w \in Workers,
         \/ GiveUpFilling(w) \/ PushAccepted(w) \/ PushRefused(w) \/ RetryPush(w)
         \/ NotifySubmitted(w) \/ Return(w)
  PROVE  Contents'
<1>1. /\ UNCHANGED <<slotVars, calls, wdim, todo, sent, stopping, delivered, stopGpuWorker,
                     scan, group, deferred, device, exactCount, lastSolved>>
      /\ \A c \in Coordinators : cpc'[c] = cpc[c] \/ (cpc[c] = "blocked" /\ cpc'[c] = "lock")
      /\ wpc[w] # "idle"
  BY DEF GiveUpFilling, PushAccepted, PushRefused, RetryPush, NotifySubmitted, Return,
     coordVars, mainVars, NotifyAll, BInv, IInv, Typing
<1>2. ContentTyping'
  BY <1>1 DEF BInv, Contents, ContentTyping, slotVars
<1>3. SlotBatches'
  BY <1>1, BatchesKept
<1>4. \A v \in Workers : v # w => wpc'[v] = wpc[v]
  BY DEF GiveUpFilling, PushAccepted, PushRefused, RetryPush, NotifySubmitted, Return,
     BInv, IInv, Typing
<1>5. /\ wpc'[w] = "acquire" => sent[w] < todo[w]
      /\ wpc'[w] # "fill"
      /\ wpc'[w] = "drain" /\ ~stopping[w] => sent[w] = todo[w]
  <2>1. /\ sent[w] \in Nat /\ todo[w] \in Nat /\ sent[w] <= todo[w]
        /\ wpc \in [Workers -> WorkerPcs]
    BY DEF BInv, IInv, Typing, Contents, ContentTyping, Sends, SendsAt
  <2> QED  BY <2>1 DEF GiveUpFilling, PushAccepted, PushRefused, RetryPush, NotifySubmitted, Return
<1>6. Sends'
  <2> SUFFICES ASSUME NEW v \in Workers PROVE SendsAt(v)'
    BY DEF Sends
  <2>1. SendsAt(v)
    BY DEF BInv, Contents, Sends
  <2>2. CASE v = w
    BY <2>1, <2>2, <1>1, <1>5 DEF SendsAt
  <2>3. CASE v # w
    <3>1. wpc[v] = "fill" => cur'[v] = cur[v]
      BY <2>3 DEF GiveUpFilling, PushAccepted, PushRefused, RetryPush, NotifySubmitted, Return,
         BInv, IInv, Typing
    <3> QED  BY <2>1, <2>3, <3>1, <1>1, <1>4 DEF SendsAt, slotVars
  <2> QED  BY <2>2, <2>3
<1>7. AllHeldOnce'
  <2>1. \A v \in Workers : wpc'[v] # "idle" => wpc[v] # "idle"
    BY <1>1, <1>4
  <2> QED
    BY <2>1, <1>1, HeldKept DEF BInv, Contents, AllHeldOnce, slotVars
<1>8. Launches'
  BY <1>1, LaunchKept DEF Launches, slotVars
<1>9. OwnResults'
  BY <1>1 DEF BInv, Contents, OwnResults
<1> QED  BY <1>2, <1>3, <1>6, <1>7, <1>8, <1>9 DEF Contents

-----------------------------------------------------------------------------
(* The steps of a worker that touch a slot or the progress of a call.      *)

\* What the other workers and the coordinators see is not disturbed.
LEMMA WorkerContents ==
  ASSUME BInv, NEW w \in Workers, ContentTyping', UNCHANGED coordVars,
         \A v \in Workers \ {w} :
           /\ wpc'[v] = wpc[v] /\ cur'[v] = cur[v] /\ calls'[v] = calls[v]
           /\ todo'[v] = todo[v] /\ sent'[v] = sent[v] /\ stopping'[v] = stopping[v]
           /\ delivered'[v] = delivered[v],
         \A i \in Slots \ Own(w) :
           /\ state'[i] = state[i] /\ puzzles'[i] = puzzles[i] /\ results'[i] = results[i],
         \A i \in Slots : state[i] = "Processing" =>
           puzzles'[i] = puzzles[i] /\ dim'[i] = dim[i],
         \A i \in Own(w) : BatchAt(i)',
         SendsAt(w)',
         wpc'[w] # "idle" /\ ~stopping'[w] => HeldOnce(w)',
         \A d \in delivered'[w] : d[1] = d[2] /\ d[1].by = w /\ d[1].call = calls'[w]
  PROVE  Contents'
<1>1. \A v \in Workers \ {w} : \A i \in Own(v) : i \in Slots \ Own(w)
  BY OwnFinite, OwnDisjoint
<1>2. SlotBatches'
  <2> SUFFICES ASSUME NEW i \in Slots PROVE BatchAt(i)'
    BY DEF SlotBatches
  <2>1. CASE i \in Own(w)
    BY <2>1
  <2>2. CASE i \notin Own(w)
    <3>1. PICK v \in Workers : i \in Own(v)
      BY EverySlotOwned
    <3>2. v # w /\ Owner(i) = v
      BY <2>2, <3>1 DEF Own
    <3>3. calls'[Owner(i)] = calls[Owner(i)]
      BY <3>2
    <3>4. BatchAt(i)
      BY DEF BInv, Contents, SlotBatches
    <3> HIDE DEF Owner
    <3>5. state'[i] = state[i] /\ puzzles'[i] = puzzles[i] /\ results'[i] = results[i]
      BY <2>2
    <3>6. Owner(i)' = Owner(i)
      BY DEF Owner
    <3> QED  BY <3>3, <3>4, <3>5, <3>6 DEF BatchAt
  <2> QED  BY <2>1, <2>2
<1>3. Sends'
  <2> SUFFICES ASSUME NEW v \in Workers PROVE SendsAt(v)'
    BY DEF Sends
  <2>1. CASE v = w
    BY <2>1
  <2>2. CASE v # w
    <3>1. SendsAt(v) /\ (wpc[v] = "fill" => cur[v] \in Own(v))
      BY DEF BInv, IInv, WorkerHolds, HoldsAt, Contents, Sends
    <3>2. wpc[v] = "fill" => puzzles'[cur[v]] = puzzles[cur[v]]
      BY <1>1, <2>2, <3>1
    <3> QED  BY <2>2, <3>1, <3>2 DEF SendsAt
  <2> QED  BY <2>1, <2>2
<1>4. AllHeldOnce'
  <2> SUFFICES ASSUME NEW v \in Workers, wpc'[v] # "idle", ~stopping'[v] PROVE HeldOnce(v)'
    BY DEF AllHeldOnce
  <2>1. CASE v = w
    BY <2>1
  <2>2. CASE v # w
    <3>1. HeldOnce(v)
      BY <2>2 DEF BInv, Contents, AllHeldOnce
    <3>2. \A i \in Own(v) : puzzles'[i] = puzzles[i]
      BY <1>1, <2>2
    <3> QED  BY <2>2, <3>1, <3>2, HeldKept
  <2> QED  BY <2>1, <2>2
<1>5. Launches'
  BY LaunchKept DEF Launches, coordVars
<1>6. OwnResults'
  <2> SUFFICES ASSUME NEW v \in Workers, NEW d \in delivered'[v]
               PROVE  d[1] = d[2] /\ d[1].by = v /\ d[1].call = calls'[v]
    BY DEF OwnResults
  <2>1. CASE v = w
    BY <2>1
  <2>2. CASE v # w
    BY <2>2 DEF BInv, Contents, OwnResults
  <2> QED  BY <2>1, <2>2
<1> QED  BY <1>2, <1>3, <1>4, <1>5, <1>6 DEF Contents

LEMMA StartCallStep ==
  ASSUME BInv, NEW w \in Workers, StartCall(w)
  PROVE  Contents'
<1>t. Typing /\ ContentTyping
  BY DEF BInv, IInv, Contents
<1>1. /\ wpc[w] = "idle" /\ calls[w] < MaxCalls
      /\ wpc' = [wpc EXCEPT ![w] = "acquire"]
      /\ calls' = [calls EXCEPT ![w] = calls[w] + 1]
      /\ sent' = [sent EXCEPT ![w] = 0]
      /\ stopping' = [stopping EXCEPT ![w] = FALSE]
      /\ delivered' = [delivered EXCEPT ![w] = {}]
      /\ UNCHANGED <<slotVars, coordVars, cur, stopGpuWorker>>
  BY DEF StartCall, mainVars
<1>2. PICK d \in Dims, n \in 1 .. MaxPuzzles :
        wdim' = [wdim EXCEPT ![w] = d] /\ todo' = [todo EXCEPT ![w] = n]
  BY DEF StartCall
<1>3. \A i \in Own(w) : i \in Slots /\ state[i] = "Empty" /\ puzzles[i] = << >>
  BY <1>1, IdleIsEmpty, OwnFinite
  DEF BInv, IdleWorkerOwnsNothing, Contents, SlotBatches, BatchAt
<1>4. ContentTyping'
  <2>1. calls[w] + 1 \in 0 .. MaxCalls /\ 0 \in 0 .. MaxPuzzles /\ n \in 0 .. MaxPuzzles
    BY <1>1, <1>t, PipelineAssumption DEF ContentTyping
  <2>2. calls' \in [Workers -> 0 .. MaxCalls] /\ sent' \in [Workers -> 0 .. MaxPuzzles]
        /\ todo' \in [Workers -> 0 .. MaxPuzzles] /\ wdim' \in [Workers -> Dims \cup {NoDim}]
        /\ delivered' \in [Workers -> SUBSET (Candidate \X Candidate)]
    BY <1>1, <1>2, <1>t, <2>1 DEF ContentTyping
  <2>3. stopping' \in [Workers -> BOOLEAN]
    BY <1>1, <1>t DEF ContentTyping
  <2> QED  BY <1>1, <1>t, <2>2, <2>3 DEF ContentTyping, slotVars, coordVars
<1>5. \A i \in Own(w) : BatchAt(i)'
  BY <1>1, <1>3, PipelineAssumption DEF BatchAt, slotVars
<1>6. SendsAt(w)'
  BY <1>1, <1>2, <1>t DEF Typing, ContentTyping, SendsAt
<1>7. HeldOnce(w)'
  <2>1. Used(w)' = {} /\ sent'[w] = 0 /\ 1 .. 0 = {}
    BY <1>1, <1>t DEF ContentTyping, Used
  <2>2. \A i \in Own(w) : Held(i)' = {} /\ DOMAIN puzzles'[i] = {}
    BY <1>1, <1>3 DEF Held, slotVars
  <2>3. Own(w)' = Own(w) /\ OwnBatches(w)' = OwnBatches(w)
    BY <1>1 DEF Own, Owner, OwnBatches, slotVars
  <2>4. OwnBatches(w) \in Seq(Seq(Candidate))
        /\ \A k \in DOMAIN OwnBatches(w) : OwnBatches(w)[k] = << >>
    <3>1. SlotsPerWorker \in Nat /\ \A k \in 1 .. SlotsPerWorker :
            puzzles[w * SlotsPerWorker + k - 1] = << >>
      BY <1>3, OwnIndex, PipelineAssumption
    <3>2. OwnBatches(w) = [k \in 1 .. SlotsPerWorker |-> << >>]
      BY <3>1 DEF OwnBatches
    <3>3. << >> \in Seq(Candidate)
      OBVIOUS
    <3> QED  BY <3>1, <3>2, <3>3
  <2>5. Len(FlattenSeq(OwnBatches(w))) = 0
    BY <2>4, FlattenNothing
  <2>6. Cardinality({}) = 0
    BY FS_EmptySet
  <2> QED  BY <2>1, <2>2, <2>3, <2>5, <2>6 DEF HeldOnce
<1>8. \A v \in Workers \ {w} :
        /\ wpc'[v] = wpc[v] /\ cur'[v] = cur[v] /\ calls'[v] = calls[v]
        /\ todo'[v] = todo[v] /\ sent'[v] = sent[v] /\ stopping'[v] = stopping[v]
        /\ delivered'[v] = delivered[v]
  BY <1>1, <1>2, <1>t DEF Typing, ContentTyping
<1>9. delivered'[w] = {}
  BY <1>1, <1>t DEF ContentTyping
<1> QED  BY <1>1, <1>4, <1>5, <1>6, <1>7, <1>8, <1>9, WorkerContents DEF slotVars

LEMMA BeginFillingContents ==
  ASSUME BInv, NEW w \in Workers, BeginFilling(w)
  PROVE  Contents'
<1>t. Typing /\ ContentTyping /\ SendsAt(w)
  BY DEF BInv, IInv, Contents, Sends
<1>1. PICK i \in Own(w) :
        /\ state[i] = "Empty" /\ state' = [state EXCEPT ![i] = "Filling"]
        /\ dim' = [dim EXCEPT ![i] = wdim[w]] /\ puzzles' = [puzzles EXCEPT ![i] = << >>]
        /\ results' = [results EXCEPT ![i] = << >>]
        /\ cur' = [cur EXCEPT ![w] = i]
  BY DEF BeginFilling
<1>2. /\ wpc[w] = "acquire" /\ ~stopping[w] /\ wpc' = [wpc EXCEPT ![w] = "fill"]
      /\ UNCHANGED <<coordVars, calls, wdim, todo, sent, stopping, delivered, stopGpuWorker>>
  BY DEF BeginFilling, mainVars
<1>3. i \in Slots /\ puzzles[i] = << >>
  BY <1>1, OwnFinite DEF BInv, Contents, SlotBatches, BatchAt
<1>4. puzzles' = puzzles
  BY <1>1, <1>3, <1>t DEF ContentTyping
<1>5. ContentTyping'
  <2>1. wdim[w] \in Dims \cup {NoDim} /\ << >> \in Seq(Candidate)
    BY <1>t DEF ContentTyping
  <2>2. dim' \in [Slots -> Dims \cup {NoDim}] /\ results' \in [Slots -> Seq(Candidate)]
    BY <1>1, <1>t, <2>1 DEF ContentTyping
  <2> QED  BY <1>2, <1>4, <1>t, <2>2 DEF ContentTyping, coordVars
<1>6. /\ state'[i] = "Filling"
      /\ \A k \in Slots \ {i} : state'[k] = state[k] /\ results'[k] = results[k] /\ dim'[k] = dim[k]
  BY <1>1, <1>3, <1>t DEF Typing, ContentTyping
<1>7. ASSUME NEW k \in Own(w) PROVE BatchAt(k)'
  <2>1. k \in Slots /\ BatchAt(k)
    BY OwnFinite DEF BInv, Contents, SlotBatches
  <2>2. Owner(k)' = Owner(k)
    BY DEF Owner
  <2>3. CASE k = i
    BY <2>1, <2>2, <2>3, <1>2, <1>4, <1>6 DEF BatchAt
  <2>4. CASE k # i
    BY <2>1, <2>2, <2>4, <1>2, <1>4, <1>6 DEF BatchAt
  <2> QED  BY <2>3, <2>4
<1>8. SendsAt(w)'
  BY <1>2, <1>t DEF SendsAt, Typing
<1>9. HeldOnce(w)'
  <2>1. HeldOnce(w)
    BY <1>2 DEF BInv, Contents, AllHeldOnce
  <2> QED  BY <2>1, <1>2, <1>4, HeldKept
<1>10. \A v \in Workers \ {w} : wpc'[v] = wpc[v] /\ cur'[v] = cur[v]
  BY <1>1, <1>2, <1>t DEF Typing
<1>11. \A d \in delivered'[w] : d[1] = d[2] /\ d[1].by = w /\ d[1].call = calls'[w]
  BY <1>2 DEF BInv, Contents, OwnResults
<1>12. \A k \in Slots \ Own(w) : state'[k] = state[k] /\ results'[k] = results[k]
  BY <1>1, <1>6
<1>13. \A k \in Slots : state[k] = "Processing" => dim'[k] = dim[k]
  BY <1>1, <1>6
<1> QED  BY <1>2, <1>4, <1>5, <1>7, <1>8, <1>9, <1>10, <1>11, <1>12, <1>13, WorkerContents

\* The number of candidates held follows the batch of the slot that changes.
LEMMA OwnBatchesChange ==
  ASSUME ContentTyping, ContentTyping', NEW w \in Workers, NEW i \in Own(w),
         \A k \in Own(w) \ {i} : puzzles'[k] = puzzles[k]
  PROVE  /\ Len(FlattenSeq(OwnBatches(w)')) + Len(puzzles[i])
              = Len(FlattenSeq(OwnBatches(w))) + Len(puzzles'[i])
         /\ Len(FlattenSeq(OwnBatches(w)')) \in Nat /\ Len(FlattenSeq(OwnBatches(w))) \in Nat
         /\ Len(puzzles[i]) \in Nat /\ Len(puzzles'[i]) \in Nat
<1> DEFINE Y == Seq(Candidate)
           S == SlotsPerWorker
           at(k) == w * S + k - 1
           n == i - w * S + 1
<1>1. /\ S \in Nat /\ w * S \in Nat /\ i \in (w * S) .. (w * S + S - 1)
      /\ \A k \in 1 .. S : at(k) \in Own(w) /\ at(k) \in Slots
  <2>1. \A k \in 1 .. S : at(k) \in Own(w)
    BY OwnIndex
  <2>2. S \in Nat /\ w * S \in Nat
    BY PipelineAssumption DEF Workers
  <2>3. i \in (w * S) .. (w * S + S - 1)
    BY OwnInterval
  <2>4. \A k \in 1 .. S : at(k) \in Slots
    BY <2>1, OwnFinite
  <2> QED  BY <2>1, <2>2, <2>3, <2>4
<1>2. n \in 1 .. S /\ at(n) = i /\ \A k \in 1 .. S : at(k) = i => k = n
  <2> HIDE DEF S
  <2> QED  BY <1>1
<1>3. puzzles \in [Slots -> Y] /\ puzzles' \in [Slots -> Y]
  BY DEF ContentTyping
<1> DEFINE A == OwnBatches(w)
           B == OwnBatches(w)'
<1>4. A = [k \in 1 .. S |-> puzzles[at(k)]] /\ B = [k \in 1 .. S |-> puzzles'[at(k)]]
  BY DEF OwnBatches
<1> HIDE DEF A, B, Y, at, n, S
<1>5. A \in [1 .. S -> Y] /\ B \in [1 .. S -> Y]
  BY <1>1, <1>3, <1>4
<1>6. A \in Seq(Y) /\ B \in Seq(Y) /\ Len(A) = S /\ Len(B) = S
  BY <1>1, <1>5
<1>7. A[n] = puzzles[i] /\ B[n] = puzzles'[i] /\ n \in 1 .. Len(A)
      /\ \A k \in 1 .. Len(A) : k # n => B[k] = A[k]
  BY <1>1, <1>2, <1>4, <1>6
<1>8. Len(FlattenSeq(B)) + Len(A[n]) = Len(FlattenSeq(A)) + Len(B[n])
  <2>1. DifferAt(B, A, n)
    BY <1>6, <1>7 DEF DifferAt
  <2> QED  BY <2>1, <1>6, FlattenExchange DEF Y
<1>9. FlattenSeq(B) \in Seq(Candidate) /\ FlattenSeq(A) \in Seq(Candidate)
  BY <1>6, FlattenType DEF Y
<1>10. puzzles[i] \in Seq(Candidate) /\ puzzles'[i] \in Seq(Candidate)
  BY <1>3, OwnFinite DEF Y
<1>11. \A s \in Seq(Candidate) : Len(s) \in Nat
  OBVIOUS
<1> QED  BY <1>7, <1>8, <1>9, <1>10, <1>11 DEF A, B

LEMMA NumbersAppend ==
  ASSUME NEW p, NEW q, NEW l, DOMAIN q = DOMAIN p \cup {l}, \A j \in DOMAIN p : q[j] = p[j]
  PROVE  {q[j].n : j \in DOMAIN q} = {p[j].n : j \in DOMAIN p} \cup {q[l].n}
OBVIOUS

LEMMA AppendPuzzleContents ==
  ASSUME BInv, NEW w \in Workers, AppendPuzzle(w)
  PROVE  Contents'
<1> DEFINE x == [by |-> w, call |-> calls[w], n |-> sent[w] + 1]
<1>t. Typing /\ ContentTyping /\ SendsAt(w)
  BY DEF BInv, IInv, Contents, Sends
<1>0. /\ wpc[w] = "fill" /\ cur[w] \in Own(w) /\ state[cur[w]] = "Filling"
  BY DEF AppendPuzzle, BInv, IInv, WorkerHolds, HoldsAt
<1>i. PICK i \in Own(w) : i = cur[w]
  BY <1>0
<1>1. /\ wpc[w] = "fill" /\ ~SlotFull(w)
      /\ sent' = [sent EXCEPT ![w] = sent[w] + 1]
      /\ puzzles' = [puzzles EXCEPT ![i] = Append(puzzles[i], x)]
      /\ UNCHANGED <<state, dim, results, coordVars, wpc, calls, wdim, todo, cur,
                     stopping, delivered, stopGpuWorker>>
  BY <1>i DEF AppendPuzzle, mainVars
<1>2. i \in Own(w) /\ i \in Slots /\ state[i] = "Filling" /\ BatchAt(i) /\ Owner(i) = w
  BY <1>0, <1>i, OwnFinite DEF BInv, Contents, SlotBatches, Own
<1>3. /\ sent[w] \in Nat /\ sent[w] < todo[w] /\ sent[w] + 1 \in 1 .. MaxPuzzles
      /\ Len(puzzles[i]) \in Nat /\ Len(puzzles[i]) < Trials
  <2>1. sent[w] \in 0 .. MaxPuzzles /\ todo[w] \in 0 .. MaxPuzzles /\ puzzles[i] \in Seq(Candidate)
    BY <1>2, <1>t DEF ContentTyping
  <2>2. sent[w] <= todo[w] /\ sent[w] # todo[w] /\ Len(puzzles[i]) # Trials
        /\ Len(puzzles[i]) <= Trials
    BY <1>1, <1>2, <1>i, <1>t DEF SendsAt, SlotFull, BatchAt
  <2>3. Len(puzzles[i]) \in Nat
    BY <2>1
  <2>4. sent[w] \in Nat /\ sent[w] < todo[w] /\ sent[w] + 1 \in 1 .. MaxPuzzles
    BY <2>1, <2>2, PipelineAssumption
  <2>5. Len(puzzles[i]) < Trials
    BY <2>2, <2>3, PipelineAssumption
  <2> QED  BY <2>3, <2>4, <2>5
<1>4. x \in Candidate
  BY <1>3, <1>t DEF Candidate, ContentTyping
<1>5. /\ puzzles[i] \in Seq(Candidate) /\ puzzles'[i] = Append(puzzles[i], x)
      /\ \A k \in Slots \ {i} : puzzles'[k] = puzzles[k]
      /\ puzzles' \in [Slots -> Seq(Candidate)]
  BY <1>1, <1>2, <1>4, <1>t DEF ContentTyping
<1>6. LET p == puzzles[i] q == puzzles'[i]
      IN  /\ q \in Seq(Candidate) /\ q # << >> /\ Len(q) = Len(p) + 1
          /\ DOMAIN q = DOMAIN p \cup {Len(q)} /\ Len(q) \notin DOMAIN p
          /\ q[Len(q)] = x /\ \A j \in DOMAIN p : q[j] = p[j]
  <2> HIDE DEF x
  <2> QED  BY <1>4, <1>5
<1>7. ContentTyping'
  <2>1. sent' \in [Workers -> 0 .. MaxPuzzles]
    <3>1. sent[w] + 1 \in 0 .. MaxPuzzles
      BY <1>3
    <3> QED  BY <3>1, <1>1, <1>t DEF ContentTyping
  <2> QED  BY <2>1, <1>1, <1>5, <1>t DEF ContentTyping, coordVars
<1>8. ASSUME NEW k \in Own(w) PROVE BatchAt(k)'
  <2>1. k \in Slots /\ BatchAt(k)
    BY OwnFinite DEF BInv, Contents, SlotBatches
  <2>2. Owner(k)' = Owner(k)
    BY DEF Owner
  <2>3. CASE k = i
    <3>1. Len(puzzles'[i]) <= Trials
      BY <1>3, <1>6, PipelineAssumption
    <3>2. \A j \in DOMAIN puzzles'[i] :
            puzzles'[i][j].by = Owner(i) /\ puzzles'[i][j].call = calls'[Owner(i)]
      <4>1. x.by = Owner(i) /\ x.call = calls'[Owner(i)]
        BY <1>1, <1>2
      <4> QED  BY <4>1, <1>1, <1>2, <1>6 DEF BatchAt
    <3>3. state'[i] = "Filling"
      BY <1>1, <1>2
    <3> QED  BY <2>2, <2>3, <3>1, <3>2, <3>3 DEF BatchAt
  <2>4. CASE k # i
    BY <2>1, <2>2, <2>4, <1>1, <1>5 DEF BatchAt
  <2> QED  BY <2>3, <2>4
<1>9. sent'[w] = sent[w] + 1
  BY <1>1, <1>t DEF ContentTyping
<1>10. SendsAt(w)'
  <2>1. sent'[w] <= todo'[w]
    BY <1>1, <1>3, <1>9, <1>t DEF ContentTyping
  <2>2. ~stopping'[w] /\ puzzles'[cur'[w]] # << >>
    BY <1>1, <1>6, <1>i, <1>t DEF SendsAt
  <2> QED  BY <2>1, <2>2, <1>1 DEF SendsAt
<1>11. HeldOnce(w)'
  <2>1. HeldOnce(w)
    BY <1>1, <1>t DEF BInv, Contents, AllHeldOnce, SendsAt
  <2>2. Used(w)' = Used(w) /\ Own(w)' = Own(w)
    BY <1>1 DEF Used, Own, Owner
  <2>3. Held(i)' = Held(i) \cup {sent[w] + 1}
    <3>1. x.n = sent[w] + 1
      OBVIOUS
    <3> HIDE DEF x
    <3>2. {puzzles'[i][j].n : j \in DOMAIN puzzles'[i]}
            = {puzzles[i][j].n : j \in DOMAIN puzzles[i]} \cup {puzzles'[i][Len(puzzles'[i])].n}
      BY <1>6, NumbersAppend
    <3> QED  BY <3>1, <3>2, <1>6 DEF Held
  <2>4. \A k \in Own(w) : k # i => Held(k)' = Held(k)
    BY <1>5, OwnFinite DEF Held
  <2>5. sent[w] + 1 \notin 1 .. sent[w] /\ 1 .. (sent[w] + 1) = (1 .. sent[w]) \cup {sent[w] + 1}
    BY <1>3
  <2>6. \A k \in Own(w) : Held(k) \subseteq 1 .. sent[w]
    BY <2>1 DEF HeldOnce
  <2>7. Used(w) \subseteq 1 .. sent[w]
    BY <2>1 DEF HeldOnce
  <2>a. sent[w] + 1 \notin Used(w) /\ \A k \in Own(w) : sent[w] + 1 \notin Held(k)
    BY <2>5, <2>6, <2>7
  <2>b. \A k \in Own(w) : Held(k)' = IF k = i THEN Held(k) \cup {sent[w] + 1} ELSE Held(k)
    BY <2>3, <2>4
  <2>8. Used(w)' \cup UNION {Held(k)' : k \in Own(w)} = 1 .. sent'[w]
    <3>1. UNION {Held(k)' : k \in Own(w)} = (UNION {Held(k) : k \in Own(w)}) \cup {sent[w] + 1}
      <4>1. i \in Own(w)
        BY <1>2
      <4> QED  BY <4>1, <2>b
    <3> QED  BY <3>1, <2>1, <2>2, <2>5, <1>9 DEF HeldOnce
  <2>9. \A k \in Own(w) : Used(w)' \cap Held(k)' = {}
    BY <2>1, <2>2, <2>a, <2>b DEF HeldOnce
  <2>10. \A k, l \in Own(w) : k # l => Held(k)' \cap Held(l)' = {}
    BY <2>1, <2>a, <2>b DEF HeldOnce
  <2>11. \A k \in Own(w) : \A j, l \in DOMAIN puzzles'[k] :
           puzzles'[k][j].n = puzzles'[k][l].n => j = l
    <3> SUFFICES ASSUME NEW k \in Own(w), NEW j \in DOMAIN puzzles'[k], NEW l \in DOMAIN puzzles'[k],
                        puzzles'[k][j].n = puzzles'[k][l].n
                 PROVE  j = l
      OBVIOUS
    <3>1. CASE k # i
      <4>1. puzzles'[k] = puzzles[k]
        BY <3>1, <1>5, OwnFinite
      <4> QED  BY <4>1, <2>1 DEF HeldOnce
    <3>2. CASE k = i
      <4>1. \A m \in DOMAIN puzzles[i] : puzzles[i][m].n # sent[w] + 1
        BY <1>2, <2>5, <2>6 DEF Held
      <4>2. x.n = sent[w] + 1
        OBVIOUS
      <4>3. \A m, o \in DOMAIN puzzles[i] : puzzles[i][m].n = puzzles[i][o].n => m = o
        BY <1>2, <2>1 DEF HeldOnce
      <4> HIDE DEF x
      <4> QED  BY <3>2, <4>1, <4>2, <4>3, <1>6
    <3> QED  BY <3>1, <3>2
  <2>12. Cardinality(Used(w)') + Len(FlattenSeq(OwnBatches(w)')) = sent'[w]
    <3>1. \A k \in Own(w) \ {i} : puzzles'[k] = puzzles[k]
      BY <1>5, OwnFinite
    <3>2. /\ Len(FlattenSeq(OwnBatches(w)')) + Len(puzzles[i])
               = Len(FlattenSeq(OwnBatches(w))) + Len(puzzles'[i])
          /\ Len(FlattenSeq(OwnBatches(w)')) \in Nat /\ Len(FlattenSeq(OwnBatches(w))) \in Nat
      BY <3>1, <1>2, <1>7, <1>t, OwnBatchesChange
    <3>3. Len(FlattenSeq(OwnBatches(w)')) = Len(FlattenSeq(OwnBatches(w))) + 1
      BY <3>2, <1>3, <1>6
    <3>4. Cardinality(Used(w)) + Len(FlattenSeq(OwnBatches(w))) = sent[w]
          /\ Cardinality(Used(w)) \in Nat
      <4>1. IsFiniteSet(1 .. sent[w])
        <5>1. 1 \in Int /\ sent[w] \in Int
          BY <1>3
        <5> QED  BY <5>1, FS_Interval
      <4>2. IsFiniteSet(Used(w))
        BY <4>1, <2>7, FS_Subset
      <4> QED  BY <4>2, <2>1, FS_CardinalityType DEF HeldOnce
    <3> QED  BY <3>2, <3>3, <3>4, <2>2, <1>9
  <2> QED  BY <2>2, <2>8, <2>9, <2>10, <2>11, <2>12 DEF HeldOnce
<1>12. \A v \in Workers \ {w} : sent'[v] = sent[v]
  BY <1>1, <1>t DEF ContentTyping
<1>13. \A k \in Slots \ Own(w) : puzzles'[k] = puzzles[k]
  BY <1>2, <1>5
<1>14. \A k \in Slots : state[k] = "Processing" => puzzles'[k] = puzzles[k]
  BY <1>2, <1>5
<1>15. \A d \in delivered'[w] : d[1] = d[2] /\ d[1].by = w /\ d[1].call = calls'[w]
  BY <1>1 DEF BInv, Contents, OwnResults
<1> QED  BY <1>1, <1>7, <1>8, <1>10, <1>11, <1>12, <1>13, <1>14, <1>15, WorkerContents

LEMMA MarkReadyContents ==
  ASSUME BInv, NEW w \in Workers, MarkReady(w)
  PROVE  Contents'
<1> DEFINE i == cur[w]
<1>t. Typing /\ ContentTyping /\ SendsAt(w)
  BY DEF BInv, IInv, Contents, Sends
<1>1. /\ wpc[w] = "fill" /\ SlotFull(w)
      /\ state' = [state EXCEPT ![i] = "Ready"]
      /\ wpc' = [wpc EXCEPT ![w] = "submit"]
      /\ UNCHANGED <<dim, puzzles, results, coordVars, calls, wdim, todo, sent, cur, stopping,
                     delivered, stopGpuWorker>>
  BY DEF MarkReady, mainVars
<1>2. i \in Own(w) /\ i \in Slots /\ state[i] = "Filling" /\ BatchAt(i)
  BY <1>1, OwnFinite DEF BInv, IInv, WorkerHolds, HoldsAt, Contents, SlotBatches
<1>3. puzzles[i] # << >>
  <2>1. sent[w] < todo[w] \/ puzzles[i] # << >>
    BY <1>1, <1>t DEF SendsAt
  <2>2. Len(puzzles[i]) = Trials \/ sent[w] = todo[w]
    BY <1>1 DEF SlotFull
  <2>3. sent[w] \in Nat /\ todo[w] \in Nat /\ Trials # 0 /\ Len(<< >>) = 0
    BY <1>t, PipelineAssumption DEF ContentTyping
  <2> HIDE DEF i
  <2> QED  BY <2>1, <2>2, <2>3
<1> HIDE DEF i
<1>4. state'[i] = "Ready" /\ \A k \in Slots \ {i} : state'[k] = state[k]
  BY <1>1, <1>2, <1>t DEF Typing
<1>5. ContentTyping'
  BY <1>1, <1>t DEF ContentTyping, coordVars
<1>6. ASSUME NEW k \in Own(w) PROVE BatchAt(k)'
  <2>1. k \in Slots /\ BatchAt(k)
    BY OwnFinite DEF BInv, Contents, SlotBatches
  <2>2. Owner(k)' = Owner(k)
    BY DEF Owner
  <2>3. CASE k = i
    BY <2>1, <2>2, <2>3, <1>1, <1>3, <1>4 DEF BatchAt
  <2>4. CASE k # i
    BY <2>1, <2>2, <2>4, <1>1, <1>4 DEF BatchAt
  <2> QED  BY <2>3, <2>4
<1>7. SendsAt(w)'
  BY <1>1, <1>t DEF SendsAt, Typing
<1>8. ~stopping'[w] => HeldOnce(w)'
  BY <1>1, HeldKept DEF BInv, Contents, AllHeldOnce
<1>9. \A v \in Workers \ {w} : wpc'[v] = wpc[v]
  BY <1>1, <1>t DEF Typing
<1>10. \A d \in delivered'[w] : d[1] = d[2] /\ d[1].by = w /\ d[1].call = calls'[w]
  BY <1>1 DEF BInv, Contents, OwnResults
<1>11. \A k \in Slots \ Own(w) : state'[k] = state[k]
  BY <1>2, <1>4
<1> QED  BY <1>1, <1>5, <1>6, <1>7, <1>8, <1>9, <1>10, <1>11, WorkerContents

LEMMA NumbersCount ==
  ASSUME NEW X, NEW p \in Seq(X), \A j, k \in DOMAIN p : p[j].n = p[k].n => j = k
  PROVE  /\ IsFiniteSet({p[j].n : j \in DOMAIN p})
         /\ Cardinality({p[j].n : j \in DOMAIN p}) = Len(p)
<1> DEFINE T == {p[j].n : j \in DOMAIN p}
           f == [j \in 1 .. Len(p) |-> p[j].n]
<1>1. DOMAIN p = 1 .. Len(p) /\ Len(p) \in Nat
  OBVIOUS
<1>2. f \in Surjection(1 .. Len(p), T) /\ f \in Injection(1 .. Len(p), T)
  <2>1. f \in [1 .. Len(p) -> T]
    BY <1>1
  <2>2. \A t \in T : \E j \in 1 .. Len(p) : f[j] = t
    BY <1>1
  <2>3. \A j, k \in 1 .. Len(p) : f[j] = f[k] => j = k
    BY <1>1
  <2>4. IsInjective(f)
    BY <2>3 DEF IsInjective
  <2> HIDE DEF f, T
  <2> QED  BY <2>1, <2>2, <2>4 DEF Surjection, Injection
<1>3. IsFiniteSet(1 .. Len(p)) /\ Cardinality(1 .. Len(p)) = Len(p)
  <2>1. 1 \in Int /\ Len(p) \in Int
    BY <1>1
  <2>2. IsFiniteSet(1 .. Len(p))
        /\ Cardinality(1 .. Len(p)) = IF 1 <= Len(p) THEN Len(p) - 1 + 1 ELSE 0
    <3> HIDE DEF f, T
    <3> QED  BY <2>1, FS_Interval
  <2>3. (IF 1 <= Len(p) THEN Len(p) - 1 + 1 ELSE 0) = Len(p)
    BY <1>1
  <2> QED  BY <2>2, <2>3
<1> HIDE DEF f, T
<1>4. IsFiniteSet(T) /\ Cardinality(T) = Cardinality(1 .. Len(p))
  BY <1>2, <1>3, FS_Surjection
<1> QED  BY <1>3, <1>4 DEF T

LEMMA ProcessDoneContents ==
  ASSUME BInv, NEW w \in Workers, ProcessDone(w)
  PROVE  Contents'
<1>t. Typing /\ ContentTyping /\ SendsAt(w)
  BY DEF BInv, IInv, Contents, Sends
<1>1. PICK i \in Own(w) :
        /\ state[i] = "Done" /\ Deliver(w, i)
        /\ state' = [state EXCEPT ![i] = "Empty"]
        /\ puzzles' = [puzzles EXCEPT ![i] = << >>]
  BY DEF ProcessDone
<1>2. /\ wpc[w] \in {"acquire", "backoff", "drain"}
      /\ UNCHANGED <<dim, results, coordVars, wpc, calls, wdim, todo, sent, cur, stopGpuWorker>>
  BY DEF ProcessDone, mainVars
<1>3. /\ i \in Slots /\ BatchAt(i) /\ Owner(i) = w
      /\ results[i] = puzzles[i] /\ puzzles[i] \in Seq(Candidate)
  BY <1>1, <1>t, OwnFinite DEF BInv, Contents, SlotBatches, Own, ContentTyping, BatchAt
<1>4. /\ state'[i] = "Empty" /\ puzzles'[i] = << >>
      /\ \A k \in Slots \ {i} : state'[k] = state[k] /\ puzzles'[k] = puzzles[k]
      /\ puzzles' \in [Slots -> Seq(Candidate)]
  BY <1>1, <1>3, <1>t DEF Typing, ContentTyping
<1> DEFINE new(m) == {<<puzzles[i][j], results[i][j]>> : j \in 1 .. m}
<1>5. \/ UNCHANGED <<stopping, delivered>> /\ stopping[w]
      \/ \E m \in 1 .. Len(puzzles[i]), hit \in BOOLEAN :
           /\ ~stopping[w]
           /\ ~hit => m = Len(puzzles[i])
           /\ stopping' = [stopping EXCEPT ![w] = hit]
           /\ delivered' = [delivered EXCEPT ![w] = delivered[w] \cup new(m)]
  BY <1>1 DEF Deliver
<1>6. \A m \in 1 .. Len(puzzles[i]) :
        \A d \in new(m) : /\ d \in Candidate \X Candidate
                          /\ d[1] = d[2] /\ d[1].by = w /\ d[1].call = calls[w]
  <2> SUFFICES ASSUME NEW m \in 1 .. Len(puzzles[i]), NEW j \in 1 .. m
               PROVE  /\ puzzles[i][j] \in Candidate /\ results[i][j] = puzzles[i][j]
                      /\ puzzles[i][j].by = w /\ puzzles[i][j].call = calls[w]
    OBVIOUS
  <2>1. j \in DOMAIN puzzles[i] /\ puzzles[i][j] \in Candidate
    BY <1>3
  <2> QED  BY <2>1, <1>3 DEF BatchAt
<1>7. /\ delivered' \in [Workers -> SUBSET (Candidate \X Candidate)]
      /\ stopping' \in [Workers -> BOOLEAN]
      /\ \A v \in Workers \ {w} : delivered'[v] = delivered[v] /\ stopping'[v] = stopping[v]
      /\ \A d \in delivered'[w] : d[1] = d[2] /\ d[1].by = w /\ d[1].call = calls[w]
  <2>0. \A d \in delivered[w] : d[1] = d[2] /\ d[1].by = w /\ d[1].call = calls[w]
    BY DEF BInv, Contents, OwnResults
  <2>1. CASE UNCHANGED <<stopping, delivered>>
    BY <2>0, <2>1, <1>t DEF ContentTyping
  <2>2. ASSUME NEW m \in 1 .. Len(puzzles[i]), NEW hit \in BOOLEAN,
               stopping' = [stopping EXCEPT ![w] = hit],
               delivered' = [delivered EXCEPT ![w] = delivered[w] \cup new(m)]
        PROVE  <1>7!:
    <3>1. new(m) \in SUBSET (Candidate \X Candidate)
          /\ \A d \in new(m) : d[1] = d[2] /\ d[1].by = w /\ d[1].call = calls[w]
      BY <1>6
    <3>2. delivered[w] \in SUBSET (Candidate \X Candidate)
      BY <1>t DEF ContentTyping
    <3> HIDE DEF new
    <3>3. delivered'[w] = delivered[w] \cup new(m)
          /\ delivered' \in [Workers -> SUBSET (Candidate \X Candidate)]
          /\ \A v \in Workers \ {w} : delivered'[v] = delivered[v]
      BY <2>2, <3>1, <3>2, <1>t DEF ContentTyping
    <3>4. stopping' \in [Workers -> BOOLEAN] /\ \A v \in Workers \ {w} : stopping'[v] = stopping[v]
      BY <2>2, <1>t DEF ContentTyping
    <3> QED  BY <2>0, <3>1, <3>3, <3>4
  <2> HIDE DEF new
  <2> QED  BY <2>1, <2>2, <1>5
<1>8. ContentTyping'
  BY <1>2, <1>4, <1>7, <1>t DEF ContentTyping, coordVars
<1>9. ASSUME NEW k \in Own(w) PROVE BatchAt(k)'
  <2>1. k \in Slots /\ BatchAt(k)
    BY OwnFinite DEF BInv, Contents, SlotBatches
  <2>2. Owner(k)' = Owner(k)
    BY DEF Owner
  <2>3. CASE k = i
    <3>1. Len(<< >>) <= Trials /\ DOMAIN << >> = {}
      BY PipelineAssumption
    <3> QED  BY <2>2, <2>3, <3>1, <1>4 DEF BatchAt
  <2>4. CASE k # i
    BY <2>1, <2>2, <2>4, <1>2, <1>4 DEF BatchAt
  <2> QED  BY <2>3, <2>4
<1>10. SendsAt(w)'
  <2>1. stopping[w] => stopping'[w]
    BY <1>5
  <2> QED  BY <2>1, <1>2, <1>t DEF SendsAt
<1>11. ASSUME ~stopping'[w] PROVE HeldOnce(w)'
  <2> DEFINE p == puzzles[i]
  <2>1. ~stopping[w] /\ delivered'[w] = delivered[w] \cup new(Len(p))
    <3> HIDE DEF new
    <3> QED  BY <1>5, <1>11, <1>t DEF ContentTyping
  <2>2. HeldOnce(w)
    BY <2>1, <1>2 DEF BInv, Contents, AllHeldOnce
  <2>3. Own(w)' = Own(w) /\ sent'[w] = sent[w]
    BY <1>2 DEF Own, Owner
  <2>4. DOMAIN p = 1 .. Len(p) /\ Held(i) = {p[j].n : j \in 1 .. Len(p)}
    <3>1. DOMAIN p = 1 .. Len(p)
      BY <1>3
    <3> QED  BY <3>1 DEF Held
  <2>5. Used(w)' = Used(w) \cup Held(i)
    <3>1. Used(w)' = {d[1].n : d \in delivered'[w]}
      BY DEF Used
    <3>2. {d[1].n : d \in delivered[w] \cup new(Len(p))} = {d[1].n : d \in delivered[w]} \cup Held(i)
      <4>1. {d[1].n : d \in delivered[w] \cup new(Len(p))}
              = {d[1].n : d \in delivered[w]} \cup {p[j].n : j \in 1 .. Len(p)}
        <5>1. {d[1].n : d \in new(Len(p))} = {p[j].n : j \in 1 .. Len(p)}
          <6>1. \A j : <<puzzles[i][j], results[i][j]>>[1] = p[j]
            OBVIOUS
          <6>2. \A d \in new(Len(p)) : \E j \in 1 .. Len(p) : d[1] = p[j]
            BY <6>1
          <6>3. \A j \in 1 .. Len(p) : \E d \in new(Len(p)) : d[1] = p[j]
            BY <6>1
          <6> HIDE DEF p, new
          <6> QED  BY <6>2, <6>3
        <5> HIDE DEF new, p
        <5> QED  BY <5>1
      <4> HIDE DEF new, p
      <4> QED  BY <4>1, <2>4
    <3> HIDE DEF new, p
    <3>3. Used(w)' = {d[1].n : d \in delivered[w] \cup new(Len(p))}
      BY <3>1, <2>1
    <3> QED  BY <3>2, <3>3 DEF Used
  <2>6. \A k \in Own(w) : Held(k)' = IF k = i THEN {} ELSE Held(k)
    <3>1. Held(i)' = {}
      <4>1. DOMAIN puzzles'[i] = {}
        BY <1>4
      <4> QED  BY <4>1 DEF Held
    <3>2. \A k \in Own(w) : k # i => Held(k)' = Held(k)
      BY <1>4, OwnFinite DEF Held
    <3> QED  BY <3>1, <3>2
  <2> HIDE DEF p, new
  <2>7. Used(w)' \cup UNION {Held(k)' : k \in Own(w)} = 1 .. sent'[w]
    <3>1. UNION {Held(k) : k \in Own(w)} = (UNION {Held(k)' : k \in Own(w)}) \cup Held(i)
      <4>1. i \in Own(w)
        OBVIOUS
      <4> QED  BY <4>1, <2>6
    <3> QED  BY <3>1, <2>2, <2>3, <2>5 DEF HeldOnce
  <2>8. \A k \in Own(w) : Used(w)' \cap Held(k)' = {}
    BY <2>2, <2>5, <2>6 DEF HeldOnce
  <2>9. \A k, l \in Own(w) : k # l => Held(k)' \cap Held(l)' = {}
    BY <2>2, <2>6 DEF HeldOnce
  <2>10. \A k \in Own(w) : \A j, l \in DOMAIN puzzles'[k] :
           puzzles'[k][j].n = puzzles'[k][l].n => j = l
    <3>1. DOMAIN puzzles'[i] = {}
      BY <1>4
    <3>2. \A k \in Own(w) : k # i => puzzles'[k] = puzzles[k]
      BY <1>4, OwnFinite
    <3> QED  BY <3>1, <3>2, <2>2 DEF HeldOnce
  <2>11. Cardinality(Used(w)') + Len(FlattenSeq(OwnBatches(w)')) = sent'[w]
    <3>1. \A k \in Own(w) \ {i} : puzzles'[k] = puzzles[k]
      BY <1>4, OwnFinite
    <3>2. /\ Len(FlattenSeq(OwnBatches(w)')) + Len(puzzles[i])
               = Len(FlattenSeq(OwnBatches(w))) + Len(puzzles'[i])
          /\ Len(FlattenSeq(OwnBatches(w)')) \in Nat /\ Len(FlattenSeq(OwnBatches(w))) \in Nat
          /\ Len(puzzles[i]) \in Nat
      BY <3>1, <1>8, <1>t, OwnBatchesChange
    <3>3. Len(puzzles'[i]) = 0
      BY <1>4
    <3>4. IsFiniteSet(Held(i)) /\ Cardinality(Held(i)) = Len(puzzles[i])
      <4>1. \A j, k \in DOMAIN puzzles[i] : puzzles[i][j].n = puzzles[i][k].n => j = k
        BY <2>2 DEF HeldOnce
      <4> QED  BY <4>1, <1>3, NumbersCount DEF Held
    <3>5. IsFiniteSet(Used(w))
      <4>1. 1 \in Int /\ sent[w] \in Int
        BY <1>t DEF ContentTyping
      <4>2. IsFiniteSet(1 .. sent[w])
        BY <4>1, FS_Interval
      <4>3. Used(w) \subseteq 1 .. sent[w]
        BY <2>2 DEF HeldOnce
      <4> QED  BY <4>2, <4>3, FS_Subset
    <3>6. Cardinality(Used(w) \cup Held(i)) = Cardinality(Used(w)) + Cardinality(Held(i))
          /\ Cardinality(Used(w)) \in Nat
      <4>1. Used(w) \cap Held(i) = {}
        BY <2>2 DEF HeldOnce
      <4>2. Cardinality(Used(w) \cup Held(i))
              = Cardinality(Used(w)) + Cardinality(Held(i)) - Cardinality({})
        BY <4>1, <3>4, <3>5, FS_Union
      <4>3. Cardinality({}) = 0 /\ Cardinality(Used(w)) \in Nat /\ Cardinality(Held(i)) \in Nat
        BY <3>4, <3>5, FS_EmptySet, FS_CardinalityType
      <4> QED  BY <4>2, <4>3
    <3>7. Cardinality(Used(w)) + Len(FlattenSeq(OwnBatches(w))) = sent[w]
      BY <2>2 DEF HeldOnce
    <3>8. Cardinality(Used(w)') = Cardinality(Used(w)) + Len(puzzles[i])
      BY <3>4, <3>6, <2>5
    <3>9. Cardinality(Used(w)') + Len(FlattenSeq(OwnBatches(w)')) = sent[w]
      <4> DEFINE F == Len(FlattenSeq(OwnBatches(w)))
                 G == Len(FlattenSeq(OwnBatches(w)'))
      <4>1. PICK a \in Nat, b \in Nat, f \in Nat, l \in Nat :
              /\ a = Cardinality(Used(w)) /\ b = G /\ f = F /\ l = Len(puzzles[i])
        BY <3>2, <3>6, Zenon
      <4>2. b + l = f + 0
        BY <3>2, <3>3, <4>1, Zenon
      <4>3. a + f = sent[w]
        BY <3>7, <4>1, Zenon
      <4>4. (a + l) + b = sent[w]
        BY <4>2, <4>3
      <4> QED  BY <4>1, <4>4, <3>8, Zenon
    <3> QED  BY <3>9, <2>3
  <2> QED  BY <2>3, <2>7, <2>8, <2>9, <2>10, <2>11 DEF HeldOnce
<1>12. \A k \in Slots \ Own(w) : state'[k] = state[k] /\ puzzles'[k] = puzzles[k]
  BY <1>4
<1>13. \A k \in Slots : state[k] = "Processing" => puzzles'[k] = puzzles[k]
  BY <1>1, <1>4
<1> QED  BY <1>2, <1>7, <1>8, <1>9, <1>10, <1>11, <1>12, <1>13, WorkerContents

-----------------------------------------------------------------------------
(* The steps of a coordinator.                                             *)

LEMMA CoordinatorContents ==
  ASSUME BInv, NEW c \in Coordinators, Coordinator(c),
         ContentTyping', SlotBatches', LaunchAt(c)'
  PROVE  Contents'
<1>t. /\ group \in [Coordinators -> Seq(Slots)] /\ deferred \in [Coordinators -> Seq(Slots)]
      /\ device \in [Coordinators -> Seq(Candidate)] /\ cpc \in [Coordinators -> CoordPcs]
  BY DEF BInv, IInv, Typing, Contents, ContentTyping
<1>1. UNCHANGED <<workerVars, puzzles, dim>>
  BY DEF Coordinator, TakeDeferred, PopHead, SkipEmptyQueue, FindNothing, StopCheck,
     StopCoalescing, PollAgain, EnterWait, EvaluatePredicate, Block, SpuriousWakeup,
     Launch, CountBatch, Renotify, Claim, Scatter, slotVars
<1>2. \A d \in Coordinators \ {c} :
        /\ group'[d] = group[d] /\ deferred'[d] = deferred[d] /\ device'[d] = device[d]
        /\ cpc'[d] = cpc[d] \/ (cpc[d] = "blocked" /\ cpc'[d] = "lock")
  BY <1>t DEF Coordinator, TakeDeferred, PopHead, SkipEmptyQueue, FindNothing, StopCheck,
     StopCoalescing, PollAgain, EnterWait, EvaluatePredicate, Block, SpuriousWakeup,
     Launch, CountBatch, Renotify, Claim, Scatter, Accept, ScanQueue
<1>3. Launches'
  <2> SUFFICES ASSUME NEW d \in Coordinators PROVE LaunchAt(d)'
    BY DEF Launches
  <2> QED  BY <1>1, <1>2, LaunchKept
<1> QED  BY <1>1, <1>3, CallsKept DEF Contents

\* The coordinator's group is what it was, or it is empty.
LEMMA SameGroup ==
  ASSUME BInv, NEW c \in Coordinators, UNCHANGED <<puzzles, dim, group, deferred>>,
         cpc'[c] = "claim" => deferred[c] = << >>,
         cpc'[c] \in {"take", "claim", "launch"} =>
           cpc[c] \in {"take", "claim", "launch"} \/ group[c] = << >>,
         cpc'[c] \notin {"scatter", "count"}
  PROVE  LaunchAt(c)'
<1>1. LaunchAt(c)
  BY DEF BInv, Contents, Launches
<1>2. Total(group[c])' = Total(group[c])
  BY DEF Total
<1>3. group[c] = << >> => Total(group[c]) <= MaxTrials /\ DOMAIN group[c] = {}
  BY TotalEmpty, OneSlotFits, PipelineAssumption
<1> QED  BY <1>1, <1>2, <1>3 DEF LaunchAt

LEMMA ScanTyped ==
  ASSUME ContentTyping, NEW c \in Coordinators, NEW found, NEW none, ScanQueue(c, found, none)
  PROVE  scan' \in [Coordinators -> 0 .. NumCoordinators]
<1>1. scan[c] \in 0 .. NumCoordinators /\ 0 \in 0 .. NumCoordinators
  BY PipelineAssumption DEF ContentTyping
<1>2. scan[c] + 1 < NumCoordinators => scan[c] + 1 \in 0 .. NumCoordinators
  BY <1>1, PipelineAssumption
<1> QED  BY <1>1, <1>2 DEF ScanQueue, ContentTyping

LEMMA WaitingSteps ==
  ASSUME BInv, NEW c \in Coordinators,
         \/ PopHead(c) \/ SkipEmptyQueue(c) \/ FindNothing(c) \/ StopCheck(c)
         \/ StopCoalescing(c) \/ PollAgain(c) \/ EnterWait(c) \/ EvaluatePredicate(c)
         \/ Block(c) \/ SpuriousWakeup(c) \/ Renotify(c)
  PROVE  Contents'
<1>t. /\ cpc \in [Coordinators -> CoordPcs] /\ ContentTyping /\ CoordinatorHolds
  BY DEF BInv, IInv, Typing, Contents
<1>0. Coordinator(c)
  BY DEF Coordinator
<1>1. UNCHANGED <<slotVars, workerVars, stopGpuWorker, group, deferred, device, exactCount,
                  lastSolved>>
  BY DEF PopHead, SkipEmptyQueue, FindNothing, StopCheck, StopCoalescing, PollAgain, EnterWait,
     EvaluatePredicate, Block, SpuriousWakeup, Renotify, mainVars
<1>2. scan' \in [Coordinators -> 0 .. NumCoordinators]
  <2>1. scan \in [Coordinators -> 0 .. NumCoordinators] /\ 0 \in 0 .. NumCoordinators
    BY <1>t, PipelineAssumption DEF ContentTyping
  <2>2. CASE SkipEmptyQueue(c)
    <3>1. scan[c] + 1 \in 0 .. NumCoordinators
      BY <2>1, <2>2, PipelineAssumption DEF SkipEmptyQueue
    <3> QED  BY <2>1, <2>2, <3>1 DEF SkipEmptyQueue
  <2>3. CASE StopCheck(c) \/ EvaluatePredicate(c) \/ Renotify(c)
    <3>1. CASE scan' = [scan EXCEPT ![c] = 0]
      BY <2>1, <3>1
    <3>2. CASE \E found, none : ScanQueue(c, found, none)
      BY <1>t, <3>2, ScanTyped
    <3> QED  BY <2>3, <3>1, <3>2 DEF StopCheck, EvaluatePredicate, Renotify
  <2>4. CASE \/ PopHead(c) \/ FindNothing(c) \/ StopCoalescing(c) \/ PollAgain(c)
             \/ EnterWait(c) \/ Block(c) \/ SpuriousWakeup(c)
    BY <2>1, <2>4 DEF PopHead, FindNothing, StopCoalescing, PollAgain, EnterWait, Block,
       SpuriousWakeup
  <2> QED  BY <2>2, <2>3, <2>4
<1>3. ContentTyping'
  BY <1>1, <1>2, <1>t DEF ContentTyping, slotVars, workerVars
<1>4. SlotBatches'
  BY <1>1, BatchesKept DEF workerVars
<1>5. /\ cpc'[c] = "claim" => deferred[c] = << >>
      /\ cpc'[c] \in {"take", "claim", "launch"} =>
           cpc[c] \in {"take", "claim", "launch"} \/ group[c] = << >>
      /\ cpc'[c] \notin {"scatter", "count"}
  BY <1>t DEF PopHead, SkipEmptyQueue, FindNothing, StopCheck, StopCoalescing, PollAgain,
     EnterWait, EvaluatePredicate, Block, SpuriousWakeup, Renotify, ScanQueue, NothingTaken,
     CoordinatorHolds
<1>6. LaunchAt(c)'
  BY <1>1, <1>5, SameGroup DEF slotVars
<1> QED  BY <1>0, <1>3, <1>4, <1>6, CoordinatorContents

\* A task joins the group only if the group still fits one launch.
LEMMA AcceptFits ==
  ASSUME BInv, NEW c \in Coordinators, NEW i \in Slots, Accept(c, i),
         cpc[c] \in {"take", "claim"}, UNCHANGED <<puzzles, dim>>, Len(deferred'[c]) <= 1
  PROVE  LaunchAt(c)'
<1>t. /\ cpc \in [Coordinators -> CoordPcs] /\ group \in [Coordinators -> Seq(Slots)]
      /\ puzzles \in [Slots -> Seq(Candidate)] /\ LaunchAt(c) /\ Len(puzzles[i]) <= Trials
  BY DEF BInv, IInv, Typing, Contents, ContentTyping, Launches, SlotBatches, BatchAt
<1>1. \A g : Total(g)' = Total(g)
  BY DEF Total
<1>2. cpc'[c] \in {"take", "launch"}
  BY <1>t DEF Accept
<1>3. CASE Fits(c, i)
  <2> DEFINE g == Append(group[c], i)
  <2>1. group'[c] = g
    BY <1>3, <1>t DEF Accept
  <2>2. group[c] \in Seq(Slots) /\ Total(g) = Total(group[c]) + Len(puzzles[i])
        /\ Total(group[c]) \in Nat /\ Len(puzzles[i]) \in Nat
    BY <1>t, TotalAppend
  <2>3. Total(g) <= MaxTrials /\ (group[c] = << >> \/ dim[i] = dim[group[c][1]])
    <3>1. CASE group[c] = << >>
      <4>1. Total(g) = 0 + Len(puzzles[i])
        BY <2>2, <3>1, TotalEmpty
      <4>2. Total(g) = Len(puzzles[i])
        <5> HIDE DEF g
        <5> QED  BY <4>1, <2>2
      <4> QED  BY <4>2, <2>2, <3>1, <1>t, OneSlotFits
    <3>2. CASE group[c] # << >>
      BY <1>3, <2>2, <3>2 DEF Fits
    <3> QED  BY <3>1, <3>2
  <2>4. \A j \in DOMAIN g : dim[g[j]] = dim[g[1]]
    <3>1. /\ Len(group[c]) \in Nat /\ DOMAIN g = 1 .. Len(group[c]) + 1
          /\ \A j \in 1 .. Len(group[c]) : g[j] = group[c][j]
          /\ g[Len(group[c]) + 1] = i
      BY <2>2
    <3>2. CASE group[c] = << >>
      <4>1. DOMAIN g = {1}
        BY <3>1, <3>2
      <4> HIDE DEF g
      <4> QED  BY <4>1
    <3>3. CASE group[c] # << >>
      <4>1. 1 \in 1 .. Len(group[c]) /\ DOMAIN group[c] = 1 .. Len(group[c])
        BY <2>2, <3>3
      <4>2. \A j \in DOMAIN group[c] : dim[group[c][j]] = dim[group[c][1]]
        BY <1>t DEF LaunchAt
      <4>3. \A j \in 1 .. Len(group[c]) + 1 : j \in 1 .. Len(group[c]) \/ j = Len(group[c]) + 1
        BY <3>1
      <4> HIDE DEF g
      <4> QED  BY <4>1, <4>2, <4>3, <3>1, <3>3, <2>3
    <3> QED  BY <3>2, <3>3
  <2> HIDE DEF g
  <2> QED  BY <1>1, <1>2, <2>1, <2>3, <2>4 DEF LaunchAt
<1>4. CASE ~Fits(c, i)
  <2>1. group'[c] = group[c]
    BY <1>4 DEF Accept
  <2> QED  BY <1>1, <1>2, <1>t, <2>1 DEF LaunchAt
<1> QED  BY <1>3, <1>4

LEMMA TakeDeferredContents ==
  ASSUME BInv, NEW c \in Coordinators, TakeDeferred(c)
  PROVE  Contents'
<1>t. ContentTyping /\ deferred \in [Coordinators -> Seq(Slots)] /\ Len(deferred[c]) <= 1
  BY DEF BInv, IInv, Typing, Contents, Launches, LaunchAt
<1>1. /\ cpc[c] = "take" /\ deferred[c] # << >> /\ Accept(c, Head(deferred[c]))
      /\ deferred' = [deferred EXCEPT ![c] = IF Fits(c, Head(@)) THEN Tail(@) ELSE @]
      /\ scan' = [scan EXCEPT ![c] = 0]
      /\ UNCHANGED <<slotVars, workerVars, stopGpuWorker, device, exactCount, lastSolved>>
  BY DEF TakeDeferred, mainVars
<1>2. Head(deferred[c]) \in Slots /\ deferred[c] \in Seq(Slots)
  BY <1>1, <1>t, TailFacts
<1>3. Len(deferred'[c]) <= 1
  <2>1. Len(deferred[c]) \in Nat /\ Len(Tail(deferred[c])) = Len(deferred[c]) - 1
    BY <1>1, <1>2
  <2>2. deferred'[c] = deferred[c] \/ deferred'[c] = Tail(deferred[c])
    BY <1>1, <1>t
  <2>3. CASE deferred'[c] = deferred[c]
    BY <2>3, <1>t
  <2>4. CASE deferred'[c] = Tail(deferred[c])
    <3>1. PICK n \in Nat : n = Len(deferred[c])
      BY <2>1
    <3>2. n <= 1 /\ Len(Tail(deferred[c])) = n - 1
      BY <2>1, <3>1, <1>t
    <3>3. n - 1 <= 1
      BY <3>2
    <3> QED  BY <2>4, <3>2, <3>3, Zenon
  <2> QED  BY <2>2, <2>3, <2>4
<1>4. ContentTyping'
  <2>1. 0 \in 0 .. NumCoordinators
    BY PipelineAssumption
  <2> QED  BY <2>1, <1>1, <1>t DEF ContentTyping, slotVars, workerVars
<1>5. SlotBatches'
  BY <1>1, BatchesKept DEF workerVars
<1>6. LaunchAt(c)'
  BY <1>1, <1>2, <1>3, AcceptFits DEF slotVars
<1> QED  BY <1>4, <1>5, <1>6, CoordinatorContents DEF Coordinator

LEMMA ClaimContents ==
  ASSUME BInv, NEW c \in Coordinators, Claim(c)
  PROVE  Contents'
<1>t. /\ Typing /\ ContentTyping /\ SlotBatches /\ LaunchAt(c)
      /\ cpc[c] = "claim" /\ hand[c] # NoSlot /\ state[hand[c]] = "Ready"
  BY DEF Claim, BInv, IInv, CoordinatorHolds, SingleCustody, Contents, Launches
<1>1. PICK i \in Slots : i = hand[c]
  BY <1>t DEF Typing
<1>2. /\ state[i] = "Ready" /\ state' = [state EXCEPT ![i] = "Processing"]
      /\ scan' = [scan EXCEPT ![c] = 0] /\ Accept(c, i)
      /\ deferred' = [deferred EXCEPT ![c] = IF Fits(c, i) THEN @ ELSE <<i>> \o @]
      /\ UNCHANGED <<dim, puzzles, results, workerVars, stopGpuWorker, device, exactCount,
                     lastSolved>>
  BY <1>1, <1>t DEF Claim, mainVars
<1>3. Len(deferred'[c]) <= 1
  <2>1. deferred[c] = << >> /\ deferred'[c] = IF Fits(c, i) THEN deferred[c] ELSE <<i>> \o deferred[c]
    BY <1>2, <1>t DEF LaunchAt, Typing
  <2>2. Len(<< >>) <= 1 /\ Len(<<i>> \o << >>) <= 1
    OBVIOUS
  <2> QED  BY <2>1, <2>2
<1>4. ContentTyping'
  <2>1. 0 \in 0 .. NumCoordinators
    BY PipelineAssumption
  <2> QED  BY <2>1, <1>2, <1>t DEF ContentTyping, workerVars
<1>5. SlotBatches'
  <2> SUFFICES ASSUME NEW k \in Slots PROVE BatchAt(k)'
    BY DEF SlotBatches
  <2>1. BatchAt(k) /\ Owner(k)' = Owner(k) /\ calls' = calls
    BY <1>2, <1>t DEF SlotBatches, Owner, workerVars
  <2>2. CASE k = i
    <3>1. state'[k] = "Processing"
      BY <2>2, <1>2, <1>t DEF Typing
    <3> QED  BY <2>1, <2>2, <3>1, <1>2 DEF BatchAt
  <2>3. CASE k # i
    <3>1. state'[k] = state[k]
      BY <2>3, <1>2, <1>t DEF Typing
    <3> QED  BY <2>1, <3>1, <1>2 DEF BatchAt
  <2> QED  BY <2>2, <2>3
<1>6. LaunchAt(c)'
  BY <1>2, <1>3, <1>t, AcceptFits
<1> QED  BY <1>4, <1>5, <1>6, CoordinatorContents DEF Coordinator

LEMMA GroupBatches ==
  ASSUME BInv, NEW g \in Seq(Slots)
  PROVE  /\ Gather(puzzles, g) \in Seq(Seq(Candidate))
         /\ FlattenSeq(Gather(puzzles, g)) \in Seq(Candidate)
         /\ g # << >> => FlattenSeq(Gather(puzzles, g))
                           = puzzles[Head(g)] \o FlattenSeq(Gather(puzzles, Tail(g)))
<1> DEFINE Y == Seq(Candidate)
<1>1. puzzles \in [Slots -> Y]
  BY DEF BInv, Contents, ContentTyping
<1>2. Gather(puzzles, g) \in Seq(Y)
  <2> HIDE DEF Y
  <2> QED  BY <1>1, GatherType
<1>3. FlattenSeq(Gather(puzzles, g)) \in Seq(Candidate)
  BY <1>2, FlattenType
<1>4. ASSUME g # << >>
      PROVE  FlattenSeq(Gather(puzzles, g)) = puzzles[Head(g)] \o FlattenSeq(Gather(puzzles, Tail(g)))
  <2>1. Head(g) \in Slots /\ Tail(g) \in Seq(Slots)
    BY <1>4, TailFacts
  <2>2. puzzles[Head(g)] \in Y /\ Gather(puzzles, Tail(g)) \in Seq(Y)
        /\ Gather(puzzles, g) = <<puzzles[Head(g)]>> \o Gather(puzzles, Tail(g))
    <3> HIDE DEF Y
    <3> QED  BY <1>1, <1>4, <2>1, GatherType, GatherCons
  <2> QED  BY <2>2, FlattenCons
<1> QED  BY <1>2, <1>3, <1>4

LEMMA LaunchContents ==
  ASSUME BInv, NEW c \in Coordinators, Launch(c)
  PROVE  Contents'
<1>t. Typing /\ ContentTyping /\ LaunchAt(c)
  BY DEF BInv, IInv, Contents, Launches
<1>1. /\ cpc[c] = "launch" /\ cpc' = [cpc EXCEPT ![c] = "scatter"]
      /\ device' = [device EXCEPT ![c] = FlattenSeq(Gather(puzzles, group[c]))]
      /\ UNCHANGED <<slotVars, workerVars, stopGpuWorker, scan, group, deferred, exactCount,
                     lastSolved>>
  BY DEF Launch, mainVars, Gather
<1>2. group[c] \in Seq(Slots)
  BY <1>t DEF Typing
<1>3. ContentTyping'
  <2>1. FlattenSeq(Gather(puzzles, group[c])) \in Seq(Candidate)
    BY <1>2, GroupBatches
  <2> QED  BY <2>1, <1>1, <1>t DEF ContentTyping, slotVars, workerVars
<1>4. SlotBatches'
  BY <1>1, BatchesKept DEF workerVars
<1>5. LaunchAt(c)'
  <2>1. cpc'[c] = "scatter" /\ LiveGroup(c)' = group[c]
    BY <1>1, <1>t DEF Typing, LiveGroup
  <2>2. device'[c] = FlattenSeq(Gather(puzzles, group[c]))
    BY <1>1, <1>t DEF ContentTyping
  <2>3. Batches(c)' = Gather(puzzles, group[c])
    BY <2>1, <1>1 DEF Batches, slotVars
  <2> QED  BY <2>1, <2>2, <2>3, <1>1, <1>t DEF LaunchAt
<1> QED  BY <1>3, <1>4, <1>5, CoordinatorContents DEF Coordinator

LEMMA SplitSeq ==
  ASSUME NEW X, NEW s \in Seq(X), NEW t \in Seq(X)
  PROVE  /\ SubSeq(s \o t, 1, Len(s)) = s
         /\ SubSeq(s \o t, Len(s) + 1, Len(s \o t)) = t
<1>1. /\ s \o t \in Seq(X) /\ Len(s \o t) = Len(s) + Len(t) /\ Len(s) \in Nat /\ Len(t) \in Nat
      /\ \A j \in 1 .. Len(s) : (s \o t)[j] = s[j]
      /\ \A j \in 1 .. Len(t) : (s \o t)[Len(s) + j] = t[j]
  OBVIOUS
<1> DEFINE u == s \o t
           a == SubSeq(u, 1, Len(s))
           b == SubSeq(u, Len(s) + 1, Len(u))
<1>2. a \in Seq(X) /\ Len(a) = Len(s) /\ \A j \in 1 .. Len(s) : a[j] = u[j]
  <2> HIDE DEF u
  <2> QED  BY <1>1 DEF u
<1>3. b \in Seq(X) /\ Len(b) = Len(t) /\ \A j \in 1 .. Len(t) : b[j] = u[Len(s) + j]
  <2> HIDE DEF u
  <2> QED  BY <1>1 DEF u
<1> HIDE DEF u, a, b
<1>4. a = s
  BY <1>1, <1>2, SameSeq DEF u
<1>5. b = t
  BY <1>1, <1>3, SameSeq DEF u
<1> QED  BY <1>4, <1>5 DEF u, a, b

LEMMA ScatterContents ==
  ASSUME BInv, NEW c \in Coordinators, Scatter(c)
  PROVE  Contents'
<1>t. Typing /\ ContentTyping /\ SlotBatches /\ LaunchAt(c)
  BY DEF BInv, IInv, Contents, Launches
<1>g. cpc[c] = "scatter" /\ group[c] \in Seq(Slots) /\ group[c] # << >>
  BY DEF Scatter, BInv, IInv, Typing, CoordinatorHolds
<1>h. PICK i \in Slots : i = Head(group[c])
  BY <1>g, TailFacts
<1> DEFINE p == puzzles[i]
           rest == FlattenSeq(Gather(puzzles, Tail(group[c])))
<1>1. /\ state[i] = "Processing" /\ state' = [state EXCEPT ![i] = "Done"]
      /\ results' = [results EXCEPT ![i] = SubSeq(device[c], 1, Len(p))]
      /\ device' = [device EXCEPT ![c] = SubSeq(device[c], Len(p) + 1, Len(device[c]))]
      /\ lastSolved' = [lastSolved EXCEPT ![c] = Len(p)]
      /\ cpc' = [cpc EXCEPT ![c] = "count"]
      /\ UNCHANGED <<dim, puzzles, workerVars, stopGpuWorker, scan, group, deferred, exactCount>>
  BY <1>h DEF Scatter, mainVars
<1>2. device[c] = p \o rest /\ p \in Seq(Candidate) /\ rest \in Seq(Candidate)
  <2>1. device[c] = FlattenSeq(Gather(puzzles, group[c]))
    BY <1>g, <1>t DEF LaunchAt, Batches, LiveGroup
  <2>2. Tail(group[c]) \in Seq(Slots)
    BY <1>g, TailFacts
  <2>3. p \in Seq(Candidate)
    BY <1>t DEF ContentTyping
  <2> QED  BY <2>1, <2>2, <2>3, <1>g, <1>h, GroupBatches
<1>3. SubSeq(device[c], 1, Len(p)) = p /\ SubSeq(device[c], Len(p) + 1, Len(device[c])) = rest
  <2> HIDE DEF p, rest
  <2> QED  BY <1>2, SplitSeq
<1> HIDE DEF rest
<1>4. ContentTyping'
  <2>1. results' \in [Slots -> Seq(Candidate)] /\ device' \in [Coordinators -> Seq(Candidate)]
    BY <1>1, <1>2, <1>3, <1>t DEF ContentTyping
  <2>2. Len(p) \in 0 .. Trials
    <3>1. Len(p) \in Nat /\ Len(p) <= Trials
      BY <1>2, <1>t DEF SlotBatches, BatchAt
    <3> QED  BY <3>1, PipelineAssumption
  <2>3. lastSolved' \in [Coordinators -> 0 .. Trials]
    BY <2>2, <1>1, <1>t DEF ContentTyping
  <2> QED  BY <2>1, <2>3, <1>1, <1>t DEF ContentTyping, workerVars
<1>5. SlotBatches'
  <2> SUFFICES ASSUME NEW k \in Slots PROVE BatchAt(k)'
    BY DEF SlotBatches
  <2>1. BatchAt(k) /\ Owner(k)' = Owner(k) /\ calls' = calls
    BY <1>1, <1>t DEF SlotBatches, Owner, workerVars
  <2>2. CASE k = i
    <3>1. state'[k] = "Done" /\ results'[k] = puzzles[k]
      BY <2>2, <1>1, <1>3, <1>t DEF Typing, ContentTyping
    <3> QED  BY <2>1, <2>2, <3>1, <1>1 DEF BatchAt
  <2>3. CASE k # i
    <3>1. state'[k] = state[k] /\ results'[k] = results[k]
      BY <2>3, <1>1, <1>t DEF Typing, ContentTyping
    <3> QED  BY <2>1, <3>1, <1>1 DEF BatchAt
  <2> QED  BY <2>2, <2>3
<1>6. LaunchAt(c)'
  <2>1. cpc'[c] = "count" /\ LiveGroup(c)' = Tail(group[c])
    BY <1>1, <1>t DEF Typing, LiveGroup
  <2>2. device'[c] = rest
    BY <1>1, <1>3, <1>t DEF ContentTyping
  <2>3. Batches(c)' = Gather(puzzles, Tail(group[c]))
    BY <2>1, <1>1 DEF Batches
  <2> QED  BY <2>1, <2>2, <2>3, <1>1, <1>t DEF LaunchAt, rest
<1> QED  BY <1>4, <1>5, <1>6, CoordinatorContents DEF Coordinator

LEMMA CountBatchContents ==
  ASSUME BInv, NEW c \in Coordinators, CountBatch(c)
  PROVE  Contents'
<1>t. Typing /\ ContentTyping /\ LaunchAt(c)
  BY DEF BInv, IInv, Contents, Launches
<1>1. /\ cpc[c] = "count" /\ group' = [group EXCEPT ![c] = Tail(group[c])]
      /\ cpc' = [cpc EXCEPT ![c] = IF Len(group[c]) > 1 THEN "scatter" ELSE "renotify"]
      /\ lastSolved' = [lastSolved EXCEPT ![c] = 0]
      /\ UNCHANGED <<slotVars, workerVars, stopGpuWorker, scan, deferred, device>>
  BY DEF CountBatch, mainVars
<1>2. exactCount' \in [Coordinators -> BOOLEAN]
  BY <1>t DEF CountBatch, ContentTyping
<1>3. ContentTyping'
  <2>1. 0 \in 0 .. Trials
    BY PipelineAssumption
  <2>2. lastSolved' \in [Coordinators -> 0 .. Trials]
    BY <2>1, <1>1, <1>t DEF ContentTyping
  <2> QED  BY <2>2, <1>1, <1>2, <1>t DEF ContentTyping, slotVars, workerVars
<1>4. SlotBatches'
  BY <1>1, BatchesKept DEF workerVars
<1>5. LaunchAt(c)'
  <2>1. cpc'[c] \in {"scatter", "renotify"} /\ group'[c] = Tail(group[c])
    BY <1>1, <1>t DEF Typing
  <2>2. LiveGroup(c)' = LiveGroup(c)
    BY <2>1, <1>1 DEF LiveGroup
  <2>3. Batches(c)' = Batches(c)
    BY <2>2, <1>1 DEF Batches, slotVars
  <2> QED  BY <2>1, <2>3, <1>1, <1>t DEF LaunchAt
<1> QED  BY <1>3, <1>4, <1>5, CoordinatorContents DEF Coordinator

-----------------------------------------------------------------------------
(* Every step.                                                             *)

LEMMA MainContents ==
  ASSUME BInv, StopPipeline \/ NotifyStop \/ Join \/ UNCHANGED vars
  PROVE  Contents'
<1>1. /\ UNCHANGED <<slotVars, workerVars, scan, group, deferred, device, exactCount, lastSolved>>
      /\ \A c \in Coordinators : cpc'[c] = cpc[c] \/ (cpc[c] = "blocked" /\ cpc'[c] = "lock")
      /\ stopGpuWorker' \in BOOLEAN
  BY DEF BInv, IInv, Typing, Contents, ContentTyping, StopPipeline, NotifyStop, Join, NotifyAll,
     vars, coordVars, mainVars
<1>2. ContentTyping'
  BY <1>1 DEF BInv, Contents, ContentTyping, slotVars, workerVars
<1>3. SlotBatches'
  BY <1>1, BatchesKept DEF workerVars
<1>4. Launches'
  BY <1>1, LaunchKept DEF Launches, slotVars
<1>5. Sends' /\ AllHeldOnce' /\ OwnResults'
  BY <1>1, CallsKept DEF slotVars
<1> QED  BY <1>2, <1>3, <1>4, <1>5 DEF Contents

LEMMA NextBInv == BInv /\ [Next]_vars => BInv'
<1> SUFFICES ASSUME BInv, [Next]_vars
             PROVE  BInv'
  OBVIOUS
<1>1. IInv'
  BY NextIInv DEF BInv
<1>2. ASSUME NEW w \in Workers, Worker(w)
      PROVE  Contents'
  BY <1>2, StartCallStep, BeginFillingContents, AppendPuzzleContents, MarkReadyContents,
     ProcessDoneContents, StandingSteps DEF Worker
<1>3. ASSUME NEW c \in Coordinators, Coordinator(c)
      PROVE  Contents'
  BY <1>3, WaitingSteps, TakeDeferredContents, ClaimContents, LaunchContents, ScatterContents,
     CountBatchContents DEF Coordinator
<1>4. ASSUME Main \/ Terminated \/ UNCHANGED vars
      PROVE  Contents'
  BY <1>4, MainContents DEF Main, Terminated
<1> QED  BY <1>1, <1>2, <1>3, <1>4 DEF Next, BInv

\* The batches are where the invariant says in every reachable state.
THEOREM BatchInvariance == Spec => []BInv
<1> QED  BY InitBInv, NextBInv, PTL DEF Spec

-----------------------------------------------------------------------------
(* What follows from it.                                                   *)

LEMMA OutstandingBounded ==
  ASSUME IInv, NEW w \in Workers
  PROVE  outstanding[w] \in 0 .. SlotsPerWorker
<1>1. IsFiniteSet(Own(w)) /\ Cardinality(Own(w)) = SlotsPerWorker
  BY OwnCardinality
<1>2. InUse(w) \subseteq Own(w)
  BY DEF InUse
<1>3. Cardinality(InUse(w)) \in Nat /\ Cardinality(InUse(w)) <= SlotsPerWorker
  <2>1. IsFiniteSet(InUse(w)) /\ Cardinality(InUse(w)) <= Cardinality(Own(w))
    BY <1>1, <1>2, FS_Subset
  <2>2. Cardinality(InUse(w)) \in Nat
    BY <2>1, FS_CardinalityType
  <2> QED  BY <2>1, <2>2, <1>1
<1>4. outstanding[w] = Cardinality(InUse(w))
  BY DEF IInv, OutstandingExact
<1> HIDE DEF InUse
<1>5. PICK n \in Nat : n = Cardinality(InUse(w)) /\ n <= SlotsPerWorker
  BY <1>3
<1>6. n \in 0 .. SlotsPerWorker
  BY <1>5, PipelineAssumption
<1> QED  BY <1>4, <1>5, <1>6

\* Every variable stays in its range: in particular no worker counts more
\* slots outstanding than it owns, no queue offset leaves the queues, and no
\* launch solves more puzzles of a slot than the slot has room for.
THEOREM TypesCorrect == Spec => []TypeOK
<1>1. BInv => TypeOK
  <2> SUFFICES ASSUME BInv PROVE TypeOK
    OBVIOUS
  <2>1. Typing /\ ContentTyping /\ Quiet
    BY DEF BInv, IInv, Contents
  <2>2. outstanding \in [Workers -> 0 .. SlotsPerWorker]
    BY <2>1, OutstandingBounded DEF BInv, Typing
  <2> QED  BY <2>1, <2>2 DEF Typing, ContentTyping, Quiet, TypeOK
<1> QED  BY <1>1, BatchInvariance, PTL

\* A coordinator never hands solve_gpu_task_group a group it throws at, and
\* sets aside at most one task.
THEOREM LaunchesAccepted == Spec => []LaunchNeverThrows
<1>1. BInv => LaunchNeverThrows
  <2> SUFFICES ASSUME BInv, NEW c \in Coordinators
               PROVE  /\ cpc[c] = "launch" => group[c] # << >> /\ LaunchChecks(group[c])
                      /\ Len(deferred[c]) <= 1
    BY DEF LaunchNeverThrows
  <2>1. LaunchAt(c) /\ SlotBatches /\ Typing /\ SingleCustody
    BY DEF BInv, IInv, Contents, Launches
  <2>2. ASSUME cpc[c] = "launch"
        PROVE  group[c] # << >> /\ LaunchChecks(group[c])
    <3>1. group[c] # << >>
      BY <2>2 DEF BInv, IInv, CoordinatorHolds
    <3>2. LiveGroup(c) = group[c]
      BY <2>2 DEF LiveGroup
    <3>3. \A j \in DOMAIN group[c] : puzzles[group[c][j]] # << >>
      <4>1. \A i \in ToSet(group[c]) : i \in Slots /\ state[i] = "Processing"
        BY <2>1, <3>2 DEF SingleCustody, Typing, ToSet
      <4>2. \A i \in ToSet(group[c]) : puzzles[i] # << >>
        BY <2>1, <4>1 DEF SlotBatches, BatchAt
      <4> QED  BY <4>2 DEF ToSet
    <3> QED  BY <2>1, <2>2, <3>1, <3>3 DEF LaunchAt, LaunchChecks
  <2> QED  BY <2>1, <2>2 DEF LaunchAt
<1> QED  BY <1>1, BatchInvariance, PTL

\* Whatever slots a launch coalesces, each candidate gets its own result.
THEOREM ResultsOwned == Spec => []OwnResults
<1> QED  BY BatchInvariance, PTL DEF BInv, Contents

\* No candidate of an expansion is lost in a slot or handed over twice.
THEOREM CandidatesOnce == Spec => []EveryCandidateOnce
<1>1. BInv => EveryCandidateOnce
  BY DEF BInv, Contents, AllHeldOnce, HeldOnce, EveryCandidateOnce, Used, Held, OwnBatches
<1> QED  BY <1>1, BatchInvariance, PTL

-----------------------------------------------------------------------------
(* The pipeline implements the service.                                    *)

\* What the refinement maps to `answered`.
Answers(w) == {d[1].n : d \in {e \in delivered[w] : e[1] = e[2] /\ e[1].call = calls[w]}}

LEMMA AnswersAreUsed ==
  ASSUME OwnResults, NEW w \in Workers
  PROVE  Answers(w) = Used(w)
<1>1. {e \in delivered[w] : e[1] = e[2] /\ e[1].call = calls[w]} = delivered[w]
  BY DEF OwnResults
<1> QED  BY <1>1 DEF Answers, Used

LEMMA AnswersAreUsedNext ==
  ASSUME OwnResults', NEW w \in Workers
  PROVE  Answers(w)' = Used(w)'
<1>1. {e \in delivered'[w] : e[1] = e[2] /\ e[1].call = calls'[w]} = delivered'[w]
  BY DEF OwnResults
<1> QED  BY <1>1 DEF Answers, Used

LEMMA CallImplemented ==
  ASSUME BInv, OwnResults', NEW w \in Workers, StartCall(w)
  PROVE  Service!Call(w)
<1>t. Typing /\ ContentTyping
  BY DEF BInv, IInv, Contents
<1>1. /\ wpc[w] = "idle" /\ wpc' = [wpc EXCEPT ![w] = "acquire"]
      /\ stopping' = [stopping EXCEPT ![w] = FALSE]
      /\ delivered' = [delivered EXCEPT ![w] = {}]
      /\ \E n \in 1 .. MaxPuzzles : todo' = [todo EXCEPT ![w] = n]
  BY DEF StartCall
<1>2. [v \in Workers |-> wpc'[v] # "idle"] = [[v \in Workers |-> wpc[v] # "idle"] EXCEPT ![w] = TRUE]
  BY <1>1, <1>t DEF Typing
<1>3. Used(w)' = {} /\ \A v \in Workers \ {w} : Used(v)' = Used(v)
  BY <1>1, <1>t DEF Used, ContentTyping
<1>4. Answers(w)' = {} /\ \A v \in Workers \ {w} : Answers(v)' = Answers(v)
  BY <1>3, AnswersAreUsed, AnswersAreUsedNext DEF BInv, Contents
<1>5. [v \in Workers |-> Answers(v)'] = [[v \in Workers |-> Answers(v)] EXCEPT ![w] = {}]
  BY <1>4
<1> QED  BY <1>1, <1>2, <1>5 DEF Service!Call, Answers

LEMMA AnswerImplemented ==
  ASSUME BInv, OwnResults', NEW w \in Workers, ProcessDone(w)
  PROVE  Service!Answer(w) \/ UNCHANGED Service!svars
<1>t. Typing /\ ContentTyping /\ SendsAt(w) /\ OwnResults
  BY DEF BInv, IInv, Contents, Sends
<1>1. PICK i \in Own(w) : state[i] = "Done" /\ Deliver(w, i)
  BY DEF ProcessDone
<1>2. wpc[w] \in {"acquire", "backoff", "drain"} /\ UNCHANGED <<wpc, calls, todo>>
  BY DEF ProcessDone
<1>3. CASE stopping[w]
  <2>1. UNCHANGED <<stopping, delivered>>
    BY <1>1, <1>3 DEF Deliver
  <2> QED  BY <1>2, <2>1 DEF Service!svars
<1>4. CASE ~stopping[w]
  <2>1. PICK used \in 1 .. Len(puzzles[i]), hit \in BOOLEAN :
          /\ stopping' = [stopping EXCEPT ![w] = hit]
          /\ delivered' = [delivered EXCEPT ![w] =
               @ \cup {<<puzzles[i][j], results[i][j]>> : j \in 1 .. used}]
    BY <1>1, <1>4 DEF Deliver
  <2> DEFINE new == {puzzles[i][j].n : j \in 1 .. used}
  <2>2. i \in Slots /\ results[i] = puzzles[i] /\ puzzles[i] \in Seq(Candidate)
    BY <1>1, <1>t, OwnFinite DEF BInv, Contents, SlotBatches, BatchAt, ContentTyping
  <2>3. Used(w)' = Used(w) \cup new /\ \A v \in Workers \ {w} : Used(v)' = Used(v)
    <3>1. delivered'[w] = delivered[w] \cup {<<puzzles[i][j], results[i][j]>> : j \in 1 .. used}
          /\ \A v \in Workers \ {w} : delivered'[v] = delivered[v]
      BY <2>1, <1>t DEF ContentTyping
    <3>2. \A j : <<puzzles[i][j], results[i][j]>>[1] = puzzles[i][j]
      OBVIOUS
    <3>3. ASSUME NEW n
          PROVE  n \in Used(w)' <=> n \in Used(w) \/ n \in new
      <4> DEFINE fresh == {<<puzzles[i][j], results[i][j]>> : j \in 1 .. used}
      <4>1. n \in Used(w)' <=> \E d \in delivered[w] \cup fresh : n = d[1].n
        BY <3>1 DEF Used
      <4>2. n \in Used(w) <=> \E d \in delivered[w] : n = d[1].n
        BY DEF Used
      <4>3. ASSUME NEW d \in fresh, n = d[1].n
            PROVE  n \in new
        <5>1. PICK j \in 1 .. used : d = <<puzzles[i][j], results[i][j]>>
          OBVIOUS
        <5> QED  BY <4>3, <5>1
      <4>4. ASSUME n \in new
            PROVE  \E d \in fresh : n = d[1].n
        <5>1. PICK j \in 1 .. used : n = puzzles[i][j].n
          BY <4>4
        <5>2. <<puzzles[i][j], results[i][j]>> \in fresh
          OBVIOUS
        <5> QED  BY <3>2, <5>1, <5>2
      <4> HIDE DEF fresh, new
      <4> QED  BY <4>1, <4>2, <4>3, <4>4
    <3>4. Used(w)' = Used(w) \cup new
      BY <3>3
    <3>5. \A v \in Workers \ {w} : Used(v)' = Used(v)
      BY <3>1 DEF Used
    <3> QED  BY <3>4, <3>5
  <2>4. 1 .. used \subseteq DOMAIN puzzles[i] /\ 1 \in 1 .. used
    <3>1. Len(puzzles[i]) \in Nat /\ DOMAIN puzzles[i] = 1 .. Len(puzzles[i])
      BY <2>2
    <3>2. PICK m \in Nat : m = Len(puzzles[i])
      BY <3>1
    <3>3. used \in 1 .. m /\ 1 .. used \subseteq 1 .. m /\ 1 \in 1 .. used
      BY <3>2
    <3> QED  BY <3>1, <3>2, <3>3
  <2>5. new # {} /\ new \subseteq Held(i)
    BY <2>4 DEF Held
  <2>6. Held(i) \subseteq 1 .. sent[w] /\ Used(w) \cap Held(i) = {}
    <3>1. HeldOnce(w)
      BY <1>2, <1>4 DEF BInv, Contents, AllHeldOnce
    <3>2. Held(i) \subseteq UNION {Held(k) : k \in Own(w)}
      BY <1>1
    <3> QED  BY <3>1, <3>2, <1>1 DEF HeldOnce
  <2>7. 1 .. sent[w] \subseteq 1 .. todo[w]
    BY <1>t DEF SendsAt, ContentTyping
  <2> HIDE DEF new
  <2>8. new \in SUBSET ((1 .. todo[w]) \ Answers(w))
    BY <2>5, <2>6, <2>7, <1>t, AnswersAreUsed
  <2>9. [v \in Workers |-> Answers(v)'] =
          [[v \in Workers |-> Answers(v)] EXCEPT ![w] = @ \cup new]
    BY <2>3, <1>t, AnswersAreUsed, AnswersAreUsedNext
  <2>10. [v \in Workers |-> wpc[v] # "idle"][w] /\ [v \in Workers |-> Answers(v)][w] = Answers(w)
    BY <1>2
  <2> QED  BY <1>2, <1>4, <2>1, <2>5, <2>8, <2>9, <2>10 DEF Service!Answer, Answers
<1> QED  BY <1>3, <1>4

\* A worker that returns without a hit has used all it was asked for.
LEMMA ReturnImplemented ==
  ASSUME BInv, NEW w \in Workers, Return(w)
  PROVE  Service!Finish(w)
<1>t. Typing /\ ContentTyping /\ SendsAt(w) /\ OwnResults /\ HoldsAt(w)
  BY DEF BInv, IInv, Contents, Sends, WorkerHolds
<1>1. /\ wpc[w] = "drain" /\ outstanding[w] = 0 /\ wpc' = [wpc EXCEPT ![w] = "idle"]
      /\ UNCHANGED <<calls, todo, stopping, delivered>>
  BY DEF Return
<1>2. \A i \in Own(w) : state[i] = "Empty"
  <2>1. IsFiniteSet(InUse(w)) /\ Cardinality(InUse(w)) = 0
    BY <1>1, OwnFinite DEF InUse, BInv, IInv, OutstandingExact
  <2>2. InUse(w) = {}
    BY <2>1, FS_EmptySet
  <2>3. cur[w] = NoSlot /\ \A i \in Own(w) : cur[w] # i
    BY <1>1, <1>t, OwnFinite, PipelineAssumption DEF HoldsAt, NoSlot, Slots
  <2> QED  BY <1>1, <1>t, <2>2, <2>3, OwnFinite DEF InUse, HoldsAt, Typing, SlotStates
<1>3. ~stopping[w] => Used(w) = 1 .. todo[w]
  <2> SUFFICES ASSUME ~stopping[w] PROVE Used(w) = 1 .. todo[w]
    OBVIOUS
  <2>1. HeldOnce(w) /\ sent[w] = todo[w]
    BY <1>1, <1>t DEF BInv, Contents, AllHeldOnce, SendsAt
  <2>2. \A i \in Own(w) : Held(i) = {}
    <3>1. \A i \in Own(w) : puzzles[i] = << >>
      BY <1>2, OwnFinite DEF BInv, Contents, SlotBatches, BatchAt
    <3>2. DOMAIN << >> = {}
      OBVIOUS
    <3> QED  BY <3>1, <3>2 DEF Held
  <2>3. UNION {Held(i) : i \in Own(w)} = {}
    BY <2>2
  <2> QED  BY <2>1, <2>3 DEF HeldOnce
<1>4. [v \in Workers |-> wpc'[v] # "idle"] = [[v \in Workers |-> wpc[v] # "idle"] EXCEPT ![w] = FALSE]
  BY <1>1, <1>t DEF Typing
<1>5. [v \in Workers |-> Answers(v)][w] = Answers(w) /\ [v \in Workers |-> wpc[v] # "idle"][w]
  BY <1>1
<1>6. stopping[w] \/ [v \in Workers |-> Answers(v)][w] = 1 .. todo[w]
  BY <1>3, <1>5, <1>t, AnswersAreUsed
<1> QED  BY <1>1, <1>4, <1>5, <1>6 DEF Service!Finish, Answers

\* Every step of the pipeline is one of the service, or invisible to it.
LEMMA StepImplemented ==
  ASSUME BInv, OwnResults', [Next]_vars
  PROVE  [Service!SNext]_(Service!svars)
<1>1. ASSUME NEW w \in Workers, StartCall(w) \/ ProcessDone(w) \/ Return(w)
      PROVE  [Service!SNext]_(Service!svars)
  BY <1>1, CallImplemented, AnswerImplemented, ReturnImplemented DEF Service!SNext
<1>2. ASSUME NEW w \in Workers,
             \/ BeginFilling(w) \/ GiveUpFilling(w) \/ AppendPuzzle(w) \/ MarkReady(w)
             \/ PushAccepted(w) \/ PushRefused(w) \/ RetryPush(w) \/ NotifySubmitted(w)
      PROVE  UNCHANGED Service!svars
  <2>1. /\ wpc[w] # "idle" /\ UNCHANGED <<calls, todo, stopping, delivered>>
        /\ wpc' = wpc \/ \E there \in WorkerPcs \ {"idle"} : wpc' = [wpc EXCEPT ![w] = there]
    BY <1>2 DEF BeginFilling, GiveUpFilling, AppendPuzzle, MarkReady, PushAccepted, PushRefused,
       RetryPush, NotifySubmitted, WorkerPcs
  <2>2. [v \in Workers |-> wpc'[v] # "idle"] = [v \in Workers |-> wpc[v] # "idle"]
    BY <2>1 DEF BInv, IInv, Typing
  <2> QED  BY <2>1, <2>2 DEF Service!svars
<1>3. ASSUME UNCHANGED workerVars
      PROVE  UNCHANGED Service!svars
  BY <1>3 DEF workerVars, Service!svars
<1>4. ASSUME NEW c \in Coordinators, Coordinator(c)
      PROVE  UNCHANGED workerVars
  BY <1>4 DEF Coordinator, TakeDeferred, PopHead, SkipEmptyQueue, FindNothing, StopCheck,
     StopCoalescing, PollAgain, EnterWait, EvaluatePredicate, Block, SpuriousWakeup,
     Launch, CountBatch, Renotify, Claim, Scatter
<1>5. ASSUME Main \/ Terminated \/ UNCHANGED vars
      PROVE  UNCHANGED workerVars
  BY <1>5 DEF Main, StopPipeline, NotifyStop, Join, Terminated, vars
<1> QED  BY <1>1, <1>2, <1>3, <1>4, <1>5 DEF Next, Worker

\* Slots, queues, coordinators and coalesced launches together do what the
\* caller of expand_frontier_GPU was promised.
THEOREM Refinement == Spec => ImplementsService
<1>1. Init => Service!SInit
  <2> SUFFICES ASSUME Init PROVE Service!SInit
    OBVIOUS
  <2> QED  BY DEF Init, Service!SInit
<1>2. BInv /\ BInv' /\ [Next]_vars => [Service!SNext]_(Service!svars)
  BY StepImplemented DEF BInv, Contents
<1> QED  BY <1>1, <1>2, BatchInvariance, PTL DEF Spec, ImplementsService, Service!SSpec
=============================================================================
