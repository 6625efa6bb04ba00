---------------------------- MODULE GpuPipeline ----------------------------
(***************************************************************************)
(* The asynchronous CPU/GPU pipeline of the enhanced searcher.             *)
(*                                                                         *)
(* OpenMP workers (ILSStage::expand_frontier_GPU and its row-replacement   *)
(* variant) fill reusable GpuTask slots with candidate puzzles, push the   *)
(* slot ids on one of several bounded queues and collect the results.  GPU *)
(* coordinator threads (gpuCoordinator) pop ids, coalesce slots of equal   *)
(* dimensions into one launch, copy the results back and mark the slots    *)
(* Done.  The two sides share only the slot states, the id queues and one  *)
(* condition variable.  cleanupGpuPipeline stops and joins the             *)
(* coordinators.                                                           *)
(*                                                                         *)
(* One action is one step between two accesses to shared state.  The       *)
(* queues are taken at the level TaskIdQueue.tla refines: an id leaves in  *)
(* one step, and its ring cell is released in a later one.                 *)
(*                                                                         *)
(* Definitions introduced by "Faulty:" are variants with a plausible bug.  *)
(* No specification uses them; each shows that some property can fail.     *)
(***************************************************************************)
EXTENDS Integers, Sequences, FiniteSets, SequencesExt

CONSTANTS
  NumWorkers,       \* OpenMP threads that own slots
  SlotsPerWorker,   \* gpuSlotsPerWorker, at least 2
  NumCoordinators,  \* numGpuWorkers: coordinator threads, and id queues
  Dims,             \* the (s, k) dimensions a call may ask for
  Trials,           \* TRIALS: puzzles that fit in a slot
  LaunchSlots,      \* gpuLaunchSlotBatch: slots coalesced into one launch
  MaxCalls,         \* bound: expansions per worker
  MaxPuzzles        \* bound: candidates per expansion

ASSUME PipelineAssumption ==
  /\ NumWorkers \in Nat \ {0}
  /\ SlotsPerWorker \in Nat \ {0, 1}
  /\ NumCoordinators \in Nat \ {0}
  /\ Dims # {}
  /\ Trials \in Nat \ {0}
  /\ LaunchSlots \in Nat \ {0}
  /\ MaxCalls \in Nat
  /\ MaxPuzzles \in Nat

Workers      == 0 .. (NumWorkers - 1)
Coordinators == 0 .. (NumCoordinators - 1)
Queues       == Coordinators                \* one queue per coordinator
Slots        == 0 .. (NumWorkers * SlotsPerWorker - 1)

Owner(i)  == i \div SlotsPerWorker
Own(w)    == {i \in Slots : Owner(i) = w}
MaxTrials == LaunchSlots * Trials           \* gpu_resources.max_trials
NoSlot    == -1
NoDim     == "none"

\* Candidate n of the call-th expansion of worker w.  The device computes a
\* function of the puzzle alone, so a result is named by the puzzle it is for.
Candidate == [by : Workers, call : 0 .. MaxCalls, n : 1 .. MaxPuzzles]

VARIABLES
  \* GpuTask slots
  state, dim, puzzles, results,
  \* gpuTaskQueues and nextGpuTaskQueue
  queue, nextQueue,
  \* expansion calls: control point, dimensions, candidates asked for and
  \* generated so far, slot in hand, round-robin target queue and offset,
  \* outstanding and stop_processing
  wpc, calls, wdim, todo, sent, cur, target, attempt, outstanding, stopping,
  \* coordinators: control point, queue offset being scanned, popped id,
  \* tasks, deferred_tasks, results on the device
  cpc, scan, hand, group, deferred, device,
  \* gpuPuzzlesCompletedByWorker still equals the number of puzzles solved
  exactCount, lastSolved,
  \* the main thread: "search", "stopping", "joining", "joined"; and
  \* stopGpuWorker
  main, stopGpuWorker,
  \* ghost: candidates of the current call handed to add_to_frontier
  delivered

slotVars   == <<state, dim, puzzles, results>>
queueVars  == <<queue, nextQueue>>
workerVars == <<wpc, calls, wdim, todo, sent, cur, target, attempt,
                outstanding, stopping, delivered>>
coordVars  == <<cpc, scan, hand, group, deferred, device, exactCount, lastSolved>>
mainVars   == <<main, stopGpuWorker>>
vars       == <<slotVars, queueVars, workerVars, coordVars, mainVars>>

SlotStates  == {"Empty", "Filling", "Ready", "Processing", "Done"}
WorkerPcs   == {"idle", "acquire", "fill", "submit", "backoff", "notify", "drain"}
CoordPcs    == {"take", "claim", "stopcheck", "lock", "pred", "blocking", "blocked",
                "launch", "scatter", "count", "renotify", "exited"}

-----------------------------------------------------------------------------
Init ==
  /\ state   = [i \in Slots |-> "Empty"]
  /\ dim     = [i \in Slots |-> NoDim]
  /\ puzzles = [i \in Slots |-> << >>]
  /\ results = [i \in Slots |-> << >>]
  /\ queue     = [q \in Queues |-> << >>]
  /\ nextQueue = 0
  /\ wpc  = [w \in Workers |-> "idle"]
  /\ calls = [w \in Workers |-> 0]
  /\ wdim = [w \in Workers |-> NoDim]
  /\ todo = [w \in Workers |-> 0]
  /\ sent = [w \in Workers |-> 0]
  /\ cur  = [w \in Workers |-> NoSlot]
  /\ target  = [w \in Workers |-> 0]
  /\ attempt = [w \in Workers |-> 0]
  /\ outstanding = [w \in Workers |-> 0]
  /\ stopping    = [w \in Workers |-> FALSE]
  /\ delivered   = [w \in Workers |-> {}]
  /\ cpc  = [c \in Coordinators |-> "take"]
  /\ scan = [c \in Coordinators |-> 0]
  /\ hand = [c \in Coordinators |-> NoSlot]
  /\ group    = [c \in Coordinators |-> << >>]
  /\ deferred = [c \in Coordinators |-> << >>]
  /\ device   = [c \in Coordinators |-> << >>]
  /\ exactCount = [c \in Coordinators |-> TRUE]
  /\ lastSolved = [c \in Coordinators |-> 0]
  /\ main = "search"
  /\ stopGpuWorker = FALSE

-----------------------------------------------------------------------------
(***************************************************************************)
(* The condition variable gpuQueueCv.  Every wait sits between the pred    *)
(* and blocking points with gpuQueueMutex held; no notifier takes it.      *)
(***************************************************************************)
NotifyAll == cpc' = [c \in Coordinators |-> IF cpc[c] = "blocked" THEN "lock" ELSE cpc[c]]
MutexFree == \A c \in Coordinators : cpc[c] \notin {"pred", "blocking"}

\* A ring cell of queue q whose popper has not released it yet.  Only then
\* can try_push refuse: a queue holds one cell per slot.
CellHeld(q) == \E c \in Coordinators :
                 cpc[c] = "claim" /\ (c + scan[c]) % NumCoordinators = q

-----------------------------------------------------------------------------
(***************************************************************************)
(* Workers.                                                                *)
(***************************************************************************)

\* expand_frontier_GPU is called with at least one candidate.
StartCall(w) ==
  /\ wpc[w] = "idle" /\ main = "search" /\ calls[w] < MaxCalls
  /\ \E d \in Dims, n \in 1 .. MaxPuzzles :
       /\ wdim' = [wdim EXCEPT ![w] = d]
       /\ todo' = [todo EXCEPT ![w] = n]
  /\ calls'     = [calls EXCEPT ![w] = @ + 1]
  /\ sent'      = [sent EXCEPT ![w] = 0]
  /\ stopping'  = [stopping EXCEPT ![w] = FALSE]
  /\ delivered' = [delivered EXCEPT ![w] = {}]
  /\ wpc'       = [wpc EXCEPT ![w] = "acquire"]
  /\ UNCHANGED <<slotVars, queueVars, coordVars, mainVars,
                 cur, target, attempt, outstanding>>

\* acquire_slot: the first Empty slot of the worker, in id order.
BeginFilling(w) ==
  /\ wpc[w] = "acquire" /\ ~stopping[w]
  /\ \E i \in Own(w) :
       /\ state[i] = "Empty"
       /\ \A j \in Own(w) : j < i => state[j] # "Empty"
       /\ state'   = [state EXCEPT ![i] = "Filling"]
       /\ dim'     = [dim EXCEPT ![i] = wdim[w]]
       /\ puzzles' = [puzzles EXCEPT ![i] = << >>]
       /\ results' = [results EXCEPT ![i] = << >>]
       /\ cur'     = [cur EXCEPT ![w] = i]
  /\ wpc' = [wpc EXCEPT ![w] = "fill"]
  /\ UNCHANGED <<queueVars, coordVars, mainVars, calls, wdim, todo, sent,
                 target, attempt, outstanding, stopping, delivered>>

\* acquire_slot returns nullptr and the generation loop breaks.
GiveUpFilling(w) ==
  /\ wpc[w] = "acquire" /\ stopping[w]
  /\ wpc' = [wpc EXCEPT ![w] = "drain"]
  /\ UNCHANGED <<slotVars, queueVars, coordVars, mainVars, calls, wdim, todo, sent,
                 cur, target, attempt, outstanding, stopping, delivered>>

\* Faulty: one puzzle too many for the buffer.
SlotFullLate(w) == Len(puzzles[cur[w]]) > Trials \/ sent[w] = todo[w]

SlotFull(w) == Len(puzzles[cur[w]]) = Trials \/ sent[w] = todo[w]

AppendPuzzle(w) ==
  /\ wpc[w] = "fill" /\ ~SlotFull(w)
  /\ sent' = [sent EXCEPT ![w] = @ + 1]
  /\ puzzles' = [puzzles EXCEPT ![cur[w]] =
                   Append(@, [by |-> w, call |-> calls[w], n |-> sent[w] + 1])]
  /\ UNCHANGED <<state, dim, results, queueVars, coordVars, mainVars, wpc, calls, wdim,
                 todo, cur, target, attempt, outstanding, stopping, delivered>>

\* submit_slot: markReady, then the round-robin choice of the first queue.
MarkReady(w) ==
  /\ wpc[w] = "fill" /\ SlotFull(w)
  /\ state[cur[w]] = "Filling"
  /\ state'     = [state EXCEPT ![cur[w]] = "Ready"]
  /\ target'    = [target EXCEPT ![w] = nextQueue]
  /\ nextQueue' = (nextQueue + 1) % NumCoordinators
  /\ attempt'   = [attempt EXCEPT ![w] = 0]
  /\ wpc'       = [wpc EXCEPT ![w] = "submit"]
  /\ UNCHANGED <<dim, puzzles, results, queue, coordVars, mainVars, calls, wdim, todo,
                 sent, cur, outstanding, stopping, delivered>>

TargetQueue(w) == (target[w] + attempt[w]) % NumCoordinators

PushAccepted(w) ==
  /\ wpc[w] = "submit"
  /\ LET q == TargetQueue(w)
     IN  queue' = [queue EXCEPT ![q] = Append(@, cur[w])]
  /\ cur'         = [cur EXCEPT ![w] = NoSlot]
  /\ target'      = [target EXCEPT ![w] = 0]       \* locals of submit_slot
  /\ attempt'     = [attempt EXCEPT ![w] = 0]
  /\ outstanding' = [outstanding EXCEPT ![w] = @ + 1]
  /\ wpc'         = [wpc EXCEPT ![w] = "notify"]
  /\ UNCHANGED <<slotVars, nextQueue, coordVars, mainVars, calls, wdim, todo, sent,
                 stopping, delivered>>

\* After the last queue has refused, the worker drains some Done slots.
PushRefused(w) ==
  /\ wpc[w] = "submit" /\ CellHeld(TargetQueue(w))
  /\ IF attempt[w] + 1 < NumCoordinators
     THEN /\ attempt' = [attempt EXCEPT ![w] = @ + 1]
          /\ UNCHANGED wpc
     ELSE /\ attempt' = [attempt EXCEPT ![w] = 0]
          /\ wpc' = [wpc EXCEPT ![w] = "backoff"]
  /\ UNCHANGED <<slotVars, queueVars, coordVars, mainVars, calls, wdim, todo, sent,
                 cur, target, outstanding, stopping, delivered>>

RetryPush(w) ==
  /\ wpc[w] = "backoff"
  /\ wpc' = [wpc EXCEPT ![w] = "submit"]
  /\ UNCHANGED <<slotVars, queueVars, coordVars, mainVars, calls, wdim, todo, sent,
                 cur, target, attempt, outstanding, stopping, delivered>>

\* gpuQueueCv.notify_all() without gpuQueueMutex, then the loop condition.
NotifySubmitted(w) ==
  /\ wpc[w] = "notify"
  /\ NotifyAll
  /\ wpc' = [wpc EXCEPT ![w] = IF sent[w] < todo[w] /\ ~stopping[w] THEN "acquire" ELSE "drain"]
  /\ UNCHANGED <<slotVars, queueVars, mainVars, calls, wdim, todo, sent, cur, target,
                 attempt, outstanding, stopping, delivered,
                 scan, hand, group, deferred, device, exactCount, lastSolved>>

\* The loop over the results of a slot stops at a hit: a puzzle that fits
\* perfectly, or a result another worker of the stage has found meanwhile.
\* Faulty: it stops, but the expansion goes on.
DeliverSome(w, i) ==
  IF stopping[w]
  THEN UNCHANGED <<stopping, delivered>>
  ELSE \E used \in 1 .. Len(puzzles[i]) :
         /\ UNCHANGED stopping
         /\ delivered' = [delivered EXCEPT ![w] =
              @ \cup {<<puzzles[i][j], results[i][j]>> : j \in 1 .. used}]

Deliver(w, i) ==
  IF stopping[w]
  THEN UNCHANGED <<stopping, delivered>>
  ELSE \E used \in 1 .. Len(puzzles[i]), hit \in BOOLEAN :
         /\ ~hit => used = Len(puzzles[i])
         /\ stopping' = [stopping EXCEPT ![w] = hit]
         /\ delivered' = [delivered EXCEPT ![w] =
              @ \cup {<<puzzles[i][j], results[i][j]>> : j \in 1 .. used}]

\* Faulty: a slot dropped after a hit is not counted.
ProcessDoneUncounted(w) ==
  /\ wpc[w] \in {"acquire", "backoff", "drain"}
  /\ \E i \in Own(w) :
       /\ state[i] = "Done"
       /\ Deliver(w, i)
       /\ state'   = [state EXCEPT ![i] = "Empty"]
       /\ puzzles' = [puzzles EXCEPT ![i] = << >>]
       /\ outstanding' = [outstanding EXCEPT ![w] = IF stopping[w] THEN @ ELSE @ - 1]
  /\ UNCHANGED <<dim, results, queueVars, coordVars, mainVars, wpc, calls, wdim, todo,
                 sent, cur, target, attempt>>

\* Faulty: after a hit a slot is recycled whatever its state.
ProcessDoneAnyState(w) ==
  /\ wpc[w] \in {"acquire", "backoff", "drain"}
  /\ \E i \in Own(w) :
       /\ state[i] = "Done" \/ (stopping[w] /\ state[i] \in {"Ready", "Processing"})
       /\ Deliver(w, i)
       /\ state'   = [state EXCEPT ![i] = "Empty"]
       /\ puzzles' = [puzzles EXCEPT ![i] = << >>]
       /\ outstanding' = [outstanding EXCEPT ![w] = @ - 1]
  /\ UNCHANGED <<dim, results, queueVars, coordVars, mainVars, wpc, calls, wdim, todo,
                 sent, cur, target, attempt>>

\* process_done_slot.  A scan over the worker's slots visits them one by one
\* and may miss a slot that turns Done behind it, so which Done slots a scan
\* handles, and how many, is left open at the points where the code scans.
ProcessDone(w) ==
  /\ wpc[w] \in {"acquire", "backoff", "drain"}
  /\ \E i \in Own(w) :
       /\ state[i] = "Done"
       /\ Deliver(w, i)
       /\ state'   = [state EXCEPT ![i] = "Empty"]
       /\ puzzles' = [puzzles EXCEPT ![i] = << >>]
       /\ outstanding' = [outstanding EXCEPT ![w] = @ - 1]
  /\ UNCHANGED <<dim, results, queueVars, coordVars, mainVars, wpc, calls, wdim, todo,
                 sent, cur, target, attempt>>

\* Faulty: the final drain is left out.
ReturnEarly(w) ==
  /\ wpc[w] = "drain"
  /\ wpc' = [wpc EXCEPT ![w] = "idle"]
  /\ UNCHANGED <<slotVars, queueVars, coordVars, mainVars, calls, wdim, todo, sent,
                 cur, target, attempt, outstanding, stopping, delivered>>

Return(w) ==
  /\ wpc[w] = "drain" /\ outstanding[w] = 0
  /\ wpc' = [wpc EXCEPT ![w] = "idle"]
  /\ UNCHANGED <<slotVars, queueVars, coordVars, mainVars, calls, wdim, todo, sent,
                 cur, target, attempt, outstanding, stopping, delivered>>

-----------------------------------------------------------------------------
(***************************************************************************)
(* Coordinators.                                                           *)
(***************************************************************************)

\* any_gpu_task_queue_has_work reads the queues one after the other.
ScanQueue(c, found, none) ==
  /\ cpc'  = [cpc EXCEPT ![c] = IF queue[scan[c]] # << >> THEN found
                                ELSE IF scan[c] + 1 < NumCoordinators THEN cpc[c] ELSE none]
  /\ scan' = [scan EXCEPT ![c] = IF queue[scan[c]] = << >> /\ scan[c] + 1 < NumCoordinators
                                 THEN @ + 1 ELSE 0]

Total(g) == Len(FlattenSeq([j \in DOMAIN g |-> puzzles[g[j]]]))

\* Faulty: tasks of other dimensions join the group.
FitsAnyDim(c, i) == group[c] = << >> \/ Total(group[c]) + Len(puzzles[i]) <= MaxTrials

Fits(c, i) ==
  \/ group[c] = << >>
  \/ /\ dim[i] = dim[group[c][1]]
     /\ Total(group[c]) + Len(puzzles[i]) <= MaxTrials

\* A claimed task joins the group; one that does not fit closes it.
Accept(c, i) ==
  IF Fits(c, i)
  THEN LET g == Append(group[c], i)
       IN  /\ group' = [group EXCEPT ![c] = g]
           /\ cpc'   = [cpc EXCEPT ![c] = IF Len(g) < LaunchSlots /\ Total(g) < MaxTrials
                                          THEN "take" ELSE "launch"]
  ELSE cpc' = [cpc EXCEPT ![c] = "launch"] /\ UNCHANGED group

TakeDeferred(c) ==
  /\ cpc[c] = "take" /\ deferred[c] # << >>
  /\ Accept(c, Head(deferred[c]))
  /\ deferred' = [deferred EXCEPT ![c] =
                    IF Fits(c, Head(@)) THEN Tail(@) ELSE @]
  /\ scan'     = [scan EXCEPT ![c] = 0]
  /\ UNCHANGED <<slotVars, queueVars, workerVars, mainVars, hand, device, exactCount,
                 lastSolved>>

ScannedQueue(c) == (c + scan[c]) % NumCoordinators

\* Faulty: the id is read but stays in the queue.
PopHeadTwice(c) ==
  /\ cpc[c] = "take" /\ deferred[c] = << >> /\ scan[c] < NumCoordinators
  /\ queue[ScannedQueue(c)] # << >>
  /\ hand' = [hand EXCEPT ![c] = Head(queue[ScannedQueue(c)])]
  /\ cpc' = [cpc EXCEPT ![c] = "claim"]
  /\ UNCHANGED <<slotVars, queueVars, workerVars, mainVars, scan, group, deferred, device,
                 exactCount, lastSolved>>

PopHead(c) ==
  /\ cpc[c] = "take" /\ deferred[c] = << >> /\ scan[c] < NumCoordinators
  /\ LET q == ScannedQueue(c)
     IN  /\ queue[q] # << >>
         /\ hand'  = [hand EXCEPT ![c] = Head(queue[q])]
         /\ queue' = [queue EXCEPT ![q] = Tail(@)]
  /\ cpc' = [cpc EXCEPT ![c] = "claim"]
  /\ UNCHANGED <<slotVars, nextQueue, workerVars, mainVars, scan, group, deferred, device,
                 exactCount, lastSolved>>

SkipEmptyQueue(c) ==
  /\ cpc[c] = "take" /\ deferred[c] = << >> /\ scan[c] < NumCoordinators
  /\ queue[ScannedQueue(c)] = << >>
  /\ scan' = [scan EXCEPT ![c] = @ + 1]
  /\ UNCHANGED <<slotVars, queueVars, workerVars, mainVars, cpc, hand, group, deferred,
                 device, exactCount, lastSolved>>

\* Faulty: a claimed task that does not fit is not kept for the next launch.
ClaimForgets(c) ==
  /\ cpc[c] = "claim" /\ state[hand[c]] = "Ready"
  /\ state' = [state EXCEPT ![hand[c]] = "Processing"]
  /\ scan'  = [scan EXCEPT ![c] = 0]
  /\ Accept(c, hand[c])
  /\ hand'  = [hand EXCEPT ![c] = NoSlot]
  /\ UNCHANGED <<dim, puzzles, results, queueVars, workerVars, mainVars, deferred, device,
                 exactCount, lastSolved>>

\* try_claim_gpu_task: an id whose slot is not Ready would be dropped.
Claim(c) ==
  /\ cpc[c] = "claim"
  /\ LET i == hand[c]
     IN  IF state[i] = "Ready"
         THEN /\ state' = [state EXCEPT ![i] = "Processing"]
              /\ scan'  = [scan EXCEPT ![c] = 0]
              /\ Accept(c, i)
              /\ deferred' = [deferred EXCEPT ![c] =
                                IF Fits(c, i) THEN @ ELSE <<i>> \o @]
         ELSE cpc' = [cpc EXCEPT ![c] = "take"] /\ UNCHANGED <<state, scan, group, deferred>>
  /\ hand' = [hand EXCEPT ![c] = NoSlot]
  /\ UNCHANGED <<dim, puzzles, results, queueVars, workerVars, mainVars, device, exactCount,
                 lastSolved>>

NothingTaken(c) == cpc[c] = "take" /\ deferred[c] = << >> /\ scan[c] = NumCoordinators

\* Faulty: stopGpuWorker is looked at in the wait only.
FindNothingAndWait(c) ==
  /\ NothingTaken(c) /\ group[c] = << >>
  /\ cpc'  = [cpc EXCEPT ![c] = "lock"]
  /\ scan' = [scan EXCEPT ![c] = 0]
  /\ UNCHANGED <<slotVars, queueVars, workerVars, mainVars, hand, group, deferred, device,
                 exactCount, lastSolved>>

\* No first task: leave if stopping and drained, else wait for work.
FindNothing(c) ==
  /\ NothingTaken(c) /\ group[c] = << >>
  /\ cpc'  = [cpc EXCEPT ![c] = IF stopGpuWorker THEN "stopcheck" ELSE "lock"]
  /\ scan' = [scan EXCEPT ![c] = 0]
  /\ UNCHANGED <<slotVars, queueVars, workerVars, mainVars, hand, group, deferred, device,
                 exactCount, lastSolved>>

StopCheck(c) ==
  /\ cpc[c] = "stopcheck"
  /\ ScanQueue(c, "lock", "exited")
  /\ UNCHANGED <<slotVars, queueVars, workerVars, mainVars, hand, group, deferred, device,
                 exactCount, lastSolved>>

\* Faulty: the deadline is moved with every poll, so only stopping ends the wait.
StopCoalescingLate(c) ==
  /\ NothingTaken(c) /\ group[c] # << >> /\ stopGpuWorker
  /\ cpc'  = [cpc EXCEPT ![c] = "launch"]
  /\ scan' = [scan EXCEPT ![c] = 0]
  /\ UNCHANGED <<slotVars, queueVars, workerVars, mainVars, hand, group, deferred, device,
                 exactCount, lastSolved>>

\* The coalescing deadline has passed, or the pipeline stops: launch as is.
StopCoalescing(c) ==
  /\ NothingTaken(c) /\ group[c] # << >>
  /\ cpc'  = [cpc EXCEPT ![c] = "launch"]
  /\ scan' = [scan EXCEPT ![c] = 0]
  /\ UNCHANGED <<slotVars, queueVars, workerVars, mainVars, hand, group, deferred, device,
                 exactCount, lastSolved>>

\* Before the deadline the queues are polled again.
PollAgain(c) ==
  /\ NothingTaken(c) /\ group[c] # << >> /\ ~stopGpuWorker
  /\ scan' = [scan EXCEPT ![c] = 0]
  /\ UNCHANGED <<slotVars, queueVars, workerVars, mainVars, cpc, hand, group, deferred,
                 device, exactCount, lastSolved>>

\* gpuQueueCv.wait: the predicate is evaluated with the mutex held ...
EnterWait(c) ==
  /\ cpc[c] = "lock" /\ MutexFree
  /\ cpc'  = [cpc EXCEPT ![c] = IF stopGpuWorker THEN "take" ELSE "pred"]
  /\ scan' = [scan EXCEPT ![c] = 0]
  /\ UNCHANGED <<slotVars, queueVars, workerVars, mainVars, hand, group, deferred, device,
                 exactCount, lastSolved>>

EvaluatePredicate(c) ==
  /\ cpc[c] = "pred"
  /\ ScanQueue(c, "take", "blocking")
  /\ UNCHANGED <<slotVars, queueVars, workerVars, mainVars, hand, group, deferred, device,
                 exactCount, lastSolved>>

\* ... and only then the thread joins the waiters and releases the mutex.
Block(c) ==
  /\ cpc[c] = "blocking"
  /\ cpc' = [cpc EXCEPT ![c] = "blocked"]
  /\ UNCHANGED <<slotVars, queueVars, workerVars, mainVars, scan, hand, group, deferred,
                 device, exactCount, lastSolved>>

\* The C++ library may wake a waiter without a notification; it need not.
SpuriousWakeup(c) ==
  /\ cpc[c] = "blocked"
  /\ cpc' = [cpc EXCEPT ![c] = "lock"]
  /\ UNCHANGED <<slotVars, queueVars, workerVars, mainVars, scan, hand, group, deferred,
                 device, exactCount, lastSolved>>

\* solve_gpu_task_group throws std::logic_error unless this holds.
LaunchChecks(g) ==
  /\ \A j \in DOMAIN g : dim[g[j]] = dim[g[1]] /\ puzzles[g[j]] # << >>
  /\ Total(g) <= MaxTrials

\* Concatenate the pinned inputs on the device and run the kernel over them.
Launch(c) ==
  /\ cpc[c] = "launch" /\ LaunchChecks(group[c])
  /\ device' = [device EXCEPT ![c] =
                  FlattenSeq([j \in DOMAIN group[c] |-> puzzles[group[c][j]]])]
  /\ cpc' = [cpc EXCEPT ![c] = "scatter"]
  /\ UNCHANGED <<slotVars, queueVars, workerVars, mainVars, scan, hand, group, deferred,
                 exactCount, lastSolved>>

\* Faulty: result_offset is not advanced.
ScatterSameOffset(c) ==
  /\ cpc[c] = "scatter"
  /\ LET i == Head(group[c])
         n == Len(puzzles[i])
     IN  /\ state[i] = "Processing"
         /\ results' = [results EXCEPT ![i] = SubSeq(device[c], 1, n)]
         /\ state'   = [state EXCEPT ![i] = "Done"]
         /\ lastSolved' = [lastSolved EXCEPT ![c] = n]
  /\ cpc' = [cpc EXCEPT ![c] = "count"]
  /\ UNCHANGED <<dim, puzzles, queueVars, workerVars, mainVars, scan, hand, group, deferred,
                 device, exactCount>>

\* Copy back the next task's share of the results and mark its slot Done.
Scatter(c) ==
  /\ cpc[c] = "scatter"
  /\ LET i == Head(group[c])
         n == Len(puzzles[i])
     IN  /\ state[i] = "Processing"
         /\ results' = [results EXCEPT ![i] = SubSeq(device[c], 1, n)]
         /\ device'  = [device EXCEPT ![c] = SubSeq(@, n + 1, Len(@))]
         /\ state'   = [state EXCEPT ![i] = "Done"]
         /\ lastSolved' = [lastSolved EXCEPT ![c] = n]
  /\ cpc' = [cpc EXCEPT ![c] = "count"]
  /\ UNCHANGED <<dim, puzzles, queueVars, workerVars, mainVars, scan, hand, group, deferred,
                 exactCount>>

\* The statistics add task->batch_size, read after the slot was given back.
CountBatch(c) ==
  /\ cpc[c] = "count"
  /\ LET i == Head(group[c])
     IN  exactCount' = [exactCount EXCEPT ![c] = @ /\ Len(puzzles[i]) = lastSolved[c]]
  /\ lastSolved' = [lastSolved EXCEPT ![c] = 0]
  /\ group' = [group EXCEPT ![c] = Tail(@)]
  /\ cpc'   = [cpc EXCEPT ![c] = IF Len(group[c]) > 1 THEN "scatter" ELSE "renotify"]
  /\ UNCHANGED <<slotVars, queueVars, workerVars, mainVars, scan, hand, deferred, device>>

\* After a launch the other coordinators are notified of the work left.
Renotify(c) ==
  /\ cpc[c] = "renotify"
  /\ IF queue[scan[c]] # << >>
     THEN /\ cpc'  = [d \in Coordinators |-> IF d = c THEN "take"
                                             ELSE IF cpc[d] = "blocked" THEN "lock" ELSE cpc[d]]
          /\ scan' = [scan EXCEPT ![c] = 0]
     ELSE ScanQueue(c, "take", "take")
  /\ UNCHANGED <<slotVars, queueVars, workerVars, mainVars, hand, group, deferred, device,
                 exactCount, lastSolved>>

-----------------------------------------------------------------------------
(***************************************************************************)
(* The main thread: cleanupGpuPipeline, outside the OpenMP region.         *)
(***************************************************************************)
\* Faulty: the pipeline is stopped while workers are in an expansion.
StopPipelineAnyTime ==
  /\ main = "search"
  /\ main' = "stopping"
  /\ stopGpuWorker' = TRUE
  /\ UNCHANGED <<slotVars, queueVars, workerVars, coordVars>>

StopPipeline ==
  /\ main = "search" /\ \A w \in Workers : wpc[w] = "idle"
  /\ main' = "stopping"
  /\ stopGpuWorker' = TRUE
  /\ UNCHANGED <<slotVars, queueVars, workerVars, coordVars>>

NotifyStop ==
  /\ main = "stopping"
  /\ NotifyAll
  /\ main' = "joining"
  /\ UNCHANGED <<slotVars, queueVars, workerVars, stopGpuWorker,
                 scan, hand, group, deferred, device, exactCount, lastSolved>>

Join ==
  /\ main = "joining" /\ \A c \in Coordinators : cpc[c] = "exited"
  /\ main' = "joined"
  /\ UNCHANGED <<slotVars, queueVars, workerVars, coordVars, stopGpuWorker>>

\* The process goes on to exit: nothing of the pipeline is left to run.
Terminated == main = "joined" /\ UNCHANGED vars

-----------------------------------------------------------------------------
Worker(w) ==
  \/ StartCall(w) \/ BeginFilling(w) \/ GiveUpFilling(w) \/ AppendPuzzle(w)
  \/ MarkReady(w) \/ PushAccepted(w) \/ PushRefused(w) \/ RetryPush(w)
  \/ NotifySubmitted(w) \/ ProcessDone(w) \/ Return(w)

Coordinator(c) ==
  \/ TakeDeferred(c) \/ PopHead(c) \/ SkipEmptyQueue(c) \/ Claim(c)
  \/ FindNothing(c) \/ StopCheck(c) \/ StopCoalescing(c) \/ PollAgain(c)
  \/ EnterWait(c) \/ EvaluatePredicate(c) \/ Block(c) \/ SpuriousWakeup(c)
  \/ Launch(c) \/ Scatter(c) \/ CountBatch(c) \/ Renotify(c)

Main == StopPipeline \/ NotifyStop \/ Join

Next ==
  \/ \E w \in Workers : Worker(w)
  \/ \E c \in Coordinators : Coordinator(c)
  \/ Main
  \/ Terminated

Spec == Init /\ [][Next]_vars

(***************************************************************************)
(* Every thread keeps running, but nothing obliges a worker to expand      *)
(* again, the search to end, or the library to wake a waiter spuriously.   *)
(* The coalescing loop polls until a deadline passes, so it cannot find    *)
(* nothing for ever without giving up.                                     *)
(***************************************************************************)
WorkerRuns(w) ==
  \/ BeginFilling(w) \/ GiveUpFilling(w) \/ AppendPuzzle(w) \/ MarkReady(w)
  \/ PushAccepted(w) \/ PushRefused(w) \/ RetryPush(w) \/ NotifySubmitted(w)
  \/ ProcessDone(w) \/ Return(w)

CoordinatorRuns(c) ==
  \/ TakeDeferred(c) \/ PopHead(c) \/ SkipEmptyQueue(c) \/ Claim(c)
  \/ FindNothing(c) \/ StopCheck(c) \/ StopCoalescing(c) \/ PollAgain(c)
  \/ EnterWait(c) \/ EvaluatePredicate(c) \/ Block(c)
  \/ Launch(c) \/ Scatter(c) \/ CountBatch(c) \/ Renotify(c)

Fairness ==
  /\ \A w \in Workers : WF_vars(WorkerRuns(w))
  /\ \A c \in Coordinators : WF_vars(CoordinatorRuns(c)) /\ SF_vars(StopCoalescing(c))
  /\ WF_vars(NotifyStop) /\ WF_vars(Join)

FairSpec == Spec /\ Fairness

-----------------------------------------------------------------------------
(***************************************************************************)
(* Safety.                                                                 *)
(***************************************************************************)

\* The values every variable ranges over.
TypeOK ==
  /\ state   \in [Slots -> SlotStates]
  /\ dim     \in [Slots -> Dims \cup {NoDim}]
  /\ puzzles \in [Slots -> Seq(Candidate)]
  /\ results \in [Slots -> Seq(Candidate)]
  /\ queue     \in [Queues -> Seq(Slots)]
  /\ nextQueue \in Queues
  /\ wpc   \in [Workers -> WorkerPcs]
  /\ calls \in [Workers -> 0 .. MaxCalls]
  /\ wdim  \in [Workers -> Dims \cup {NoDim}]
  /\ todo  \in [Workers -> 0 .. MaxPuzzles]
  /\ sent  \in [Workers -> 0 .. MaxPuzzles]
  /\ cur   \in [Workers -> Slots \cup {NoSlot}]
  /\ target  \in [Workers -> Queues]
  /\ attempt \in [Workers -> Queues]
  /\ outstanding \in [Workers -> 0 .. SlotsPerWorker]
  /\ stopping  \in [Workers -> BOOLEAN]
  /\ delivered \in [Workers -> SUBSET (Candidate \X Candidate)]
  /\ cpc  \in [Coordinators -> CoordPcs]
  /\ scan \in [Coordinators -> 0 .. NumCoordinators]
  /\ hand \in [Coordinators -> Slots \cup {NoSlot}]
  /\ group    \in [Coordinators -> Seq(Slots)]
  /\ deferred \in [Coordinators -> Seq(Slots)]
  /\ device   \in [Coordinators -> Seq(Candidate)]
  /\ exactCount \in [Coordinators -> BOOLEAN]
  /\ lastSolved \in [Coordinators -> 0 .. Trials]
  /\ main \in {"search", "stopping", "joining", "joined"}
  /\ stopGpuWorker \in BOOLEAN

\* The places a slot id can be in between markReady and markDone.  After
\* markDone (control point count) the head of the group is only a stale pointer.
Submitting(i) == \E w \in Workers : cur[w] = i /\ wpc[w] \in {"submit", "backoff"}
LiveGroup(c)  == IF cpc[c] = "count" THEN Tail(group[c]) ELSE group[c]
Queued(i)     == \E q \in Queues : i \in ToSet(queue[q])
InHand(i)     == \E c \in Coordinators : hand[c] = i
Grouped(i)    == \E c \in Coordinators : i \in ToSet(LiveGroup(c))
Deferred(i)   == \E c \in Coordinators : i \in ToSet(deferred[c])

\* No slot id is lost: a Ready slot is still being submitted, or its id is in
\* a queue or in the hands of the coordinator that popped it; a Processing
\* slot is in some coordinator's group or deferred list.  An id dropped by
\* try_take_claimed_gpu_task_from_queue would leave its worker waiting for ever.
NothingDropped ==
  \A i \in Slots :
    /\ state[i] = "Ready" => Submitting(i) \/ Queued(i) \/ InHand(i)
    /\ state[i] = "Processing" => Grouped(i) \/ Deferred(i)

\* No slot id is in two places: an id in a queue or in a hand is of a Ready
\* slot and appears once, one in a group or deferred is of a Processing slot
\* and appears once.  Two coordinators with the same slot would run it twice
\* and throw in markDone.
SingleCustody ==
  /\ \A q \in Queues :
       /\ IsInjective(queue[q])
       /\ \A i \in ToSet(queue[q]) :
            /\ state[i] = "Ready" /\ ~Submitting(i) /\ ~InHand(i)
            /\ \A r \in Queues : i \in ToSet(queue[r]) => r = q
  /\ \A c \in Coordinators : hand[c] # NoSlot =>
       /\ state[hand[c]] = "Ready" /\ ~Submitting(hand[c])
       /\ \A d \in Coordinators : hand[d] = hand[c] => d = c
  /\ \A c \in Coordinators :
       /\ IsInjective(LiveGroup(c))
       /\ \A i \in ToSet(LiveGroup(c)) :
            /\ state[i] = "Processing" /\ ~Deferred(i)
            /\ \A d \in Coordinators : i \in ToSet(LiveGroup(d)) => d = c
  /\ \A c \in Coordinators :
       /\ IsInjective(deferred[c])
       /\ \A i \in ToSet(deferred[c]) :
            /\ state[i] = "Processing"
            /\ \A d \in Coordinators : i \in ToSet(deferred[d]) => d = c

InUse(w) == {i \in Own(w) : state[i] \in {"Ready", "Processing", "Done"} /\ cur[w] # i}

OutstandingExact == \A w \in Workers : outstanding[w] = Cardinality(InUse(w))

IdleWorkerOwnsNothing ==
  \A w \in Workers : wpc[w] = "idle" =>
    outstanding[w] = 0 /\ \A i \in Own(w) : state[i] = "Empty"

\* `outstanding` counts exactly the worker's slots that are queued, running or
\* Done and unread, so that the final drain loop neither returns early nor
\* waits for a slot nobody will finish; and when an expansion has returned,
\* none of the worker's slots is in use: the next expansion, possibly for
\* another stage with other dimensions, starts from a clean pool even when the
\* previous one stopped early (expand_frontier_GPU).
WorkersAccounted == OutstandingExact /\ IdleWorkerOwnsNothing

\* solve_gpu_task_group never throws: every group it is given is of one
\* dimension, holds no empty task and fits the device buffers, and at most one
\* task waits in deferred_tasks.
LaunchNeverThrows ==
  \A c \in Coordinators :
    /\ cpc[c] = "launch" => group[c] # << >> /\ LaunchChecks(group[c])
    /\ Len(deferred[c]) <= 1

\* A worker is handed, for each of its own candidates of the current call,
\* the result computed for that candidate and not one of a neighbour in the
\* coalesced launch or of an earlier use of the slot.
OwnResults ==
  \A w \in Workers : \A d \in delivered[w] :
    d[1] = d[2] /\ d[1].by = w /\ d[1].call = calls[w]

\* Until a hit stops it, an expansion accounts for each candidate generated so
\* far exactly once: it has been handed to the frontier or sits in one slot.
EveryCandidateOnce ==
  \A w \in Workers : wpc[w] # "idle" /\ ~stopping[w] =>
    LET used == {d[1].n : d \in delivered[w]}
        held(i) == {puzzles[i][j].n : j \in DOMAIN puzzles[i]}
    IN  /\ used \cup UNION {held(i) : i \in Own(w)} = 1 .. sent[w]
        /\ Cardinality(used) + Len(FlattenSeq([k \in 1 .. SlotsPerWorker |->
                              puzzles[w * SlotsPerWorker + k - 1]])) = sent[w]

\* A coordinator that has left its loop left nothing behind, and once all are
\* joined no queue holds an id and every slot is Empty: cleanupGpuPipeline
\* frees memory nobody will touch.
NoWorkAbandoned ==
  /\ \A c \in Coordinators : cpc[c] = "exited" =>
       hand[c] = NoSlot /\ group[c] = << >> /\ deferred[c] = << >>
  /\ main = "joined" => /\ \A q \in Queues : queue[q] = << >>
                        /\ \A i \in Slots : state[i] = "Empty"

\* From markReady to markDone the worker keeps its hands off the slot: the
\* device copies from the pinned buffer at any moment in between.
InputFrozen ==
  [][\A i \in Slots : state[i] \in {"Ready", "Processing"} =>
       /\ puzzles'[i] = puzzles[i] /\ dim'[i] = dim[i]
       /\ state'[i] \in {"Ready", "Processing", "Done"}]_vars

\* The per-device statistics count every solved puzzle once: the count added
\* for a task is the number of its puzzles the launch has solved.
StatisticsExact == \A c \in Coordinators : exactCount[c]

-----------------------------------------------------------------------------
(***************************************************************************)
(* What the pipeline is for: ExpandService.tla, implemented.               *)
(***************************************************************************)
\* A candidate counts as answered when its own result was handed over.
Service == INSTANCE ExpandService WITH
  Callers  <- Workers,
  MaxAsked <- MaxPuzzles,
  busy     <- [w \in Workers |-> wpc[w] # "idle"],
  asked    <- todo,
  answered <- [w \in Workers |->
                 {d[1].n : d \in {e \in delivered[w] : e[1] = e[2] /\ e[1].call = calls[w]}}],
  hit      <- stopping

\* Every behaviour of the pipeline is one of the service expand_frontier_GPU
\* promises: no call returns with a candidate unanswered, unless after a hit.
ImplementsService == Service!SSpec

-----------------------------------------------------------------------------
(***************************************************************************)
(* Liveness.                                                               *)
(***************************************************************************)

\* A slot a coordinator has claimed is finished, deferred or not, whatever
\* the other threads do.
ClaimedCompletes ==
  \A i \in Slots : state[i] = "Processing" ~> state[i] = "Done"

\* An expansion returns, as long as not every coordinator is left blocked for
\* ever on gpuQueueCv: a missed notification is the only way to hang.
CallsReturnIfAwake ==
  (\E c \in Coordinators : []<>(cpc[c] # "blocked"))
    => \A w \in Workers : wpc[w] = "acquire" ~> wpc[w] = "idle"

\* Shutdown completes as long as no coordinator is left blocked for ever.
ShutdownJoinsIfAwake ==
  (\A c \in Coordinators : []<>(cpc[c] # "blocked"))
    => (main = "stopping" ~> main = "joined")

\* The unconditional promise, which the code does not keep: a notification
\* sent between the evaluation of the wait predicate and the wait is lost.
CallsReturn == \A w \in Workers : wpc[w] = "acquire" ~> wpc[w] = "idle"
=============================================================================
