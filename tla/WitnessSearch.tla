---------------------------- MODULE WitnessSearch ----------------------------
(***************************************************************************)
(* heuristic_random_witness and heuristic_greedy: trials that try to build *)
(* a perfect matching other than the diagonal, entry by entry, without     *)
(* ever taking one back.  lrand48 is a choice among what it can select.    *)
(* A trial that gets stuck is followed by another, as often as the caller  *)
(* or the stopping condition of the loop likes.                            *)
(***************************************************************************)
EXTENDS Usp, FiniteSetsExt

CONSTANT Puzzles0    \* the puzzles to search

\* The rows of a puzzle are numbered from 0.
ASSUME PuzzlesAssumption ==
  \A q \in Puzzles0 : IsFiniteSet(DOMAIN q) /\ DOMAIN q = RowsOf(Height(q))

VARIABLES
  p, tdm,            \* the puzzle and its instance
  method, step,      \* which heuristic; rows or layers that are done
  used2, used3,      \* curr, curr_set
  layerCounts,       \* layer_counts
  isIdent, verdict

vars == <<p, tdm, method, step, used2, used3, layerCounts, isIdent, verdict>>

N      == Height(p)
TooBig == N * N + 1
Free(layer) == {e \in (RowsOf(N) \ used2) \X (RowsOf(N) \ used3) : <<layer, e[1], e[2]>> \in tdm}

Init ==
  /\ p \in Puzzles0
  /\ tdm = Instance(p, TRUE)
  /\ method = "none" /\ step = 0
  /\ used2 = {} /\ used3 = {}
  /\ layerCounts = [r \in DOMAIN p |-> 0]
  /\ isIdent = TRUE /\ verdict = "maybe"

Begin(m) ==
  /\ method = "none" /\ verdict = "maybe"
  /\ method' = m
  /\ step' = 0 /\ used2' = {} /\ used3' = {} /\ isIdent' = TRUE
  /\ layerCounts' = [layer \in RowsOf(N) |->
       IF m = "greedy" THEN Cardinality({c \in tdm : c[1] = layer}) ELSE 0]
  /\ UNCHANGED <<p, tdm, verdict>>

Insert(layer, e) ==
  /\ used2' = used2 \cup {e[1]}
  /\ used3' = used3 \cup {e[2]}
  /\ isIdent' = (isIdent /\ e = <<layer, layer>>)
  /\ step' = step + 1

\* The rows in order; the offsets make any free entry of the row the first.
TakeRandom(e) ==
  /\ method = "random" /\ step < N
  /\ e \in Free(step)
  /\ Insert(step, e)
  /\ UNCHANGED <<p, tdm, method, layerCounts, verdict>>

\* Faulty: an entry in both the row and the column that go is subtracted once
\* for each.  (A variant with a plausible bug; no specification uses it.)
LostTwice(layer, e) ==
  Cardinality({j \in RowsOf(N) \ used2 : <<layer, j, e[2]>> \in tdm})
  + Cardinality({k \in RowsOf(N) \ used3 : <<layer, e[1], k>> \in tdm})

\* What a layer loses with row e[1] and column e[2].
Lost(layer, e) ==
  Cardinality({j \in RowsOf(N) \ (used2 \cup {e[1]}) : <<layer, j, e[2]>> \in tdm})
  + Cardinality({k \in RowsOf(N) \ (used3 \cup {e[2]}) : <<layer, e[1], k>> \in tdm})
  + (IF <<layer, e[1], e[2]>> \in tdm THEN 1 ELSE 0)

\* One of the layers with the fewest entries left, and any of these.
Best == Min({layerCounts[layer] : layer \in RowsOf(N)})
TakeGreedy(layer, e) ==
  /\ method = "greedy" /\ step < N
  /\ layerCounts[layer] = Best /\ Best > 0
  /\ e \in Free(layer)
  /\ Insert(layer, e)
  /\ layerCounts' = [l \in RowsOf(N) |->
       IF l = layer \/ layerCounts[l] = TooBig THEN TooBig
       ELSE layerCounts[l] - Lost(l, e)]
  /\ UNCHANGED <<p, tdm, method, verdict>>

\* No entry is left for the row, or for some layer.
Stuck ==
  /\ step < N
  /\ \/ method = "random" /\ Free(step) = {}
     \/ method = "greedy" /\ Best = 0
  /\ method' = "none"
  /\ UNCHANGED <<p, tdm, step, used2, used3, layerCounts, isIdent, verdict>>

\* A full matching is a witness unless it is the diagonal.
Complete ==
  /\ method # "none" /\ step = N
  /\ method' = "none"
  /\ verdict' = IF isIdent THEN "maybe" ELSE "no"
  /\ UNCHANGED <<p, tdm, step, used2, used3, layerCounts, isIdent>>

Next ==
  \/ \E m \in {"random", "greedy"} : Begin(m)
  \/ \E e \in RowsOf(N) \X RowsOf(N) : TakeRandom(e) \/ (\E layer \in RowsOf(N) : TakeGreedy(layer, e))
  \/ Stuck \/ Complete

Spec == Init /\ [][Next]_vars

-----------------------------------------------------------------------------
CountsExact ==
  method = "greedy" =>
    \A layer \in RowsOf(N) : layerCounts[layer] # TooBig =>
      layerCounts[layer] = Cardinality(Free(layer))

WitnessReal == verdict = "no" => ~IsUSP(p, TRUE)

\* The counts the greedy search maintains are those of the entries still free, so
\* that it chooses among the tightest layers and always finds the entry it drew
\* (the assertions of heuristic_greedy); and a search that says no has found a
\* witness: the puzzle is no strong USP.
SearchSound == CountsExact /\ WitnessReal
=============================================================================
