------------------------------ MODULE IdQueue ------------------------------
(***************************************************************************)
(* What GpuTaskIdQueue promises: a bounded first-in first-out queue of ids *)
(* for several producers and consumers, every id delivered once to one     *)
(* consumer.  An element is in the queue from the moment its push claims a *)
(* place, but can be popped only once the push has published it; a popped  *)
(* element occupies its place until the consumer has released it.          *)
(***************************************************************************)
EXTENDS Integers, Sequences, FiniteSets

CONSTANTS Consumers, Ids, Capacity, Nothing

VARIABLES items,      \* ids in the order their places were claimed
          hidden,     \* claimed but not published yet
          holding     \* the id a consumer has popped and not released yet

qvars == <<items, hidden, holding>>

Held == {c \in Consumers : holding[c] # Nothing}

QInit ==
  /\ items = << >>
  /\ hidden = {}
  /\ holding = [c \in Consumers |-> Nothing]

ClaimPlace(id) ==
  /\ Len(items) + Cardinality(Held) < Capacity
  /\ items' = Append(items, id)
  /\ hidden' = hidden \cup {id}
  /\ UNCHANGED holding

PublishId(id) ==
  /\ id \in hidden
  /\ hidden' = hidden \ {id}
  /\ UNCHANGED <<items, holding>>

Take(c) ==
  /\ holding[c] = Nothing
  /\ items # << >> /\ Head(items) \notin hidden
  /\ holding' = [holding EXCEPT ![c] = Head(items)]
  /\ items' = Tail(items)
  /\ UNCHANGED hidden

ReleasePlace(c) ==
  /\ holding[c] # Nothing
  /\ holding' = [holding EXCEPT ![c] = Nothing]
  /\ UNCHANGED <<items, hidden>>

QNext ==
  \/ \E id \in Ids : ClaimPlace(id) \/ PublishId(id)
  \/ \E c \in Consumers : Take(c) \/ ReleasePlace(c)

QSpec == QInit /\ [][QNext]_qvars
=============================================================================
