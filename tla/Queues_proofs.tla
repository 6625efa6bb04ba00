--------------------------- MODULE Queues_proofs ---------------------------
(***************************************************************************)
(* Theorems about the two bounded queues of the program: the work queues   *)
(* of a stage (PuzQueue), and the ring of slot ids (TaskIdQueue).          *)
(***************************************************************************)
EXTENDS PuzQueue, TaskIdQueue, TLAPS, FiniteSetTheorems, SequenceTheorems,
        WellFoundedInduction

-----------------------------------------------------------------------------
(* Theorems about the work queues, for every limit, number of levels and   *)
(* priorities, and set of keys.  One queue is right (QueueOK) if it is     *)
(* within its limit and its cached bounds fit its elements; every          *)
(* operation keeps a right queue right, and no step does anything else to  *)
(* the queues.                                                             *)

QueueOK(q) ==
  /\ q \in Queue
  /\ IsFiniteSet(q.elts)
  /\ Cardinality(q.elts) <= Limit
  /\ q.elts # {} => \E e \in q.elts : e.key = q.worst
  /\ \A e \in q.elts : q.worst <= e.key /\ e.key <= q.best

WorkInv ==
  /\ DOMAIN work = Levels \X Priors /\ DOMAIN lists = Priors
  /\ \A lp \in Levels \X Priors : QueueOK(work[lp])
  /\ \A p \in Priors : QueueOK(lists[p])
  /\ created \in Nat
  /\ at.level \in Levels \cup {-1} /\ at.prior \in Priors
  /\ cur \in Priors

-----------------------------------------------------------------------------
(* Numbers.                                                                *)

LEMMA KeysAreIntegers == Keys \subseteq Int
BY QueueAssumption DEF Keys, Key, Fits

LEMMA ZeroIsKey == 0 \in Keys
<1>1. 0 \in Fits /\ 0 \in 0 .. (Jitters - 1) /\ Key(0, 0) = 0
  BY QueueAssumption DEF Fits, Key
<1> QED BY <1>1 DEF Keys

\* Some element of a finite set comes first, and some comes last, in the order
\* of the keys: otherwise the sets of smaller elements shrink for ever.
LEMMA FirstElement ==
  ASSUME NEW E, IsFiniteSet(E), E # {}, \A e \in E : e.key \in Int
  PROVE  \E e \in E : \A x \in E : e.key <= x.key
<1> DEFINE Below(e) == {x \in E : x.key < e.key}
           T == {Below(e) : e \in E}
           R == StrictSubsetOrdering(E)
<1>1. T \subseteq FiniteSubsetsOf(E) /\ T # {}
  <2>1. \A e \in E : Below(e) \in SUBSET E
    OBVIOUS
  <2>2. \A e \in E : IsFiniteSet(Below(e))
    BY <2>1, FS_Subset
  <2> HIDE DEF Below
  <2> QED BY <2>1, <2>2 DEF FiniteSubsetsOf
<1>2. PICK B \in T : \A C \in T : <<C, B>> \notin R
  <2> HIDE DEF T, R
  <2> QED BY <1>1, FS_StrictSubsetOrderingWellFounded, WFMin DEF R
<1>3. PICK e \in E : B = Below(e)
  OBVIOUS
<1>4. ASSUME NEW x \in E, x.key < e.key PROVE FALSE
  <2>1. Below(x) \subseteq Below(e)
    BY <1>4
  <2>2. x \in Below(e) /\ x \notin Below(x)
    BY <1>4
  <2>3. <<Below(x), Below(e)>> \in R
    BY <2>1, <2>2 DEF StrictSubsetOrdering
  <2> QED BY <1>2, <1>3, <2>3
<1> QED BY <1>4

LEMMA LastElement ==
  ASSUME NEW E, IsFiniteSet(E), E # {}, \A e \in E : e.key \in Int
  PROVE  \E e \in E : \A x \in E : x.key <= e.key
<1> DEFINE Above(e) == {x \in E : x.key > e.key}
           T == {Above(e) : e \in E}
           R == StrictSubsetOrdering(E)
<1>1. T \subseteq FiniteSubsetsOf(E) /\ T # {}
  <2>1. \A e \in E : Above(e) \in SUBSET E
    OBVIOUS
  <2>2. \A e \in E : IsFiniteSet(Above(e))
    BY <2>1, FS_Subset
  <2> HIDE DEF Above
  <2> QED BY <2>1, <2>2 DEF FiniteSubsetsOf
<1>2. PICK B \in T : \A C \in T : <<C, B>> \notin R
  <2> HIDE DEF T, R
  <2> QED BY <1>1, FS_StrictSubsetOrderingWellFounded, WFMin DEF R
<1>3. PICK e \in E : B = Above(e)
  OBVIOUS
<1>4. ASSUME NEW x \in E, x.key > e.key PROVE FALSE
  <2>1. Above(x) \subseteq Above(e)
    BY <1>4
  <2>2. x \in Above(e) /\ x \notin Above(x)
    BY <1>4
  <2>3. <<Above(x), Above(e)>> \in R
    BY <2>1, <2>2 DEF StrictSubsetOrdering
  <2> QED BY <1>2, <1>3, <2>3
<1> QED BY <1>4

LEMMA MinIsKey ==
  ASSUME NEW E \in SUBSET Elt, IsFiniteSet(E), E # {}
  PROVE  /\ Min(KeysOf(E)) \in Keys
         /\ \E e \in E : e.key = Min(KeysOf(E))
         /\ \A e \in E : Min(KeysOf(E)) <= e.key
<1>1. \A e \in E : e.key \in Keys /\ e.key \in Int
  BY KeysAreIntegers DEF Elt
<1>2. PICK e \in E : \A x \in E : e.key <= x.key
  BY <1>1, FirstElement
<1>3. e.key \in KeysOf(E) /\ \A k \in KeysOf(E) : e.key <= k
  BY <1>2 DEF KeysOf
<1>4. Min(KeysOf(E)) \in KeysOf(E) /\ \A k \in KeysOf(E) : Min(KeysOf(E)) <= k
  BY <1>3 DEF Min
<1> QED BY <1>1, <1>4 DEF KeysOf

LEMMA MaxIsKey ==
  ASSUME NEW E \in SUBSET Elt, IsFiniteSet(E), E # {}
  PROVE  /\ Max(KeysOf(E)) \in Keys
         /\ \A e \in E : e.key <= Max(KeysOf(E))
<1>1. \A e \in E : e.key \in Keys /\ e.key \in Int
  BY KeysAreIntegers DEF Elt
<1>2. PICK e \in E : \A x \in E : x.key <= e.key
  BY <1>1, LastElement
<1>3. e.key \in KeysOf(E) /\ \A k \in KeysOf(E) : e.key >= k
  BY <1>1, <1>2 DEF KeysOf
<1>4. Max(KeysOf(E)) \in KeysOf(E) /\ \A k \in KeysOf(E) : Max(KeysOf(E)) >= k
  BY <1>3 DEF Max
<1> QED BY <1>1, <1>4 DEF KeysOf

-----------------------------------------------------------------------------
(* One queue.                                                              *)

LEMMA FreshOK == QueueOK(Fresh)
BY FS_EmptySet, ZeroIsKey, QueueAssumption DEF QueueOK, Fresh, Queue

LEMMA ClearOK ==
  ASSUME NEW q, QueueOK(q)
  PROVE  QueueOK([q EXCEPT !.elts = {}])
BY FS_EmptySet, QueueAssumption DEF QueueOK, Queue

\* What remains of a right queue within its bounds is right.
LEMMA SubsetOfQueue ==
  ASSUME NEW q, QueueOK(q), NEW E \in SUBSET q.elts
  PROVE  /\ E \in SUBSET Elt /\ IsFiniteSet(E)
         /\ Cardinality(E) \in Nat /\ Cardinality(E) <= Limit
         /\ Cardinality(E) <= Cardinality(q.elts) /\ Cardinality(q.elts) \in Nat
<1>1. q.elts \in SUBSET Elt /\ IsFiniteSet(q.elts) /\ Cardinality(q.elts) <= Limit
  BY DEF QueueOK, Queue
<1>2. /\ IsFiniteSet(E) /\ Cardinality(E) <= Cardinality(q.elts)
      /\ Cardinality(E) \in Nat /\ Cardinality(q.elts) \in Nat
  BY <1>1, FS_Subset, FS_CardinalityType
<1> QED BY <1>1, <1>2, QueueAssumption

LEMMA InsertOK ==
  ASSUME NEW q, QueueOK(q), Cardinality(q.elts) < Limit, NEW e \in Elt
  PROVE  QueueOK(Insert(q, e))
<1> DEFINE r == Insert(q, e)
<1>1. /\ q \in Queue /\ IsFiniteSet(q.elts) /\ Cardinality(q.elts) \in Nat
      /\ e.key \in Keys /\ e.key \in Int
      /\ q.best \in Keys /\ q.worst \in Keys /\ q.best \in Int /\ q.worst \in Int
      /\ \A x \in q.elts : x \in Elt /\ x.key \in Int
  BY KeysAreIntegers, SubsetOfQueue DEF QueueOK, Queue, Elt
<1>2. CASE q.elts = {}
  <2>1. r = [elts |-> {e}, best |-> e.key, worst |-> e.key]
    BY <1>2 DEF Insert
  <2>2. IsFiniteSet({e}) /\ Cardinality({e}) = 1
    BY FS_Singleton
  <2> QED BY <1>1, <2>1, <2>2, QueueAssumption DEF QueueOK, Queue
<1>3. CASE q.elts # {}
  <2>1. /\ r.elts = q.elts \cup {e}
        /\ r.best = IF e.key > q.best THEN e.key ELSE q.best
        /\ r.worst = IF e.key < q.worst THEN e.key ELSE q.worst
        /\ r \in Queue
    BY <1>1, <1>3 DEF Insert, Queue
  <2>2. IsFiniteSet(r.elts) /\ Cardinality(r.elts) <= Limit
    <3>1. /\ IsFiniteSet(q.elts \cup {e})
          /\ \/ Cardinality(q.elts \cup {e}) = Cardinality(q.elts)
             \/ Cardinality(q.elts \cup {e}) = Cardinality(q.elts) + 1
      BY <1>1, FS_AddElement
    <3> QED BY <1>1, <2>1, <3>1, QueueAssumption
  <2>3. \E x \in r.elts : x.key = r.worst
    BY <1>1, <1>3, <2>1 DEF QueueOK
  <2>4. \A x \in r.elts : r.worst <= x.key /\ x.key <= r.best
    BY <1>1, <2>1 DEF QueueOK
  <2> QED BY <2>1, <2>2, <2>3, <2>4 DEF QueueOK
<1> QED BY <1>2, <1>3

\* Eviction makes room for at least one element.
LEMMA EvictOK ==
  ASSUME NEW q, QueueOK(q), q.elts # {}
  PROVE  /\ QueueOK(EvictWorst(q))
         /\ Cardinality(EvictWorst(q).elts) < Cardinality(q.elts)
<1> DEFINE m == Min(KeysOf(q.elts))
           kept == {x \in q.elts : x.key # m}
           r == EvictWorst(q)
<1>1. /\ q \in Queue /\ IsFiniteSet(q.elts) /\ q.elts \in SUBSET Elt
      /\ q.best \in Keys /\ q.worst \in Keys
  BY DEF QueueOK, Queue
<1>2. PICK w \in q.elts : w.key = m
  BY <1>1, MinIsKey
<1>3. /\ kept \in SUBSET q.elts /\ kept \in SUBSET Elt
      /\ IsFiniteSet(kept) /\ Cardinality(kept) <= Limit
      /\ Cardinality(kept) <= Cardinality(q.elts)
      /\ Cardinality(kept) \in Nat /\ Cardinality(q.elts) \in Nat
  <2>1. kept \in SUBSET q.elts
    OBVIOUS
  <2> HIDE DEF kept
  <2> QED BY <2>1, SubsetOfQueue
<1>4. Cardinality(kept) < Cardinality(q.elts)
  <2>1. kept # q.elts
    BY <1>2
  <2>2. Cardinality(kept) # Cardinality(q.elts)
    <3> HIDE DEF kept
    <3> QED BY <1>1, <1>3, <2>1, FS_Subset
  <2> QED BY <1>3, <2>2
<1>5. /\ r.elts = kept /\ r.best = q.best
      /\ r.worst = IF kept = {} THEN q.worst ELSE Min(KeysOf(kept))
      /\ r = [elts |-> r.elts, best |-> r.best, worst |-> r.worst]
  <2> DEFINE w2 == IF kept = {} THEN q.worst ELSE Min(KeysOf(kept))
  <2>1. r = [q EXCEPT !.elts = kept, !.worst = w2]
    BY DEF EvictWorst
  <2>2. q = [elts |-> q.elts, best |-> q.best, worst |-> q.worst]
    BY <1>1 DEF Queue
  <2> HIDE DEF kept, w2, r
  <2>3. r = [elts |-> kept, best |-> q.best, worst |-> w2]
    BY <2>1, <2>2
  <2> QED BY <2>3 DEF w2
<1> HIDE DEF m, kept, r
<1>6. kept # {} => /\ r.worst \in Keys
                   /\ \E e \in kept : e.key = r.worst
                   /\ \A e \in kept : r.worst <= e.key
  BY <1>3, <1>5, MinIsKey
<1>7. \A e \in kept : e.key <= r.best
  BY <1>3, <1>5 DEF QueueOK
<1>8. r \in Queue
  <2>1. r.worst \in Keys
    BY <1>1, <1>5, <1>6
  <2> QED BY <1>1, <1>3, <1>5, <2>1 DEF Queue
<1> QED BY <1>3, <1>4, <1>5, <1>6, <1>7, <1>8 DEF QueueOK, r

\* enqueue keeps a queue within its limit and its bounds true.
LEMMA EnqueueOK ==
  ASSUME NEW q, QueueOK(q), NEW e \in Elt
  PROVE  QueueOK(Enqueue(q, e))
<1>1. Cardinality(q.elts) \in Nat /\ Cardinality(q.elts) <= Limit
  BY SubsetOfQueue
<1>2. CASE Refuses(q, e)
  BY <1>2 DEF Enqueue
<1>3. CASE ~Refuses(q, e) /\ Cardinality(q.elts) = Limit
  <2>1. q.elts # {}
    BY <1>3, FS_EmptySet, QueueAssumption
  <2>2. QueueOK(EvictWorst(q)) /\ Cardinality(EvictWorst(q).elts) < Limit
    BY <1>3, <2>1, EvictOK
  <2>3. QueueOK(Insert(EvictWorst(q), e))
    BY <2>2, InsertOK
  <2> QED BY <1>3, <2>3 DEF Enqueue
<1>4. CASE ~Refuses(q, e) /\ Cardinality(q.elts) # Limit
  <2>1. Cardinality(q.elts) < Limit
    BY <1>1, <1>4, QueueAssumption
  <2>2. QueueOK(Insert(q, e))
    BY <2>1, InsertOK
  <2> QED BY <1>4, <2>2 DEF Enqueue
<1> QED BY <1>2, <1>3, <1>4

\* dequeue takes from the other end: the worst bound stays true as long as
\* anything is left, because ties of the worst go with it.
LEMMA DequeueOK ==
  ASSUME NEW q, QueueOK(q), NEW e \in BestsOf(q)
  PROVE  QueueOK(Dequeue(q, e))
<1> DEFINE kept == {x \in q.elts : x.key # e.key}
           r == Dequeue(q, e)
<1>1. /\ q \in Queue /\ q.elts \in SUBSET Elt /\ q.best \in Keys /\ q.worst \in Keys
      /\ e \in q.elts /\ \A x \in q.elts : x.key <= e.key /\ x.key \in Int
      /\ q.worst \in Int
  BY KeysAreIntegers DEF QueueOK, Queue, BestsOf, Elt
<1>2. /\ kept \in SUBSET q.elts /\ kept \in SUBSET Elt
      /\ IsFiniteSet(kept) /\ Cardinality(kept) <= Limit
  <2>1. kept \in SUBSET q.elts
    OBVIOUS
  <2> HIDE DEF kept
  <2> QED BY <2>1, SubsetOfQueue
<1>3. /\ r.elts = kept /\ r.worst = q.worst
      /\ r.best = IF Cardinality(kept) > 1 THEN Max(KeysOf(kept)) ELSE q.best
      /\ r = [elts |-> r.elts, best |-> r.best, worst |-> r.worst]
  <2> DEFINE b2 == IF Cardinality(kept) > 1 THEN Max(KeysOf(kept)) ELSE q.best
  <2>1. r = [q EXCEPT !.elts = kept, !.best = b2]
    BY DEF Dequeue
  <2>2. q = [elts |-> q.elts, best |-> q.best, worst |-> q.worst]
    BY <1>1 DEF Queue
  <2> HIDE DEF kept, b2, r
  <2>3. r = [elts |-> kept, best |-> b2, worst |-> q.worst]
    BY <2>1, <2>2
  <2> QED BY <2>3 DEF b2
<1>4. ASSUME kept # {} PROVE \E x \in kept : x.key = q.worst
  <2>1. PICK w \in q.elts : w.key = q.worst
    BY <1>1 DEF QueueOK
  <2>2. PICK x \in kept : TRUE
    BY <1>4
  <2>3. q.worst <= x.key /\ x.key < e.key
    BY <1>1 DEF QueueOK
  <2> QED BY <1>1, <2>1, <2>3
<1> HIDE DEF kept, r
<1>5. kept # {} => Max(KeysOf(kept)) \in Keys /\ \A x \in kept : x.key <= Max(KeysOf(kept))
  BY <1>2, MaxIsKey
<1>6. Cardinality(kept) > 1 => kept # {}
  BY FS_EmptySet
<1>7. \A x \in kept : q.worst <= x.key /\ x.key <= r.best
  BY <1>2, <1>3, <1>5 DEF QueueOK
<1>8. r \in Queue
  <2>1. r.best \in Keys
    BY <1>1, <1>3, <1>5, <1>6
  <2> QED BY <1>1, <1>2, <1>3, <2>1 DEF Queue
<1> QED BY <1>2, <1>3, <1>4, <1>7, <1>8 DEF QueueOK, r

\* The cached bound is the least key.
LEMMA WorstIsMin ==
  ASSUME NEW q, QueueOK(q), q.elts # {}
  PROVE  q.worst = Min(KeysOf(q.elts))
<1>1. /\ IsFiniteSet(q.elts) /\ q.elts \in SUBSET Elt
      /\ \A x \in q.elts : x.key \in Int
      /\ q.worst \in Int
  BY KeysAreIntegers DEF QueueOK, Queue, Elt
<1>2. /\ \E e \in q.elts : e.key = Min(KeysOf(q.elts))
      /\ \A e \in q.elts : Min(KeysOf(q.elts)) <= e.key
  BY <1>1, MinIsKey
<1> QED BY <1>1, <1>2 DEF QueueOK

\* What enqueue drops is worse than all it keeps.
LEMMA EnqueueEvicts ==
  ASSUME NEW q, QueueOK(q), NEW e \in Elt,
         NEW x \in q.elts, x \notin Enqueue(q, e).elts
  PROVE  Evicted(x, q, Enqueue(q, e))
<1> DEFINE m == Min(KeysOf(q.elts))
           kept == {z \in q.elts : z.key # m}
<1>1. /\ IsFiniteSet(q.elts) /\ q.elts \in SUBSET Elt /\ q \in Queue
      /\ \A z \in q.elts : z.key \in Int
      /\ q.worst \in Int /\ e.key \in Int
  BY KeysAreIntegers DEF QueueOK, Queue, Elt
<1>2. m = q.worst /\ \A z \in q.elts : m <= z.key
  BY WorstIsMin DEF QueueOK
<1>3. ~Refuses(q, e)
  BY DEF Enqueue
<1>4. Cardinality(q.elts) = Limit
  <2> SUFFICES ASSUME Cardinality(q.elts) # Limit PROVE FALSE
    OBVIOUS
  <2>1. Enqueue(q, e) = Insert(q, e)
    BY <1>3 DEF Enqueue
  <2>2. q.elts \subseteq Insert(q, e).elts
    BY DEF Insert
  <2> QED BY <2>1, <2>2
<1>5. e.key > q.worst
  BY <1>1, <1>3, <1>4 DEF Refuses
<1>6. EvictWorst(q).elts = kept
  BY <1>1 DEF EvictWorst, Queue
<1>7. Enqueue(q, e).elts \subseteq kept \cup {e} /\ kept \subseteq Enqueue(q, e).elts
  <2>1. Enqueue(q, e) = Insert(EvictWorst(q), e)
    BY <1>3, <1>4 DEF Enqueue
  <2>2. Insert(EvictWorst(q), e).elts = EvictWorst(q).elts \cup {e}
    BY DEF Insert
  <2> QED BY <1>6, <2>1, <2>2
<1>8. x.key = m
  BY <1>7
<1>9. \A y \in kept \cup {e} : x.key < y.key
  BY <1>1, <1>2, <1>5, <1>8
<1> QED BY <1>4, <1>7, <1>9 DEF Evicted

\* What enqueue refuses is no better than all it keeps.
LEMMA EnqueueRefuses ==
  ASSUME NEW q, QueueOK(q), NEW e \in Elt, e \notin Enqueue(q, e).elts
  PROVE  Refused(e, q, Enqueue(q, e))
<1>1. \A r : e \in Insert(r, e).elts
  BY DEF Insert
<1>2. Refuses(q, e) /\ Enqueue(q, e) = q
  BY <1>1 DEF Enqueue
<1>3. e.key \in Int /\ q.worst \in Int /\ \A y \in q.elts : y.key \in Int /\ q.worst <= y.key
  BY KeysAreIntegers DEF QueueOK, Queue, Elt
<1> QED BY <1>2, <1>3 DEF Refuses, Refused

-----------------------------------------------------------------------------
(* The queues of a stage.                                                  *)

LEMMA QueueIndices ==
  ASSUME WorkInv
  PROVE  /\ 0 \in Priors /\ 0 \in Levels
         /\ NextLevel \in Levels
         /\ \A fit \in Fits : PriorFor(fit) \in Priors
<1>1. 0 \in Priors /\ 0 \in Levels
  BY QueueAssumption DEF Priors, Levels
<1>2. NextLevel \in Levels
  BY QueueAssumption DEF WorkInv, NextLevel, Levels
<1>3. at.prior \in Int /\ \A i \in Int : Crop(i) \in Priors
  BY QueueAssumption DEF WorkInv, Crop, Priors
<1>4. \A fit \in Fits : PriorFor(fit) \in Priors
  BY <1>3 DEF PriorFor
<1> QED BY <1>1, <1>2, <1>4

LEMMA KeyOfFit ==
  ASSUME NEW fit \in Fits, NEW jitter \in 0 .. (Jitters - 1)
  PROVE  Key(fit, jitter) \in Keys
BY DEF Keys

LEMMA InitWorkInv == Init => WorkInv
<1> SUFFICES ASSUME Init PROVE WorkInv
  OBVIOUS
<1>1. PICK key \in Keys :
        work = [lp \in Levels \X Priors |->
                  IF lp = <<0, 0>> /\ MaxElts > 0
                  THEN Insert(Fresh, [id |-> 1, key |-> key, type |-> "named"])
                  ELSE Fresh]
  BY DEF Init
<1>2. [id |-> 1, key |-> key, type |-> "named"] \in Elt
  BY DEF Elt, Types
<1>3. QueueOK(Insert(Fresh, [id |-> 1, key |-> key, type |-> "named"]))
  <2>1. Cardinality(Fresh.elts) < Limit
    BY FS_EmptySet, QueueAssumption DEF Fresh
  <2> QED BY <1>2, <2>1, FreshOK, InsertOK
<1>4. DOMAIN work = Levels \X Priors /\ \A lp \in Levels \X Priors : QueueOK(work[lp])
  BY <1>1, <1>3, FreshOK
<1>5. DOMAIN lists = Priors /\ \A p \in Priors : QueueOK(lists[p])
  BY FreshOK DEF Init
<1>6. /\ created \in Nat /\ cur \in Priors
      /\ at.level \in Levels \cup {-1} /\ at.prior \in Priors
  BY QueueAssumption DEF Init, NoElt, Priors
<1> QED BY <1>4, <1>5, <1>6 DEF WorkInv

LEMMA NextWorkInv == WorkInv /\ [Next]_vars => WorkInv'
<1> SUFFICES ASSUME WorkInv, [Next]_vars PROVE WorkInv'
  OBVIOUS
<1> USE DEF WorkInv
<1>1. ASSUME NEW fit \in Fits, TakeInit(fit) PROVE WorkInv'
  BY <1>1, QueueIndices DEF TakeInit
<1>2. ASSUME NEW l \in Levels, NEW p \in Priors, NEW e \in work[<<l, p>>].elts,
             Take(l, p, e) \/ TakeSeen(l, p, e)
      PROVE  WorkInv'
  <2>1. e \in BestsOf(work[<<l, p>>]) /\ QueueOK(work[<<l, p>>])
    BY <1>2 DEF Take, TakeSeen
  <2>2. QueueOK(Dequeue(work[<<l, p>>], e))
    BY <2>1, DequeueOK
  <2>3. work' = [work EXCEPT ![<<l, p>>] = Dequeue(work[<<l, p>>], e)]
    BY <1>2 DEF Take, TakeSeen
  <2>4. DOMAIN work' = Levels \X Priors /\ \A lp \in Levels \X Priors : QueueOK(work'[lp])
    BY <2>2, <2>3
  <2>5. at'.level \in Levels \cup {-1} /\ at'.prior \in Priors
    BY <1>2 DEF Take, TakeSeen
  <2>6. UNCHANGED <<lists, created, cur>>
    BY <1>2 DEF Take, TakeSeen
  <2> QED BY <2>4, <2>5, <2>6
<1>3. ASSUME NEW fit \in Fits, NEW jitter \in 0 .. (Jitters - 1), AddToFrontier(fit, jitter)
      PROVE  WorkInv'
  <2> DEFINE e == NewElt(Key(fit, jitter), "named")
             p == PriorFor(fit)
  <2>1. e \in Elt
    BY KeyOfFit DEF NewElt, Elt, Types
  <2>2. p \in Priors
    BY QueueIndices
  <2>3. QueueOK(Enqueue(lists[p], e))
    BY <2>1, <2>2, EnqueueOK
  <2>4. lists' = [lists EXCEPT ![p] = Enqueue(lists[p], e)] /\ created' = created + 1
    BY <1>3 DEF AddToFrontier
  <2> HIDE DEF e, p
  <2>5. DOMAIN lists' = Priors /\ \A i \in Priors : QueueOK(lists'[i])
    BY <2>2, <2>3, <2>4
  <2>6. UNCHANGED <<work, at, cur>>
    BY <1>3 DEF AddToFrontier
  <2> QED BY <2>4, <2>5, <2>6
<1>4. CASE BeginUpdate
  BY <1>4, QueueIndices DEF BeginUpdate
<1>5. ASSUME NEW e \in lists[cur].elts, MoveBest(e) PROVE WorkInv'
  <2> DEFINE lp == <<NextLevel, cur>>
  <2>1. e \in BestsOf(lists[cur]) /\ QueueOK(lists[cur])
    BY <1>5 DEF MoveBest
  <2>2. e \in Elt
    BY <2>1 DEF QueueOK, Queue
  <2>3. lp \in Levels \X Priors
    BY QueueIndices
  <2>4. QueueOK(Dequeue(lists[cur], e))
    BY <2>1, DequeueOK
  <2>5. QueueOK(Enqueue(work[lp], e))
    BY <2>2, <2>3, EnqueueOK
  <2>6. /\ lists' = [lists EXCEPT ![cur] = Dequeue(lists[cur], e)]
        /\ work' = [work EXCEPT ![lp] = Enqueue(work[lp], e)]
        /\ UNCHANGED <<at, cur, created>>
    BY <1>5 DEF MoveBest
  <2> HIDE DEF lp
  <2>7. DOMAIN lists' = Priors /\ \A i \in Priors : QueueOK(lists'[i])
    BY <2>4, <2>6
  <2>8. DOMAIN work' = Levels \X Priors /\ \A i \in Levels \X Priors : QueueOK(work'[i])
    BY <2>3, <2>5, <2>6
  <2> QED BY <2>6, <2>7, <2>8
<1>6. ASSUME NEW key \in Keys, MoveUnset(key) PROVE WorkInv'
  <2> DEFINE lp == <<NextLevel, cur>>
             e == NewElt(key, "none")
  <2>1. e \in Elt
    BY DEF NewElt, Elt, Types
  <2>2. lp \in Levels \X Priors
    BY QueueIndices
  <2>3. QueueOK(Enqueue(work[lp], e))
    BY <2>1, <2>2, EnqueueOK
  <2>4. /\ work' = [work EXCEPT ![lp] = Enqueue(work[lp], e)]
        /\ created' = created + 1
        /\ UNCHANGED <<lists, at, cur>>
    BY <1>6 DEF MoveUnset
  <2> HIDE DEF lp, e
  <2>5. DOMAIN work' = Levels \X Priors /\ \A i \in Levels \X Priors : QueueOK(work'[i])
    BY <2>2, <2>3, <2>4
  <2> QED BY <2>4, <2>5
<1>7. CASE NextList
  <2>1. cur + 1 \in Priors
    BY <1>7, QueueAssumption DEF NextList, Priors
  <2> QED BY <1>7, <2>1 DEF NextList
<1>8. CASE EndUpdate
  <2>1. DOMAIN lists' = Priors /\ \A i \in Priors : QueueOK(lists'[i])
    BY <1>8, FreshOK DEF EndUpdate
  <2> QED BY <1>8, <2>1, QueueIndices DEF EndUpdate, NoElt
<1>9. CASE Restart
  <2>1. work' = [lp \in Levels \X Priors |-> [work[lp] EXCEPT !.elts = {}]]
    BY <1>9 DEF Restart
  <2>2. \A lp \in Levels \X Priors : QueueOK([work[lp] EXCEPT !.elts = {}])
    BY ClearOK
  <2>3. DOMAIN work' = Levels \X Priors /\ \A lp \in Levels \X Priors : QueueOK(work'[lp])
    BY <2>1, <2>2
  <2> QED BY <1>9, <2>3 DEF Restart
<1>10. CASE UNCHANGED vars
  BY <1>10 DEF vars
<1> QED BY <1>1, <1>2, <1>3, <1>4, <1>5, <1>6, <1>7, <1>8, <1>9, <1>10 DEF Next

-----------------------------------------------------------------------------
(* Theorems.                                                               *)

\* Every queue and list is always right, for every value of the constants.
THEOREM QueuesRight == Spec => []WorkInv
BY InitWorkInv, NextWorkInv, PTL DEF Spec

LEMMA AllRight == WorkInv => \A q \in AllQueues : QueueOK(q)
BY DEF WorkInv, AllQueues

\* No queue exceeds its limit, the bound enqueue refuses by is the worst key in
\* the queue, and best_prior is never below an element of it
\* (BoundedPuzPriorityQueue).
THEOREM CachedBoundsTrue == Spec => []QueuesSound
<1>1. WorkInv => SizeBounded
  BY AllRight DEF SizeBounded, QueueOK
<1>2. WorkInv => WorstExact
  BY AllRight, WorstIsMin DEF WorstExact
<1>3. WorkInv => BestNotBelow
  BY AllRight DEF BestNotBelow, QueueOK
<1>4. WorkInv => QueuesSound
  BY <1>1, <1>2, <1>3 DEF QueuesSound
<1> QED BY <1>4, QueuesRight, PTL

-----------------------------------------------------------------------------
(* What is lost.  When a worker deletes its lists they are empty, because  *)
(* the loop of mass_enqueue runs at least once per element that is left.   *)

FilingInv ==
  /\ left \in Nat
  /\ pc = "idle" => \A p \in Priors : lists[p].elts = {}
  /\ pc = "update" => /\ \A p \in Priors : p < cur => lists[p].elts = {}
                      /\ Cardinality(lists[cur].elts) <= left

LEMMA InitFilingInv == Init => FilingInv
BY DEF Init, FilingInv, Fresh

LEMMA NextFilingInv == WorkInv /\ FilingInv /\ [Next]_vars => FilingInv'
<1> SUFFICES ASSUME WorkInv, FilingInv, [Next]_vars PROVE FilingInv'
  OBVIOUS
<1> USE DEF FilingInv
<1>p. cur \in Priors /\ DOMAIN lists = Priors /\ \A p \in Priors : p \in Nat
  BY DEF WorkInv, Priors
<1>n. \A p \in Priors : IsFiniteSet(lists[p].elts) /\ Cardinality(lists[p].elts) \in Nat
  BY FS_CardinalityType DEF WorkInv, QueueOK
<1>1. ASSUME NEW fit \in Fits, TakeInit(fit) PROVE FilingInv'
  BY <1>1 DEF TakeInit
<1>2. ASSUME NEW l \in Levels, NEW p \in Priors, NEW e \in work[<<l, p>>].elts,
             Take(l, p, e) \/ TakeSeen(l, p, e)
      PROVE  FilingInv'
  BY <1>2 DEF Take, TakeSeen
<1>3. ASSUME NEW fit \in Fits, NEW jitter \in 0 .. (Jitters - 1), AddToFrontier(fit, jitter)
      PROVE  FilingInv'
  BY <1>3 DEF AddToFrontier
<1>4. CASE BeginUpdate
  <2>1. 0 \in Priors /\ \A p \in Priors : ~(p < 0)
    BY QueueAssumption DEF Priors
  <2>2. pc' = "update" /\ cur' = 0 /\ left' = Cardinality(lists[0].elts) /\ lists' = lists
    BY <1>4 DEF BeginUpdate
  <2> QED BY <1>n, <2>1, <2>2
<1>5. ASSUME NEW e \in lists[cur].elts, MoveBest(e) PROVE FilingInv'
  <2> DEFINE kept == {x \in lists[cur].elts : x.key # e.key}
  <2>1. /\ pc = "update" /\ left > 0 /\ left' = left - 1 /\ UNCHANGED <<pc, cur>>
        /\ lists' = [lists EXCEPT ![cur] = Dequeue(lists[cur], e)]
    BY <1>5 DEF MoveBest
  <2>2. Dequeue(lists[cur], e).elts = kept
    BY <1>p DEF Dequeue, WorkInv, QueueOK, Queue
  <2>3. /\ IsFiniteSet(kept)
        /\ Cardinality(kept) < Cardinality(lists[cur].elts)
        /\ Cardinality(kept) \in Nat
    <3>1. kept \subseteq lists[cur].elts /\ kept # lists[cur].elts
      OBVIOUS
    <3> HIDE DEF kept
    <3> QED BY <1>p, <1>n, <3>1, FS_Subset, FS_CardinalityType
  <2>4. lists'[cur].elts = kept /\ \A p \in Priors : p < cur => lists'[p] = lists[p]
    BY <1>p, <2>1, <2>2
  <2> HIDE DEF kept
  <2>5. Cardinality(kept) <= left - 1 /\ left - 1 \in Nat
    BY <1>p, <1>n, <2>1, <2>3
  <2> QED BY <2>1, <2>4, <2>5
<1>6. ASSUME NEW key \in Keys, MoveUnset(key) PROVE FilingInv'
  <2>1. Cardinality(lists[cur].elts) = 0
    BY <1>6, FS_EmptySet DEF MoveUnset
  <2>2. left > 0 /\ left' = left - 1 /\ UNCHANGED <<lists, pc, cur>>
    BY <1>6 DEF MoveUnset
  <2>3. left' \in Nat /\ 0 <= left'
    BY <2>2
  <2> QED BY <2>1, <2>2, <2>3
<1>7. CASE NextList
  <2>1. /\ pc = "update" /\ left = 0 /\ cur' = cur + 1 /\ cur + 1 \in Priors
        /\ left' = Cardinality(lists[cur + 1].elts) /\ UNCHANGED <<pc, lists>>
    BY <1>p, <1>7, QueueAssumption DEF NextList, Priors
  <2>2. lists[cur].elts = {}
    BY <1>p, <1>n, <2>1, FS_EmptySet
  <2>3. \A p \in Priors : p < cur + 1 => p < cur \/ p = cur
    BY <1>p
  <2> QED BY <1>n, <2>1, <2>2, <2>3
<1>8. CASE EndUpdate
  BY <1>8 DEF EndUpdate, Fresh
<1>9. CASE Restart
  BY <1>9 DEF Restart
<1>10. CASE UNCHANGED vars
  BY <1>10 DEF vars
<1> QED BY <1>1, <1>2, <1>3, <1>4, <1>5, <1>6, <1>7, <1>8, <1>9, <1>10 DEF Next

\* One move of an update: what the list and the queue it goes to lose.
LEMMA MoveLosses ==
  ASSUME WorkInv, NEW e \in lists[cur].elts, MoveBest(e),
         NEW x \in Held \ Held'
  PROVE  \/ \E lp \in Levels \X Priors : Evicted(x, work[lp], work'[lp])
         \/ /\ x \in lists[cur].elts
            /\ \/ Refused(x, work[<<NextLevel, cur>>], work'[<<NextLevel, cur>>])
               \/ TiedWith(x, lists[cur].elts, work'[<<NextLevel, cur>>])
<1> DEFINE to == <<NextLevel, cur>>
<1>1. to \in Levels \X Priors /\ cur \in Priors
  BY QueueIndices DEF WorkInv
<1>2. QueueOK(work[to]) /\ QueueOK(lists[cur]) /\ e \in Elt
  BY <1>1 DEF WorkInv, QueueOK, Queue
<1>3. /\ lists' = [lists EXCEPT ![cur] = Dequeue(lists[cur], e)]
      /\ work' = [work EXCEPT ![to] = Enqueue(work[to], e)]
  BY DEF MoveBest
<1> HIDE DEF to
<1>4. /\ work'[to] = Enqueue(work[to], e)
      /\ \A lp \in Levels \X Priors : lp # to => work'[lp] = work[lp]
      /\ lists'[cur] = Dequeue(lists[cur], e)
      /\ \A p \in Priors : p # cur => lists'[p] = lists[p]
  BY <1>1, <1>3 DEF WorkInv
<1>5. /\ \A lp \in Levels \X Priors : x \notin work'[lp].elts
      /\ \A p \in Priors : x \notin lists'[p].elts
  BY DEF Held, AllQueues
<1>6. \/ \E lp \in Levels \X Priors : x \in work[lp].elts
      \/ \E p \in Priors : x \in lists[p].elts
  BY DEF Held, AllQueues
<1>7. CASE \E lp \in Levels \X Priors : x \in work[lp].elts
  <2>1. x \in work[to].elts /\ x \notin Enqueue(work[to], e).elts
    BY <1>1, <1>4, <1>5, <1>7
  <2>2. Evicted(x, work[to], work'[to])
    BY <1>2, <1>4, <2>1, EnqueueEvicts
  <2> QED BY <1>1, <2>2
<1>8. CASE \E p \in Priors : x \in lists[p].elts
  <2>1. x \in lists[cur].elts
    BY <1>4, <1>5, <1>8
  <2>2. x.key = e.key
    <3>1. Dequeue(lists[cur], e).elts = {z \in lists[cur].elts : z.key # e.key}
      BY <1>2 DEF Dequeue, QueueOK, Queue
    <3> QED BY <1>1, <1>4, <1>5, <2>1, <3>1
  <2>3. CASE e \in work'[to].elts
    BY <2>1, <2>2, <2>3 DEF TiedWith, to
  <2>4. CASE e \notin work'[to].elts
    <3>1. Refused(e, work[to], work'[to])
      BY <1>2, <1>4, <2>4, EnqueueRefuses
    <3>2. Refused(x, work[to], work'[to])
      BY <2>2, <3>1 DEF Refused
    <3> QED BY <2>1, <3>2 DEF to
  <2> QED BY <2>3, <2>4
<1> QED BY <1>6, <1>7, <1>8

\* While a worker collects neighbours and files them, an element of the queues or
\* lists is lost only when a full queue evicts it for something better than it,
\* refuses it for being no better than what it has, or an equal one moves in its
\* stead (BoundedPuzPriorityQueue, update_queue).
THEOREM LossesAreJustified == Spec => LossesJustified
<1> DEFINE Losses ==
             pc # "idle" =>
               \A x \in Held \ Held' :
                 \/ \E lp \in Levels \X Priors : Evicted(x, work[lp], work'[lp])
                 \/ \E p \in Priors : Evicted(x, lists[p], lists'[p])
                 \/ /\ pc = "update" /\ x \in lists[cur].elts
                    /\ \/ Refused(x, work[<<NextLevel, cur>>], work'[<<NextLevel, cur>>])
                       \/ TiedWith(x, lists[cur].elts, work'[<<NextLevel, cur>>])
<1>1. ASSUME WorkInv, FilingInv, Next PROVE Losses
  <2>1. CASE pc = "idle"
    BY <2>1
  <2>2. CASE UNCHANGED <<work, lists>>
    BY <2>2 DEF Held, AllQueues
  <2>3. ASSUME NEW fit \in Fits, NEW jitter \in 0 .. (Jitters - 1), AddToFrontier(fit, jitter)
        PROVE  Losses
    <3> DEFINE e == NewElt(Key(fit, jitter), "named")
               p == PriorFor(fit)
    <3>1. e \in Elt /\ p \in Priors
      BY <1>1, KeyOfFit, QueueIndices DEF NewElt, Elt, Types, WorkInv
    <3>2. lists' = [lists EXCEPT ![p] = Enqueue(lists[p], e)] /\ work' = work
      BY <2>3 DEF AddToFrontier
    <3> HIDE DEF e, p
    <3>3. /\ lists'[p] = Enqueue(lists[p], e)
          /\ \A i \in Priors : i # p => lists'[i] = lists[i]
      BY <1>1, <3>1, <3>2 DEF WorkInv
    <3>4. ASSUME NEW x \in Held \ Held' PROVE Evicted(x, lists[p], lists'[p])
      <4>1. /\ \A lp \in Levels \X Priors : x \notin work[lp].elts
            /\ \A i \in Priors : x \notin lists'[i].elts
        BY <3>2, <3>4 DEF Held, AllQueues
      <4>2. \E i \in Priors : x \in lists[i].elts
        BY <3>4, <4>1 DEF Held, AllQueues
      <4>3. x \in lists[p].elts /\ x \notin Enqueue(lists[p], e).elts
        BY <3>1, <3>3, <4>1, <4>2
      <4> QED BY <1>1, <3>1, <3>3, <4>3, EnqueueEvicts DEF WorkInv
    <3> QED BY <3>1, <3>4
  <2>4. ASSUME NEW e \in lists[cur].elts, MoveBest(e) PROVE Losses
    <3>1. pc = "update"
      BY <2>4 DEF MoveBest
    <3> QED BY <1>1, <2>4, <3>1, MoveLosses
  <2>5. ASSUME NEW key \in Keys, MoveUnset(key) PROVE Losses
    <3> DEFINE to == <<NextLevel, cur>>
               e == NewElt(key, "none")
    <3>1. e \in Elt /\ to \in Levels \X Priors
      BY <1>1, QueueIndices DEF NewElt, Elt, Types, WorkInv
    <3>2. work' = [work EXCEPT ![to] = Enqueue(work[to], e)] /\ lists' = lists
      BY <2>5 DEF MoveUnset
    <3> HIDE DEF e, to
    <3>3. /\ work'[to] = Enqueue(work[to], e)
          /\ \A lp \in Levels \X Priors : lp # to => work'[lp] = work[lp]
      BY <1>1, <3>1, <3>2 DEF WorkInv
    <3>4. ASSUME NEW x \in Held \ Held' PROVE Evicted(x, work[to], work'[to])
      <4>1. /\ \A lp \in Levels \X Priors : x \notin work'[lp].elts
            /\ \A i \in Priors : x \notin lists[i].elts
        BY <3>2, <3>4 DEF Held, AllQueues
      <4>2. \E lp \in Levels \X Priors : x \in work[lp].elts
        BY <3>4, <4>1 DEF Held, AllQueues
      <4>3. x \in work[to].elts /\ x \notin Enqueue(work[to], e).elts
        BY <3>1, <3>3, <4>1, <4>2
      <4> QED BY <1>1, <3>1, <3>3, <4>3, EnqueueEvicts DEF WorkInv
    <3> QED BY <3>1, <3>4
  <2>6. CASE EndUpdate
    <3>1. /\ pc = "update" /\ left = 0 /\ cur = NumPriors - 1 /\ work' = work
          /\ Cardinality(lists[cur].elts) <= left
      BY <1>1, <2>6 DEF EndUpdate, FilingInv
    <3>2. lists[cur].elts = {}
      <4>1. IsFiniteSet(lists[cur].elts)
        BY <1>1 DEF WorkInv, QueueOK
      <4> QED BY <3>1, <4>1, FS_CardinalityType, FS_EmptySet
    <3>3. \A p \in Priors : p < cur \/ p = cur
      BY <3>1, QueueAssumption DEF Priors
    <3>4. \A p \in Priors : lists[p].elts = {}
      BY <1>1, <3>1, <3>2, <3>3 DEF FilingInv
    <3>5. Held \subseteq Held'
      BY <3>1, <3>4 DEF Held, AllQueues
    <3> QED BY <3>5
  <2> QED BY <1>1, <2>1, <2>2, <2>3, <2>4, <2>5, <2>6
          DEF Next, TakeInit, Take, TakeSeen, BeginUpdate, NextList, Restart
<1>2. ASSUME WorkInv, FilingInv, [Next]_vars PROVE [Losses]_vars
  BY <1>1, <1>2
<1> QED BY <1>2, InitFilingInv, NextFilingInv, QueuesRight, PTL DEF LossesJustified, Spec

-----------------------------------------------------------------------------
(* Theorems about the ring of slot ids, for every capacity of at least two *)
(* cells and every number of producers and consumers: refusals are         *)
(* justified, empty() is honest, and the ring implements the first-in      *)
(* first-out queue of IdQueue.                                             *)
(*                                                                         *)
(* The argument.  The places in use are the numbers from head to tail; the *)
(* place n lives in cell n modulo Cap, and two places less than Cap apart  *)
(* never share a cell.  A pushing thread owns the cell of the place it has *)
(* claimed, a popping thread the cell of the place it has taken, and the   *)
(* sequence of every other cell says whether it is published or free.      *)

\* The cell of a place.
Slot(n) == n % Cap

-----------------------------------------------------------------------------
(* Places and cells.                                                       *)

LEMMA ModRange == ASSUME NEW C \in Nat \ {0}, NEW a \in Nat PROVE a % C \in 0 .. (C - 1)
BY SMT

LEMMA DivMod ==
  ASSUME NEW C \in Nat \ {0}, NEW a \in Nat
  PROVE  \E q \in Nat : C * q \in Nat /\ a = C * q + (a % C)
<1>1. a \div C \in Nat BY SMT
<1>2. a = C * (a \div C) + (a % C) BY SMT
<1>3. C * (a \div C) \in Nat BY <1>1, SMT
<1> QED BY <1>1, <1>2, <1>3, Zenon

LEMMA NextMultiple == ASSUME NEW C \in Nat \ {0}, NEW x \in Nat, NEW y \in Nat, x < y
  PROVE C * x + C <= C * y
<1>1. PICK d \in Nat : y = x + 1 + d
  <2>1. y - x - 1 \in Nat BY SMT
  <2> QED BY <2>1, SMT
<1>2. C * y = C * x + C + C * d
  BY <1>1, SMT
<1>3. C * d \in Nat BY SMT
<1>4. C * x \in Nat /\ C * y \in Nat BY SMT
<1> QED BY <1>2, <1>3, <1>4, SMT

LEMMA SameCellApart ==
  ASSUME NEW C \in Nat \ {0}, NEW a \in Nat, NEW b \in Nat, a % C = b % C, a < b
  PROVE  a + C <= b
<1>1. PICK qa \in Nat : C * qa \in Nat /\ a = C * qa + (a % C) BY DivMod
<1>2. PICK qb \in Nat : C * qb \in Nat /\ b = C * qb + (b % C) BY DivMod
<1>3. a % C \in Nat BY ModRange, SMT
<1> DEFINE r == a % C
           A == C * qa
           B == C * qb
<1>4. a = A + r /\ b = B + r /\ A \in Nat /\ B \in Nat /\ r \in Nat BY <1>1, <1>2, <1>3
<1>5. qb < qa => B + C <= A BY NextMultiple
<1>6. qa < qb => A + C <= B BY NextMultiple
<1>7. qa = qb => A = B OBVIOUS
<1> HIDE DEF r, A, B
<1> QED BY <1>4, <1>5, <1>6, <1>7, SMT

LEMMA AddCap == ASSUME NEW C \in Nat \ {0}, NEW a \in Nat PROVE (a + C) % C = a % C
<1>1. PICK q \in Nat : C * q \in Nat /\ a = C * q + (a % C) BY DivMod
<1>0. a + C \in Nat BY SMT
<1>2. PICK t \in Nat : C * t \in Nat /\ a + C = C * t + ((a + C) % C) BY <1>0, DivMod
<1>3. C * (q + 1) = C * q + C BY <1>1, SMT
<1>4. a % C \in 0 .. (C - 1) /\ (a + C) % C \in 0 .. (C - 1) BY <1>0, ModRange
<1> DEFINE r == a % C
           u == (a + C) % C
           A == C * q
           B == C * t
<1>5. a = A + r /\ a + C = B + u /\ A \in Nat /\ B \in Nat /\ r \in 0 .. (C - 1) /\ u \in 0 .. (C - 1)
  BY <1>1, <1>2, <1>4
<1>6. t < q + 1 => B + C <= A + C BY <1>3, NextMultiple, SMT
<1>7. q + 1 < t => A + C + C <= B
  <2>1. q + 1 \in Nat BY SMT
  <2>2. q + 1 < t => C * (q + 1) + C <= C * t BY <2>1, NextMultiple
  <2> QED BY <2>2, <1>3
<1>8. q + 1 = t => A + C = B BY <1>3
<1>9. t < q + 1 \/ q + 1 < t \/ q + 1 = t BY SMT
<1>10. u = r
  <2> HIDE DEF r, u, A, B
  <2> QED BY <1>5, <1>6, <1>7, <1>8, <1>9, SMT
<1> QED BY <1>10

LEMMA CapFact == ASSUME TaskIdQueueConstants PROVE Cap \in Nat /\ Cap >= 2
BY SMT DEF TaskIdQueueConstants

LEMMA SlotType ==
  ASSUME TaskIdQueueConstants
  PROVE  \A n \in Nat : Slot(n) \in 0 .. (Cap - 1)
<1>1. Cap \in Nat \ {0}
  BY SMT DEF TaskIdQueueConstants
<1> QED BY <1>1, ModRange DEF Slot

\* Two places less than Cap apart are in different cells.
LEMMA SlotsApart ==
  ASSUME TaskIdQueueConstants, NEW m \in Nat, NEW n \in Nat, m # n,
         m < n + Cap, n < m + Cap
  PROVE  Slot(m) # Slot(n)
<1>1. Cap \in Nat \ {0} /\ Cap \in Nat
  BY SMT DEF TaskIdQueueConstants
<1>2. m % Cap = n % Cap /\ m < n => m + Cap <= n
  BY <1>1, SameCellApart
<1>3. m % Cap = n % Cap /\ n < m => n + Cap <= m
  BY <1>1, SameCellApart
<1>4. (m < n \/ n < m) /\ ~(m + Cap <= n) /\ ~(n + Cap <= m)
  BY <1>1, SMT
<1> QED BY <1>2, <1>3, <1>4 DEF Slot

LEMMA SlotAround ==
  ASSUME TaskIdQueueConstants
  PROVE  \A n \in Nat : Slot(n + Cap) = Slot(n)
<1>1. Cap \in Nat \ {0}
  BY SMT DEF TaskIdQueueConstants
<1> QED BY <1>1, AddCap DEF Slot

\* The first places live in cells of their own number.
LEMMA FirstSlots ==
  ASSUME TaskIdQueueConstants, NEW n \in 0 .. (Cap - 1)
  PROVE  Slot(n) = n
BY SMT DEF Slot, TaskIdQueueConstants

-----------------------------------------------------------------------------
(* The inductive invariant.                                                *)

PushPoints == {"idle", "inspect", "cas", "write", "publish"}
PopPoints  == {"idle", "inspect", "cas", "read", "release",
               "size", "empty", "nonempty"}

TypeInv ==
  /\ head \in Nat /\ tail \in Nat
  /\ sequence \in [0 .. (Cap - 1) -> Nat]
  /\ value \in [0 .. (Cap - 1) -> Ids \cup {None}]
  /\ ringPc \in [Threads -> PushPoints \cup PopPoints]
  /\ \A p \in Producers : ringPc[p] \in PushPoints
  /\ \A c \in Consumers : ringPc[c] \in PopPoints
  /\ pos \in [Threads -> Nat]
  /\ pushed \in [Producers -> 0 .. MaxPushes]
  /\ got \in [Consumers -> Ids \cup {None}]
  /\ before \in [Consumers -> SUBSET Ids]
  /\ \A p \in Producers : ringPc[p] # "idle" => pushed[p] < MaxPushes

\* A place from head to tail is published or claimed by a pusher; a place from
\* tail to head + Cap is free or held, one round earlier, by a popper.
Cursors == head <= tail /\ tail <= head + Cap
Past    == \A n \in Nat : n < head => sequence[Slot(n)] > n
Taken   == \A n \in Nat : head <= n /\ n < tail =>
             \/ sequence[Slot(n)] = n + 1
             \/ \E p \in Producers : Claimed(p) /\ pos[p] = n
Free    == \A n \in Nat : tail <= n /\ n < head + Cap =>
             \/ sequence[Slot(n)] = n
             \/ \E c \in Consumers : HoldsCell(c) /\ pos[c] + Cap = n
Claims  == \A p \in Producers : Claimed(p) =>
             /\ head <= pos[p] /\ pos[p] < tail
             /\ sequence[Slot(pos[p])] = pos[p]
             /\ \A q \in Producers \ {p} : Claimed(q) => pos[q] # pos[p]
Holds   == \A c \in Consumers : HoldsCell(c) =>
             /\ pos[c] < head /\ tail <= pos[c] + Cap
             /\ sequence[Slot(pos[c])] = pos[c] + 1
             /\ \A d \in Consumers \ {c} : HoldsCell(d) => pos[d] # pos[c]
RingInv == Cursors /\ Past /\ Taken /\ Free /\ Claims /\ Holds

\* A published place and a held place contain a published id, and every
\* published id is in such a place or gone.
InPlace(id, limit) ==
  \E n \in Nat : /\ head <= n /\ n < limit
                 /\ sequence[Slot(n)] = n + 1 /\ value[Slot(n)] = id
InHand(id) == \E c \in Consumers : HoldsCell(c) /\ value[Slot(pos[c])] = id

Written  == \A p \in Producers : ringPc[p] = "publish" => value[Slot(pos[p])] = Arg(p)
GotRead  == \A c \in Consumers : ringPc[c] = "release" => got[c] = value[Slot(pos[c])]
Genuine  == /\ \A n \in Nat : head <= n /\ n < tail /\ sequence[Slot(n)] = n + 1 =>
                 value[Slot(n)] \in Published
            /\ \A c \in Consumers : HoldsCell(c) => value[Slot(pos[c])] \in Published
Accounted == \A id \in Published : id \in gone \/ InHand(id) \/ InPlace(id, tail)
ContentInv == Written /\ GotRead /\ Genuine /\ Accounted

\* What a thread has seen: a cursor never runs ahead of the shared one, and a
\* cell that was ready for a cursor stays so until the cursor moves.
Loaded == /\ \A p \in Producers : ringPc[p] \in {"inspect", "cas"} => pos[p] <= tail
          /\ \A c \in Consumers : ringPc[c] \in {"inspect", "cas"} => pos[c] <= head
          /\ \A c \in Consumers : ringPc[c] = "size" => pos[c] <= tail
ReadyToPush == \A p \in Producers : ringPc[p] = "cas" /\ pos[p] = tail =>
                 sequence[Slot(tail)] = tail
ReadyToPop  == \A c \in Consumers : ringPc[c] = "cas" /\ pos[c] = head =>
                 sequence[Slot(head)] = head + 1
SizeSeen  == \A c \in Consumers : ringPc[c] = "size" =>
               \A id \in before[c] : id \in gone \/ InHand(id) \/ InPlace(id, pos[c])
EmptySeen == \A c \in Consumers : ringPc[c] = "empty" =>
               \A id \in before[c] : id \in gone \/ InHand(id)
LocalInv == Loaded /\ ReadyToPush /\ ReadyToPop /\ SizeSeen /\ EmptySeen

PlacesInv == TypeInv /\ RingInv /\ ContentInv /\ LocalInv

-----------------------------------------------------------------------------
(* Helpers.                                                                *)

LEMMA CellIsSlot == \A t : Cell(t) = Slot(pos[t])
BY DEF Cell, Slot

\* Producers and consumers are different threads.
LEMMA TwoKinds ==
  ASSUME TaskIdQueueConstants
  PROVE  /\ \A p \in Producers : p \in Threads /\ p \notin Consumers
         /\ \A c \in Consumers : c \in Threads /\ c \notin Producers
         /\ None \notin Ids
BY DEF TaskIdQueueConstants, Threads, Ids

\* The id a producer pushes is one of the ids, and not published yet.
LEMMA ArgIsNew ==
  ASSUME TaskIdQueueConstants, TypeInv, NEW p \in Producers, pushed[p] < MaxPushes
  PROVE  Arg(p) \in Ids /\ Arg(p) \notin Published /\ Arg(p)[1] = p
<1>1. pushed[p] \in Nat /\ MaxPushes \in Nat
  BY SMT DEF TypeInv, TaskIdQueueConstants
<1>2. pushed[p] + 1 \in 1 .. MaxPushes
  BY <1>1, SMT
<1>3. ~(pushed[p] + 1 <= pushed[p])
  BY <1>1, SMT
<1>4. Arg(p)[1] = p /\ Arg(p)[2] = pushed[p] + 1
  BY DEF Arg
<1> QED BY <1>2, <1>3, <1>4, Zenon DEF Arg, Ids, Published

\* A step that neither moves a cursor nor touches a cell, a counter or a
\* thread that owns a cell.
Quiet ==
  /\ UNCHANGED <<head, tail, sequence, value, pushed, got, gone>>
  /\ \A p \in Producers : Claimed(p) \/ Claimed(p)' => ringPc'[p] = ringPc[p] /\ pos'[p] = pos[p]
  /\ \A c \in Consumers : HoldsCell(c) \/ HoldsCell(c)' => ringPc'[c] = ringPc[c] /\ pos'[c] = pos[c]

\* Looking at the ring is quiet, and so is a compare-exchange that fails.
LEMMA LookingIsQuiet ==
  ASSUME TaskIdQueueConstants, TypeInv
  PROVE  /\ UNCHANGED ringVars => Quiet
         /\ \A p \in Producers : BeginPush(p) \/ InspectForPush(p) => Quiet
         /\ \A p \in Producers : CasTail(p) /\ tail' = tail => Quiet
         /\ \A c \in Consumers : BeginPop(c) \/ InspectForPop(c) => Quiet
         /\ \A c \in Consumers : BeginEmpty(c) \/ FinishEmpty(c) \/ UseEmpty(c) => Quiet
         /\ \A c \in Consumers : CasHead(c) /\ head' = head => Quiet
<1> USE TwoKinds DEF TypeInv, Quiet, Claimed, HoldsCell, Goto, cells
<1>1. UNCHANGED ringVars => Quiet
  BY DEF ringVars
<1>2. ASSUME NEW p \in Producers PROVE BeginPush(p) => Quiet
  BY DEF BeginPush
<1>3. ASSUME NEW p \in Producers PROVE InspectForPush(p) => Quiet
  BY DEF InspectForPush
<1>4. ASSUME NEW p \in Producers PROVE CasTail(p) /\ tail' = tail => Quiet
  BY DEF CasTail
<1>5. ASSUME NEW c \in Consumers PROVE BeginPop(c) => Quiet
  BY DEF BeginPop
<1>6. ASSUME NEW c \in Consumers PROVE InspectForPop(c) => Quiet
  BY DEF InspectForPop
<1>7. ASSUME NEW c \in Consumers PROVE BeginEmpty(c) \/ FinishEmpty(c) \/ UseEmpty(c) => Quiet
  BY DEF BeginEmpty, FinishEmpty, UseEmpty
<1>8. ASSUME NEW c \in Consumers PROVE CasHead(c) /\ head' = head => Quiet
  BY DEF CasHead
<1> QED BY <1>1, <1>2, <1>3, <1>4, <1>5, <1>6, <1>7, <1>8

-----------------------------------------------------------------------------
(* The initial state, and types.                                           *)

LEMMA InitPlacesInv == ASSUME TaskIdQueueConstants, RingInit PROVE PlacesInv
<1> USE TwoKinds, CapFact DEF RingInit
<1>1. TypeInv
  BY DEF TypeInv, PushPoints, PopPoints, Threads, TaskIdQueueConstants
<1>2. RingInv
  <2>1. \A n \in 0 .. (Cap - 1) : sequence[Slot(n)] = n
    BY FirstSlots
  <2>2. Free
    <3>1. ASSUME NEW n \in Nat, tail <= n, n < head + Cap PROVE sequence[Slot(n)] = n
      <4>1. n \in 0 .. (Cap - 1)
        BY <3>1, SMT
      <4> QED BY <4>1, <2>1
    <3> QED BY <3>1 DEF Free
  <2>3. Cursors /\ Past /\ Taken
    BY SMT DEF Cursors, Past, Taken
  <2>4. Claims /\ Holds
    BY DEF Claims, Holds, Claimed, HoldsCell
  <2> QED BY <2>2, <2>3, <2>4 DEF RingInv
<1>3. ContentInv
  <2>1. Published = {}
    <3>1. ASSUME NEW id \in Ids PROVE ~(id[2] <= pushed[id[1]])
      BY SMT DEF Ids
    <3> QED BY <3>1 DEF Published
  <2>2. \A n \in Nat : ~(head <= n /\ n < tail)
    BY SMT
  <2> QED BY <2>1, <2>2 DEF ContentInv, Written, GotRead, Genuine, Accounted, HoldsCell
<1>4. LocalInv
  BY DEF LocalInv, Loaded, ReadyToPush, ReadyToPop, SizeSeen, EmptySeen
<1> QED BY <1>1, <1>2, <1>3, <1>4 DEF PlacesInv

LEMMA TypeStep ==
  ASSUME TaskIdQueueConstants, PlacesInv, [RingNext]_ringVars
  PROVE  TypeInv'
<1> USE TwoKinds DEF PushPoints, PopPoints, Goto, cells
<1>0. TypeInv
  BY DEF PlacesInv
<1>1. CASE UNCHANGED ringVars
  BY <1>0, <1>1 DEF TypeInv, ringVars
<1>2. ASSUME NEW p \in Producers, BeginPush(p) PROVE TypeInv'
  BY <1>0, <1>2 DEF TypeInv, BeginPush
<1>3. ASSUME NEW p \in Producers, InspectForPush(p) PROVE TypeInv'
  BY <1>0, <1>3 DEF TypeInv, InspectForPush
<1>4. ASSUME NEW p \in Producers, CasTail(p) PROVE TypeInv'
  <2>1. CASE tail = pos[p] /\ tail' = tail + 1 /\ Goto(p, "write") /\ UNCHANGED pos
    BY <1>0, <1>4, <2>1 DEF TypeInv, CasTail
  <2>2. CASE pos' = [pos EXCEPT ![p] = tail] /\ Goto(p, "inspect") /\ UNCHANGED tail
    BY <1>0, <1>4, <2>2 DEF TypeInv, CasTail
  <2> QED BY <1>4, <2>1, <2>2 DEF CasTail
<1>5. ASSUME NEW p \in Producers, WriteValue(p) PROVE TypeInv'
  <2>1. Arg(p) \in Ids
    BY <1>0, <1>5, ArgIsNew DEF TypeInv, WriteValue
  <2> QED BY <1>0, <2>1, <1>5, CellIsSlot DEF TypeInv, WriteValue
<1>6. ASSUME NEW p \in Producers, Publish(p) PROVE TypeInv'
  <2>1. pushed[p] \in 0 .. MaxPushes /\ pushed[p] < MaxPushes /\ MaxPushes \in Nat
    BY <1>0, <1>6 DEF TypeInv, Publish, TaskIdQueueConstants
  <2>2. pushed[p] + 1 \in 0 .. MaxPushes
    BY <2>1, SMT
  <2>3. pos[p] \in Nat /\ pos[p] + 1 \in Nat /\ Slot(pos[p]) \in 0 .. (Cap - 1)
    <3>1. pos[p] \in Nat
      BY <1>0 DEF TypeInv
    <3> QED BY <3>1, SlotType, SMT
  <2>4. sequence' \in [0 .. (Cap - 1) -> Nat]
    BY <1>0, <2>3, <1>6, CellIsSlot DEF TypeInv, Publish
  <2> QED BY <1>0, <2>2, <2>4, <1>6 DEF TypeInv, Publish
<1>7. ASSUME NEW c \in Consumers, BeginPop(c) PROVE TypeInv'
  BY <1>0, <1>7 DEF TypeInv, BeginPop
<1>8. ASSUME NEW c \in Consumers, InspectForPop(c) PROVE TypeInv'
  BY <1>0, <1>8 DEF TypeInv, InspectForPop
<1>9. ASSUME NEW c \in Consumers, CasHead(c) PROVE TypeInv'
  <2>1. CASE head = pos[c] /\ head' = head + 1 /\ Goto(c, "read") /\ UNCHANGED pos
    BY <1>0, <1>9, <2>1 DEF TypeInv, CasHead
  <2>2. CASE pos' = [pos EXCEPT ![c] = head] /\ Goto(c, "inspect") /\ UNCHANGED head
    BY <1>0, <1>9, <2>2 DEF TypeInv, CasHead
  <2> QED BY <1>9, <2>1, <2>2 DEF CasHead
<1>10. ASSUME NEW c \in Consumers, ReadValue(c) PROVE TypeInv'
  <2>1. pos[c] \in Nat
    BY <1>0 DEF TypeInv
  <2>2. value[Cell(c)] \in Ids \cup {None}
    BY <1>0, <2>1, SlotType, CellIsSlot DEF TypeInv
  <2> QED BY <1>0, <2>2, <1>10 DEF TypeInv, ReadValue
<1>11. ASSUME NEW c \in Consumers, Release(c) PROVE TypeInv'
  <2>1. pos[c] \in Nat /\ pos[c] + Cap \in Nat /\ Slot(pos[c]) \in 0 .. (Cap - 1)
    <3>1. pos[c] \in Nat
      BY <1>0 DEF TypeInv
    <3> QED BY <3>1, SlotType, CapFact, SMT
  <2>2. sequence' \in [0 .. (Cap - 1) -> Nat]
    BY <1>0, <2>1, <1>11, CellIsSlot DEF TypeInv, Release
  <2> QED BY <1>0, <2>2, <1>11 DEF TypeInv, Release
<1>12. ASSUME NEW c \in Consumers, BeginEmpty(c) PROVE TypeInv'
  BY <1>0, <1>12 DEF TypeInv, BeginEmpty, Published
<1>13. ASSUME NEW c \in Consumers, FinishEmpty(c) PROVE TypeInv'
  BY <1>0, <1>13 DEF TypeInv, FinishEmpty
<1>14. ASSUME NEW c \in Consumers, UseEmpty(c) PROVE TypeInv'
  BY <1>0, <1>14 DEF TypeInv, UseEmpty
<1> QED BY <1>1, <1>2, <1>3, <1>4, <1>5, <1>6, <1>7, <1>8, <1>9, <1>10, <1>11, <1>12,
           <1>13, <1>14 DEF RingNext

-----------------------------------------------------------------------------
(* The ring.                                                               *)

\* A pusher claims the place at the tail: the cell is free, so the ring is not
\* full.
LEMMA ClaimRing ==
  ASSUME TaskIdQueueConstants, PlacesInv, NEW p \in Producers, CasTail(p), tail' # tail
  PROVE  RingInv' /\ tail < head + Cap /\ sequence[Slot(tail)] = tail
<1>1. /\ ringPc[p] = "cas" /\ pos[p] = tail /\ tail' = tail + 1 /\ ringPc'[p] = "write"
      /\ \A t \in Threads \ {p} : ringPc'[t] = ringPc[t]
      /\ UNCHANGED <<head, sequence, pos>>
  BY TwoKinds DEF CasTail, Goto, cells, PlacesInv, TypeInv
<1>2. sequence[Slot(tail)] = tail
  BY <1>1 DEF PlacesInv, LocalInv, ReadyToPush
<1>3. /\ \A q \in Producers : q # p => (Claimed(q)' <=> Claimed(q))
      /\ Claimed(p)' /\ ~Claimed(p)
      /\ \A c \in Consumers : HoldsCell(c)' <=> HoldsCell(c)
  BY <1>1, TwoKinds DEF Claimed, HoldsCell
<1>4. head \in Nat /\ tail \in Nat /\ head <= tail /\ tail <= head + Cap
  BY DEF PlacesInv, TypeInv, RingInv, Cursors
<1>a. Cap \in Nat /\ Cap >= 2
  BY CapFact
<1>5. tail < head + Cap
  <2>1. SUFFICES ASSUME tail = head + Cap PROVE FALSE
    BY <1>a, <1>4, SMT
  <2>2. Slot(tail) = Slot(head) /\ head < tail
    BY <1>a, <2>1, <1>4, SlotAround, SMT
  <2>3. sequence[Slot(head)] = head + 1 \/ sequence[Slot(head)] = head
    BY <1>4, <2>2 DEF PlacesInv, RingInv, Taken, Claims
  <2> QED BY <1>a, <1>2, <1>4, <2>1, <2>2, <2>3, SMT
<1>6. Cursors' /\ Past'
  BY <1>a, <1>1, <1>4, <1>5, SMT DEF Cursors, Past, PlacesInv, RingInv
<1>7. Taken'
  <2>1. ASSUME NEW n \in Nat, head <= n, n < tail + 1
        PROVE  sequence[Slot(n)] = n + 1 \/ \E q \in Producers : Claimed(q)' /\ pos[q] = n
    <3>1. CASE n = tail
      BY <3>1, <1>1, <1>3
    <3>2. CASE n < tail
      BY <3>2, <2>1, <1>3 DEF PlacesInv, RingInv, Taken
    <3> QED BY <3>1, <3>2, <2>1, <1>4, SMT
  <2> QED BY <2>1, <1>1 DEF Taken
<1>8. Free'
  <2>1. \A n \in Nat : tail + 1 <= n => tail <= n
    BY <1>4, SMT
  <2> QED BY <2>1, <1>1, <1>3 DEF PlacesInv, RingInv, Free
<1>9. Claims'
  <2>1. ASSUME NEW q \in Producers, Claimed(q)'
        PROVE  /\ head <= pos[q] /\ pos[q] < tail + 1
               /\ sequence[Slot(pos[q])] = pos[q]
               /\ \A r \in Producers \ {q} : Claimed(r)' => pos[r] # pos[q]
    <3>1. \A r \in Producers : Claimed(r) => pos[r] \in Nat /\ head <= pos[r] /\ pos[r] < tail
      BY TwoKinds DEF PlacesInv, TypeInv, RingInv, Claims
    <3>2. CASE q = p
      <4>1. \A r \in Producers \ {p} : Claimed(r)' => pos[r] # tail
        BY <3>1, <1>3, <1>4, SMT
      <4> QED BY <4>1, <3>2, <1>1, <1>2, <1>4, SMT
    <3>3. CASE q # p
      <4>1. Claimed(q) /\ pos[q] # pos[p]
        BY <3>3, <2>1, <1>1, <1>3, <1>4, <3>1, SMT
      <4>2. \A r \in Producers \ {q} : Claimed(r)' => pos[r] # pos[q]
        BY <4>1, <1>3 DEF PlacesInv, RingInv, Claims
      <4>3. head <= pos[q] /\ pos[q] < tail + 1 /\ sequence[Slot(pos[q])] = pos[q]
        BY <4>1, <3>1, <1>4, SMT DEF PlacesInv, RingInv, Claims
      <4> QED BY <4>2, <4>3
    <3> QED BY <3>2, <3>3
  <2> QED BY <2>1, <1>1 DEF Claims
<1>10. Holds'
  <2>1. ASSUME NEW c \in Consumers, HoldsCell(c)
        PROVE  pos[c] < head /\ tail + 1 <= pos[c] + Cap
    <3>1. /\ pos[c] \in Nat /\ pos[c] < head /\ tail <= pos[c] + Cap
          /\ sequence[Slot(pos[c])] = pos[c] + 1
      BY <2>1, TwoKinds DEF PlacesInv, TypeInv, RingInv, Holds
    <3>2. tail # pos[c] + Cap
      <4>1. tail = pos[c] + Cap => sequence[Slot(tail)] = pos[c] + 1
        BY <3>1, SlotAround
      <4> QED BY <1>a, <4>1, <3>1, <1>2, <1>4, SMT
    <3> QED BY <1>a, <3>1, <3>2, <1>4, SMT
  <2> QED BY <2>1, <1>1, <1>3 DEF PlacesInv, RingInv, Holds
<1> QED BY <1>2, <1>5, <1>6, <1>7, <1>8, <1>9, <1>10 DEF RingInv

\* Every owner has its cell for itself.
LEMMA OwnCells ==
  ASSUME TaskIdQueueConstants, TypeInv, RingInv
  PROVE  /\ \A p \in Producers, n \in Nat :
              Claimed(p) /\ head <= n /\ n < head + Cap /\ n # pos[p] => Slot(n) # Slot(pos[p])
         /\ \A c \in Consumers, n \in Nat :
              HoldsCell(c) /\ head <= n /\ n < head + Cap /\ n # pos[c] + Cap =>
                Slot(n) # Slot(pos[c])
         /\ \A p \in Producers, c \in Consumers :
              Claimed(p) /\ HoldsCell(c) => Slot(pos[p]) # Slot(pos[c])
         /\ \A p, q \in Producers :
              Claimed(p) /\ Claimed(q) /\ p # q => Slot(pos[p]) # Slot(pos[q])
         /\ \A c, d \in Consumers :
              HoldsCell(c) /\ HoldsCell(d) /\ c # d => Slot(pos[c]) # Slot(pos[d])
<1>1. /\ Cap \in Nat /\ head \in Nat /\ tail \in Nat /\ head <= tail /\ tail <= head + Cap
      /\ \A t \in Threads : pos[t] \in Nat
  BY CapFact DEF TypeInv, RingInv, Cursors
<1>2. \A p \in Producers : Claimed(p) => pos[p] \in Nat /\ head <= pos[p] /\ pos[p] < tail
  BY <1>1, TwoKinds DEF RingInv, Claims
<1>3. \A c \in Consumers : HoldsCell(c) => pos[c] \in Nat /\ pos[c] < head /\ tail <= pos[c] + Cap
  BY <1>1, TwoKinds DEF RingInv, Holds
<1>4. ASSUME NEW p \in Producers, NEW n \in Nat, Claimed(p), head <= n, n < head + Cap, n # pos[p]
      PROVE  Slot(n) # Slot(pos[p])
  <2>1. pos[p] \in Nat /\ head <= pos[p] /\ pos[p] < tail
    BY <1>2, <1>4
  <2>2. n < pos[p] + Cap /\ pos[p] < n + Cap
    BY <2>1, <1>1, <1>4, SMT
  <2> QED BY <2>1, <2>2, <1>4, SlotsApart
<1>5. ASSUME NEW c \in Consumers, NEW n \in Nat, HoldsCell(c), head <= n, n < head + Cap,
             n # pos[c] + Cap
      PROVE  Slot(n) # Slot(pos[c])
  <2>1. pos[c] \in Nat /\ pos[c] < head /\ tail <= pos[c] + Cap
    BY <1>3, <1>5
  <2>2. pos[c] + Cap \in Nat /\ n < (pos[c] + Cap) + Cap /\ pos[c] + Cap < n + Cap
    BY <2>1, <1>1, <1>5, SMT
  <2>3. Slot(n) # Slot(pos[c] + Cap)
    BY <2>2, <1>5, SlotsApart
  <2> QED BY <2>1, <2>3, SlotAround
<1>6. ASSUME NEW p \in Producers, NEW c \in Consumers, Claimed(p), HoldsCell(c)
      PROVE  Slot(pos[p]) # Slot(pos[c])
  <2>1. pos[p] \in Nat /\ head <= pos[p] /\ pos[p] < tail
    BY <1>2, <1>6
  <2>2. pos[c] \in Nat /\ pos[c] < head /\ tail <= pos[c] + Cap
    BY <1>3, <1>6
  <2>3. pos[p] # pos[c] /\ pos[p] < pos[c] + Cap /\ pos[c] < pos[p] + Cap
    BY <2>1, <2>2, <1>1, SMT
  <2> QED BY <2>1, <2>2, <2>3, SlotsApart
<1>7. ASSUME NEW p \in Producers, NEW q \in Producers, Claimed(p), Claimed(q), p # q
      PROVE  Slot(pos[p]) # Slot(pos[q])
  <2>1. pos[p] # pos[q]
    BY <1>7 DEF RingInv, Claims
  <2>2. pos[p] \in Nat /\ head <= pos[p] /\ pos[p] < head + Cap
    BY <1>1, <1>2, <1>7, SMT
  <2> QED BY <2>1, <2>2, <1>4, <1>7
<1>8. ASSUME NEW c \in Consumers, NEW d \in Consumers, HoldsCell(c), HoldsCell(d), c # d
      PROVE  Slot(pos[c]) # Slot(pos[d])
  <2>1. pos[c] # pos[d]
    BY <1>8 DEF RingInv, Holds
  <2>2. pos[c] \in Nat /\ pos[c] < head /\ tail <= pos[c] + Cap
    BY <1>3, <1>8
  <2>3. pos[d] \in Nat /\ pos[d] < head /\ tail <= pos[d] + Cap
    BY <1>3, <1>8
  <2>4. pos[c] < pos[d] + Cap /\ pos[d] < pos[c] + Cap
    BY <2>2, <2>3, <1>1, SMT
  <2> QED BY <2>1, <2>2, <2>3, <2>4, SlotsApart
<1> QED BY <1>4, <1>5, <1>6, <1>7, <1>8

\* A pusher publishes the place it has claimed.
LEMMA PublishRing ==
  ASSUME TaskIdQueueConstants, PlacesInv, NEW p \in Producers, Publish(p)
  PROVE  RingInv'
<1>1. TypeInv /\ RingInv
  BY DEF PlacesInv
<1>2. /\ Claimed(p) /\ ~Claimed(p)'
      /\ \A q \in Producers : q # p => (Claimed(q)' <=> Claimed(q))
      /\ \A c \in Consumers : HoldsCell(c)' <=> HoldsCell(c)
      /\ UNCHANGED <<head, tail, pos>>
  BY <1>1, TwoKinds DEF Claimed, HoldsCell, Publish, Goto, TypeInv
<1>3. pos[p] \in Nat /\ head <= pos[p] /\ pos[p] < tail /\ sequence[Slot(pos[p])] = pos[p]
  BY <1>1, <1>2, TwoKinds DEF TypeInv, RingInv, Claims
<1>4. head \in Nat /\ tail \in Nat /\ Cap \in Nat /\ head <= tail /\ tail <= head + Cap
  BY <1>1, CapFact DEF TypeInv, RingInv, Cursors
<1>5. /\ sequence'[Slot(pos[p])] = pos[p] + 1
      /\ \A n \in Nat : Slot(n) # Slot(pos[p]) => sequence'[Slot(n)] = sequence[Slot(n)]
  <2>1. Slot(pos[p]) \in DOMAIN sequence /\ \A n \in Nat : Slot(n) \in DOMAIN sequence
    BY <1>1, <1>3, SlotType DEF TypeInv
  <2> QED BY <2>1, CellIsSlot DEF Publish
<1>6. \A n \in Nat : head <= n /\ n < head + Cap /\ n # pos[p] => sequence'[Slot(n)] = sequence[Slot(n)]
  BY <1>1, <1>2, <1>5, OwnCells
<1>7. Cursors'
  BY <1>1, <1>2 DEF RingInv, Cursors
<1>8. Past'
  <2>1. ASSUME NEW n \in Nat, n < head PROVE sequence'[Slot(n)] > n
    <3>1. sequence[Slot(n)] > n
      BY <1>1, <2>1 DEF RingInv, Past
    <3>2. CASE Slot(n) = Slot(pos[p])
      <4>1. sequence'[Slot(n)] = pos[p] + 1
        BY <3>2, <1>5
      <4> QED BY <4>1, <2>1, <1>3, <1>4, SMT
    <3>3. CASE Slot(n) # Slot(pos[p])
      BY <3>1, <3>3, <1>5
    <3> QED BY <3>2, <3>3
  <2> QED BY <2>1, <1>2 DEF Past
<1>9. Taken'
  <2>1. ASSUME NEW n \in Nat, head <= n, n < tail
        PROVE  sequence'[Slot(n)] = n + 1 \/ \E q \in Producers : Claimed(q)' /\ pos[q] = n
    <3>1. CASE n = pos[p]
      BY <3>1, <1>5
    <3>2. CASE n # pos[p]
      <4>1. n < head + Cap
        BY <2>1, <1>4, SMT
      <4> QED BY <4>1, <3>2, <2>1, <1>1, <1>2, <1>6 DEF RingInv, Taken
    <3> QED BY <3>1, <3>2
  <2> QED BY <2>1, <1>2 DEF Taken
<1>10. Free'
  <2>1. \A n \in Nat : tail <= n /\ n < head + Cap => sequence'[Slot(n)] = sequence[Slot(n)]
    <3>1. \A n \in Nat : tail <= n => head <= n /\ n # pos[p]
      BY <1>3, <1>4, SMT
    <3> QED BY <3>1, <1>6
  <2> QED BY <2>1, <1>1, <1>2 DEF RingInv, Free
<1>11. Claims'
  <2>1. \A q \in Producers : Claimed(q) /\ q # p =>
           pos[q] \in Nat /\ sequence'[Slot(pos[q])] = sequence[Slot(pos[q])]
    BY <1>1, <1>2, <1>5, OwnCells, TwoKinds DEF TypeInv
  <2> QED BY <2>1, <1>1, <1>2 DEF RingInv, Claims
<1>12. Holds'
  <2>1. \A c \in Consumers : HoldsCell(c) =>
           pos[c] \in Nat /\ sequence'[Slot(pos[c])] = sequence[Slot(pos[c])]
    BY <1>1, <1>2, <1>5, OwnCells, TwoKinds DEF TypeInv
  <2> QED BY <2>1, <1>1, <1>2 DEF RingInv, Holds
<1> QED BY <1>7, <1>8, <1>9, <1>10, <1>11, <1>12 DEF RingInv

\* A popper takes the place at the head: its id is published, so the ring is
\* not empty.
LEMMA TakeRing ==
  ASSUME TaskIdQueueConstants, PlacesInv, NEW c \in Consumers, CasHead(c), head' # head
  PROVE  RingInv' /\ head < tail /\ sequence[Slot(head)] = head + 1
<1>1. /\ ringPc[c] = "cas" /\ pos[c] = head /\ head' = head + 1 /\ ringPc'[c] = "read"
      /\ \A t \in Threads \ {c} : ringPc'[t] = ringPc[t]
      /\ UNCHANGED <<tail, sequence, pos>>
  BY TwoKinds DEF CasHead, Goto, cells, PlacesInv, TypeInv
<1>2. sequence[Slot(head)] = head + 1
  BY <1>1 DEF PlacesInv, LocalInv, ReadyToPop
<1>3. /\ \A d \in Consumers : d # c => (HoldsCell(d)' <=> HoldsCell(d))
      /\ HoldsCell(c)' /\ ~HoldsCell(c)
      /\ \A p \in Producers : Claimed(p)' <=> Claimed(p)
  BY <1>1, TwoKinds DEF Claimed, HoldsCell
<1>4. /\ head \in Nat /\ tail \in Nat /\ head <= tail /\ tail <= head + Cap
      /\ Cap \in Nat /\ Cap >= 2
  BY CapFact DEF PlacesInv, TypeInv, RingInv, Cursors
<1>5. head < tail
  <2>1. SUFFICES ASSUME head = tail PROVE FALSE
    BY <1>4, SMT
  <2>2. tail <= head /\ head < head + Cap
    BY <2>1, <1>4, SMT
  <2>3. \/ sequence[Slot(head)] = head
        \/ \E d \in Consumers : HoldsCell(d) /\ pos[d] + Cap = head
    BY <1>4, <2>2 DEF PlacesInv, RingInv, Free
  <2>4. ASSUME NEW d \in Consumers, HoldsCell(d), pos[d] + Cap = head PROVE FALSE
    <3>1. pos[d] \in Nat /\ sequence[Slot(pos[d])] = pos[d] + 1
      BY <2>4, TwoKinds DEF PlacesInv, TypeInv, RingInv, Holds
    <3>2. Slot(head) = Slot(pos[d])
      BY <2>4, <3>1, SlotAround
    <3> QED BY <3>1, <3>2, <2>4, <1>2, <1>4, SMT
  <2> QED BY <2>3, <2>4, <1>2, <1>4, SMT
<1>6. Cursors'
  BY <1>1, <1>4, <1>5, SMT DEF Cursors
<1>7. Past'
  <2>1. ASSUME NEW n \in Nat, n < head + 1 PROVE sequence[Slot(n)] > n
    <3>1. CASE n = head
      BY <3>1, <1>2, <1>4, SMT
    <3>2. CASE n < head
      BY <3>2 DEF PlacesInv, RingInv, Past
    <3> QED BY <3>1, <3>2, <2>1, <1>4, SMT
  <2> QED BY <2>1, <1>1 DEF Past
<1>8. Taken'
  <2>1. \A n \in Nat : head + 1 <= n => head <= n
    BY <1>4, SMT
  <2> QED BY <2>1, <1>1, <1>3 DEF PlacesInv, RingInv, Taken
<1>9. Free'
  <2>1. ASSUME NEW n \in Nat, tail <= n, n < head + 1 + Cap
        PROVE  sequence[Slot(n)] = n \/ \E d \in Consumers : HoldsCell(d)' /\ pos[d] + Cap = n
    <3>1. CASE n = head + Cap
      BY <3>1, <1>1, <1>3
    <3>2. CASE n < head + Cap
      BY <3>2, <2>1, <1>3 DEF PlacesInv, RingInv, Free
    <3> QED BY <3>1, <3>2, <2>1, <1>4, SMT
  <2> QED BY <2>1, <1>1 DEF Free
<1>10. Claims'
  <2>1. ASSUME NEW p \in Producers, Claimed(p) PROVE head + 1 <= pos[p]
    <3>1. pos[p] \in Nat /\ head <= pos[p] /\ sequence[Slot(pos[p])] = pos[p]
      BY <2>1, TwoKinds DEF PlacesInv, TypeInv, RingInv, Claims
    <3>2. pos[p] # head
      BY <3>1, <1>2, <1>4, SMT
    <3> QED BY <3>1, <3>2, <1>4, SMT
  <2> QED BY <2>1, <1>1, <1>3 DEF PlacesInv, RingInv, Claims
<1>11. Holds'
  <2>0. \A d \in Consumers : HoldsCell(d) => pos[d] \in Nat /\ pos[d] < head
    BY TwoKinds DEF PlacesInv, TypeInv, RingInv, Holds
  <2>1. ASSUME NEW d \in Consumers, HoldsCell(d)'
        PROVE  /\ pos[d] < head + 1 /\ tail <= pos[d] + Cap
               /\ sequence[Slot(pos[d])] = pos[d] + 1
               /\ \A e \in Consumers \ {d} : HoldsCell(e)' => pos[e] # pos[d]
    <3>1. CASE d = c
      <4>1. \A e \in Consumers \ {c} : HoldsCell(e)' => pos[e] # head
        BY <2>0, <1>3, <1>4, SMT
      <4> QED BY <4>1, <3>1, <1>1, <1>2, <1>4, SMT
    <3>2. CASE d # c
      <4>1. HoldsCell(d) /\ pos[d] # pos[c]
        BY <3>2, <2>0, <2>1, <1>1, <1>3, <1>4, SMT
      <4>2. \A e \in Consumers \ {d} : HoldsCell(e)' => pos[e] # pos[d]
        BY <4>1, <1>3 DEF PlacesInv, RingInv, Holds
      <4>3. pos[d] < head + 1 /\ tail <= pos[d] + Cap /\ sequence[Slot(pos[d])] = pos[d] + 1
        <5>1. tail <= pos[d] + Cap /\ sequence[Slot(pos[d])] = pos[d] + 1
          BY <4>1 DEF PlacesInv, RingInv, Holds
        <5> QED BY <5>1, <4>1, <2>0, <1>4, SMT
      <4> QED BY <4>2, <4>3
    <3> QED BY <3>1, <3>2
  <2> QED BY <2>1, <1>1 DEF Holds
<1> QED BY <1>2, <1>5, <1>6, <1>7, <1>8, <1>9, <1>10, <1>11 DEF RingInv

\* A popper releases its cell for the next round.
LEMMA ReleaseRing ==
  ASSUME TaskIdQueueConstants, PlacesInv, NEW c \in Consumers, Release(c)
  PROVE  RingInv'
<1>1. TypeInv /\ RingInv
  BY DEF PlacesInv
<1>2. /\ HoldsCell(c) /\ ~HoldsCell(c)'
      /\ \A d \in Consumers : d # c => (HoldsCell(d)' <=> HoldsCell(d))
      /\ \A p \in Producers : Claimed(p)' <=> Claimed(p)
      /\ UNCHANGED <<head, tail, pos>>
  BY <1>1, TwoKinds DEF Claimed, HoldsCell, Release, Goto, TypeInv
<1>3. /\ pos[c] \in Nat /\ pos[c] < head /\ tail <= pos[c] + Cap
      /\ sequence[Slot(pos[c])] = pos[c] + 1
  BY <1>1, <1>2, TwoKinds DEF TypeInv, RingInv, Holds
<1>4. /\ head \in Nat /\ tail \in Nat /\ head <= tail /\ tail <= head + Cap
      /\ Cap \in Nat /\ Cap >= 2
  BY <1>1, CapFact DEF TypeInv, RingInv, Cursors
<1>5. /\ sequence'[Slot(pos[c])] = pos[c] + Cap
      /\ \A n \in Nat : Slot(n) # Slot(pos[c]) => sequence'[Slot(n)] = sequence[Slot(n)]
  <2>1. Slot(pos[c]) \in DOMAIN sequence /\ \A n \in Nat : Slot(n) \in DOMAIN sequence
    BY <1>1, <1>3, SlotType DEF TypeInv
  <2> QED BY <2>1, CellIsSlot DEF Release
<1>6. \A n \in Nat : head <= n /\ n < head + Cap /\ n # pos[c] + Cap =>
         sequence'[Slot(n)] = sequence[Slot(n)]
  BY <1>1, <1>2, <1>5, OwnCells
<1>7. Cursors'
  BY <1>1, <1>2 DEF RingInv, Cursors
<1>8. Past'
  <2>1. ASSUME NEW n \in Nat, n < head PROVE sequence'[Slot(n)] > n
    <3>1. sequence[Slot(n)] > n
      BY <1>1, <2>1 DEF RingInv, Past
    <3>2. CASE Slot(n) = Slot(pos[c])
      <4>1. sequence'[Slot(n)] = pos[c] + Cap /\ sequence[Slot(n)] = pos[c] + 1
        BY <3>2, <1>3, <1>5
      <4> QED BY <4>1, <3>1, <1>3, <1>4, SMT
    <3>3. CASE Slot(n) # Slot(pos[c])
      BY <3>1, <3>3, <1>5
    <3> QED BY <3>2, <3>3
  <2> QED BY <2>1, <1>2 DEF Past
<1>9. Taken'
  <2>1. \A n \in Nat : head <= n /\ n < tail => sequence'[Slot(n)] = sequence[Slot(n)]
    <3>1. \A n \in Nat : head <= n /\ n < tail => n < head + Cap /\ n # pos[c] + Cap
      BY <1>3, <1>4, SMT
    <3> QED BY <3>1, <1>6
  <2> QED BY <2>1, <1>1, <1>2 DEF RingInv, Taken
<1>10. Free'
  <2>1. ASSUME NEW n \in Nat, tail <= n, n < head + Cap
        PROVE  sequence'[Slot(n)] = n \/ \E d \in Consumers : HoldsCell(d)' /\ pos[d] + Cap = n
    <3>1. CASE n = pos[c] + Cap
      <4>1. Slot(n) = Slot(pos[c])
        BY <3>1, <1>3, SlotAround
      <4> QED BY <4>1, <3>1, <1>5
    <3>2. CASE n # pos[c] + Cap
      <4>1. head <= n
        BY <2>1, <1>4, SMT
      <4>2. sequence'[Slot(n)] = sequence[Slot(n)]
        BY <4>1, <3>2, <2>1, <1>6
      <4>3. \/ sequence[Slot(n)] = n
            \/ \E d \in Consumers : HoldsCell(d) /\ pos[d] + Cap = n
        BY <2>1, <1>1 DEF RingInv, Free
      <4> QED BY <4>2, <4>3, <3>2, <1>2
    <3> QED BY <3>1, <3>2
  <2> QED BY <2>1, <1>2 DEF Free
<1>11. Claims'
  <2>1. \A p \in Producers : Claimed(p) =>
           pos[p] \in Nat /\ sequence'[Slot(pos[p])] = sequence[Slot(pos[p])]
    BY <1>1, <1>2, <1>5, OwnCells, TwoKinds DEF TypeInv
  <2> QED BY <2>1, <1>1, <1>2 DEF RingInv, Claims
<1>12. Holds'
  <2>1. \A d \in Consumers : HoldsCell(d) /\ d # c =>
           pos[d] \in Nat /\ sequence'[Slot(pos[d])] = sequence[Slot(pos[d])]
    BY <1>1, <1>2, <1>5, OwnCells, TwoKinds DEF TypeInv
  <2> QED BY <2>1, <1>1, <1>2 DEF RingInv, Holds
<1> QED BY <1>7, <1>8, <1>9, <1>10, <1>11, <1>12 DEF RingInv

\* Writing and reading a value leave the ring alone; so does a quiet step.
LEMMA SameRing ==
  ASSUME TaskIdQueueConstants, PlacesInv,
         UNCHANGED <<head, tail, sequence>>,
         \A p \in Producers : (Claimed(p)' <=> Claimed(p)) /\ (Claimed(p) => pos'[p] = pos[p]),
         \A c \in Consumers : (HoldsCell(c)' <=> HoldsCell(c)) /\ (HoldsCell(c) => pos'[c] = pos[c])
  PROVE  RingInv'
<1>1. RingInv
  BY DEF PlacesInv
<1>2. Cursors' /\ Past'
  BY <1>1 DEF RingInv, Cursors, Past
<1>3. Taken'
  BY <1>1 DEF RingInv, Taken
<1>4. Free'
  BY <1>1 DEF RingInv, Free
<1>5. Claims'
  BY <1>1 DEF RingInv, Claims
<1>6. Holds'
  BY <1>1 DEF RingInv, Holds
<1> QED BY <1>2, <1>3, <1>4, <1>5, <1>6 DEF RingInv

LEMMA QuietOwners ==
  ASSUME TaskIdQueueConstants, Quiet
  PROVE  /\ \A p \in Producers : (Claimed(p)' <=> Claimed(p)) /\ (Claimed(p) => pos'[p] = pos[p])
         /\ \A c \in Consumers : (HoldsCell(c)' <=> HoldsCell(c))
                                 /\ (HoldsCell(c) => pos'[c] = pos[c])
BY DEF Quiet, Claimed, HoldsCell

LEMMA ValueKeepsOwners ==
  ASSUME TaskIdQueueConstants, TypeInv
  PROVE  /\ \A q \in Producers : WriteValue(q) =>
              /\ UNCHANGED <<head, tail, sequence, pos>>
              /\ \A p \in Producers : Claimed(p)' <=> Claimed(p)
              /\ \A c \in Consumers : HoldsCell(c)' <=> HoldsCell(c)
         /\ \A d \in Consumers : ReadValue(d) =>
              /\ UNCHANGED <<head, tail, sequence, value, pos>>
              /\ \A p \in Producers : Claimed(p)' <=> Claimed(p)
              /\ \A c \in Consumers : HoldsCell(c)' <=> HoldsCell(c)
BY TwoKinds DEF TypeInv, WriteValue, ReadValue, Goto, Claimed, HoldsCell, cells

\* The steps, sorted by what they do to the ring.
LEMMA StepKinds ==
  ASSUME TaskIdQueueConstants, TypeInv, [RingNext]_ringVars
  PROVE  \/ Quiet
         \/ \E p \in Producers : CasTail(p) /\ tail' # tail
         \/ \E p \in Producers : WriteValue(p) \/ Publish(p)
         \/ \E c \in Consumers : CasHead(c) /\ head' # head
         \/ \E c \in Consumers : ReadValue(c) \/ Release(c)
<1>1. UNCHANGED ringVars => Quiet
  BY LookingIsQuiet
<1>2. ASSUME NEW p \in Producers, BeginPush(p) \/ InspectForPush(p) PROVE Quiet
  BY <1>2, LookingIsQuiet
<1>3. ASSUME NEW p \in Producers, CasTail(p), tail' = tail PROVE Quiet
  BY <1>3, LookingIsQuiet
<1>4. ASSUME NEW c \in Consumers,
             \/ BeginPop(c) \/ InspectForPop(c) \/ BeginEmpty(c) \/ FinishEmpty(c) \/ UseEmpty(c)
      PROVE  Quiet
  <2>1. BeginPop(c) \/ InspectForPop(c) => Quiet
    BY LookingIsQuiet
  <2>2. BeginEmpty(c) \/ FinishEmpty(c) \/ UseEmpty(c) => Quiet
    BY LookingIsQuiet
  <2> QED BY <2>1, <2>2, <1>4
<1>5. ASSUME NEW c \in Consumers, CasHead(c), head' = head PROVE Quiet
  BY <1>5, LookingIsQuiet
<1> QED BY <1>1, <1>2, <1>3, <1>4, <1>5 DEF RingNext

LEMMA RingStep ==
  ASSUME TaskIdQueueConstants, PlacesInv, [RingNext]_ringVars
  PROVE  RingInv'
<1>0. TypeInv
  BY DEF PlacesInv
<1>1. Quiet => RingInv'
  BY SameRing, QuietOwners DEF Quiet
<1>2. ASSUME NEW p \in Producers PROVE CasTail(p) /\ tail' # tail => RingInv'
  BY ClaimRing
<1>3. ASSUME NEW p \in Producers PROVE WriteValue(p) => RingInv'
  BY <1>0, SameRing, ValueKeepsOwners
<1>4. ASSUME NEW p \in Producers PROVE Publish(p) => RingInv'
  BY PublishRing
<1>5. ASSUME NEW c \in Consumers PROVE CasHead(c) /\ head' # head => RingInv'
  BY TakeRing
<1>6. ASSUME NEW c \in Consumers PROVE ReadValue(c) => RingInv'
  BY <1>0, SameRing, ValueKeepsOwners
<1>7. ASSUME NEW c \in Consumers PROVE Release(c) => RingInv'
  BY ReleaseRing
<1> QED BY <1>0, <1>1, <1>2, <1>3, <1>4, <1>5, <1>6, <1>7, StepKinds

-----------------------------------------------------------------------------
(* The contents.                                                           *)

\* A step loses no id: what is gone or held stays so, and what waits in a place
\* still waits there, or has been taken.
StillFound ==
  /\ \A id : id \in gone \/ InHand(id) => id \in gone' \/ InHand(id)'
  /\ \A id, limit : /\ limit \in Nat /\ limit <= tail
                    /\ InPlace(id, limit)
                    => id \in gone' \/ InHand(id)' \/ InPlace(id, limit)'

\* A step that writes no value and no sequence keeps what a place contains.
LEMMA SameContents ==
  ASSUME TaskIdQueueConstants, PlacesInv, Quiet
  PROVE  ContentInv' /\ StillFound
<1>1. ContentInv
  BY DEF PlacesInv
<1>2. UNCHANGED <<head, tail, sequence, value, pushed, got, gone>>
  BY DEF Quiet
<1>3. Published' = Published /\ \A p : Arg(p)' = Arg(p)
  BY <1>2 DEF Published, Arg
<1>4. \A p \in Producers : ringPc'[p] = "publish" => ringPc[p] = "publish" /\ pos'[p] = pos[p]
  BY DEF Quiet, Claimed
<1>5. \A c \in Consumers : ringPc'[c] = "release" => ringPc[c] = "release" /\ pos'[c] = pos[c]
  BY DEF Quiet, HoldsCell
<1>6. Written' /\ GotRead'
  BY <1>1, <1>2, <1>3, <1>4, <1>5 DEF ContentInv, Written, GotRead
<1>7. Genuine'
  BY <1>1, <1>2, <1>3, QuietOwners DEF ContentInv, Genuine
<1>8. \A id : InHand(id) => InHand(id)'
  BY <1>2, QuietOwners DEF InHand
<1>9. \A id, limit : InPlace(id, limit) => InPlace(id, limit)'
  BY <1>2 DEF InPlace
<1>10. ASSUME NEW id, InPlace(id, tail) PROVE InPlace(id, tail)'
  BY <1>10, <1>2 DEF InPlace
<1>11. Accounted'
  BY <1>1, <1>2, <1>3, <1>8, <1>10 DEF ContentInv, Accounted
<1> QED BY <1>2, <1>6, <1>7, <1>8, <1>9, <1>11 DEF ContentInv, StillFound

\* Claiming a place publishes nothing.
LEMMA ClaimContents ==
  ASSUME TaskIdQueueConstants, PlacesInv, NEW p \in Producers, CasTail(p), tail' # tail
  PROVE  ContentInv' /\ StillFound
<1>1. ContentInv /\ TypeInv
  BY DEF PlacesInv
<1>2. /\ pos[p] = tail /\ tail' = tail + 1 /\ ringPc'[p] = "write" /\ ~Claimed(p)
      /\ \A t \in Threads \ {p} : ringPc'[t] = ringPc[t]
      /\ UNCHANGED <<head, sequence, value, pos, pushed, got, gone>>
      /\ \A c \in Consumers : HoldsCell(c)' <=> HoldsCell(c)
  BY <1>1, TwoKinds DEF CasTail, Goto, cells, TypeInv, Claimed, HoldsCell
<1>3. Published' = Published /\ \A q : Arg(q)' = Arg(q)
  BY <1>2 DEF Published, Arg
<1>4. Written' /\ GotRead'
  BY <1>1, <1>2, <1>3, TwoKinds DEF ContentInv, Written, GotRead
<1>5. sequence[Slot(tail)] = tail /\ tail \in Nat
  BY <1>1, ClaimRing DEF TypeInv
<1>6. \A n \in Nat : n < tail + 1 /\ sequence[Slot(n)] = n + 1 => n < tail
  <2>1. ASSUME NEW n \in Nat, n < tail + 1, sequence[Slot(n)] = n + 1 PROVE n < tail
    <3>1. n # tail
      BY <2>1, <1>5, SMT
    <3> QED BY <3>1, <2>1, <1>5, SMT
  <2> QED BY <2>1
<1>7. Genuine'
  <2>1. \A n \in Nat : head <= n /\ n < tail + 1 /\ sequence[Slot(n)] = n + 1 =>
           value[Slot(n)] \in Published
    BY <1>1, <1>6 DEF ContentInv, Genuine
  <2> QED BY <2>1, <1>1, <1>2, <1>3 DEF ContentInv, Genuine
<1>8. \A id : InHand(id) => InHand(id)'
  BY <1>2 DEF InHand
<1>9. \A id : InPlace(id, tail) => InPlace(id, tail)'
  <2>1. \A n \in Nat : n < tail => n < tail + 1
    BY <1>5, SMT
  <2> QED BY <2>1, <1>2 DEF InPlace
<1>10. Accounted'
  BY <1>1, <1>2, <1>3, <1>8, <1>9 DEF ContentInv, Accounted
<1>11. \A id, limit : InPlace(id, limit) => InPlace(id, limit)'
  BY <1>2 DEF InPlace
<1> QED BY <1>2, <1>4, <1>7, <1>8, <1>10, <1>11 DEF ContentInv, StillFound

\* A pusher writes into a cell nobody reads: neither a published place nor a
\* held one.
LEMMA WriteContents ==
  ASSUME TaskIdQueueConstants, PlacesInv, NEW p \in Producers, WriteValue(p)
  PROVE  ContentInv' /\ StillFound
<1>1. ContentInv /\ TypeInv /\ RingInv
  BY DEF PlacesInv
<1>2. /\ ringPc[p] = "write" /\ ringPc'[p] = "publish" /\ Claimed(p)
      /\ \A t \in Threads \ {p} : ringPc'[t] = ringPc[t]
      /\ UNCHANGED <<head, tail, sequence, pos, pushed, got, gone>>
      /\ value' = [value EXCEPT ![Slot(pos[p])] = Arg(p)]
      /\ \A c \in Consumers : HoldsCell(c)' <=> HoldsCell(c)
  BY <1>1, TwoKinds, CellIsSlot DEF WriteValue, Goto, TypeInv, Claimed, HoldsCell
<1>3. Published' = Published /\ \A q : Arg(q)' = Arg(q)
  BY <1>2 DEF Published, Arg
<1>4. /\ head \in Nat /\ tail \in Nat /\ Cap \in Nat /\ tail <= head + Cap
      /\ pos[p] \in Nat /\ head <= pos[p] /\ pos[p] < tail /\ sequence[Slot(pos[p])] = pos[p]
  BY <1>1, <1>2, CapFact, TwoKinds DEF TypeInv, RingInv, Cursors, Claims
<1>5. /\ value'[Slot(pos[p])] = Arg(p)
      /\ \A n \in Nat : Slot(n) # Slot(pos[p]) => value'[Slot(n)] = value[Slot(n)]
  <2>1. Slot(pos[p]) \in DOMAIN value /\ \A n \in Nat : Slot(n) \in DOMAIN value
    BY <1>1, <1>4, SlotType DEF TypeInv
  <2> QED BY <2>1, <1>2
<1>6. ASSUME NEW n \in Nat, head <= n, n < tail, sequence[Slot(n)] = n + 1
      PROVE  value'[Slot(n)] = value[Slot(n)]
  <2>1. n # pos[p] /\ n < head + Cap
    BY <1>4, <1>6, SMT
  <2>2. Slot(n) # Slot(pos[p])
    BY <2>1, <1>1, <1>2, <1>6, OwnCells
  <2> QED BY <2>2, <1>5
<1>7. \A c \in Consumers : HoldsCell(c) => pos[c] \in Nat /\ value'[Slot(pos[c])] = value[Slot(pos[c])]
  BY <1>1, <1>2, <1>5, OwnCells, TwoKinds DEF TypeInv
<1>8. \A q \in Producers : q # p /\ Claimed(q) => value'[Slot(pos[q])] = value[Slot(pos[q])]
  BY <1>1, <1>2, <1>5, OwnCells, TwoKinds DEF TypeInv
<1>9. Written'
  BY <1>1, <1>2, <1>3, <1>5, <1>8, TwoKinds DEF ContentInv, Written, Claimed
<1>10. GotRead'
  BY <1>1, <1>2, <1>7, TwoKinds DEF ContentInv, GotRead, HoldsCell
<1>11. Genuine'
  BY <1>1, <1>2, <1>3, <1>6, <1>7 DEF ContentInv, Genuine
<1>12. \A id : InHand(id) => InHand(id)'
  BY <1>2, <1>7 DEF InHand
<1>13. ASSUME NEW id, NEW limit \in Nat, InPlace(id, limit), limit <= tail PROVE InPlace(id, limit)'
  <2>1. PICK n \in Nat : /\ head <= n /\ n < limit
                         /\ sequence[Slot(n)] = n + 1 /\ value[Slot(n)] = id
    BY <1>13 DEF InPlace
  <2>2. n < tail
    BY <2>1, <1>4, <1>13, SMT
  <2> QED BY <2>1, <2>2, <1>2, <1>6 DEF InPlace
<1>14. Accounted'
  <2>1. tail <= tail
    BY <1>4, SMT
  <2> QED BY <2>1, <1>1, <1>2, <1>3, <1>4, <1>12, <1>13 DEF ContentInv, Accounted
<1> QED BY <1>2, <1>9, <1>10, <1>11, <1>12, <1>13, <1>14 DEF ContentInv, StillFound

\* Publishing makes the claimed place's id one of the published ones.
LEMMA PublishContents ==
  ASSUME TaskIdQueueConstants, PlacesInv, NEW p \in Producers, Publish(p)
  PROVE  /\ ContentInv' /\ StillFound
         /\ Published' = Published \cup {Arg(p)}
<1>1. ContentInv /\ TypeInv /\ RingInv
  BY DEF PlacesInv
<1>2. /\ ringPc[p] = "publish" /\ ringPc'[p] = "idle" /\ Claimed(p)
      /\ \A t \in Threads \ {p} : ringPc'[t] = ringPc[t]
      /\ UNCHANGED <<head, tail, value, pos, got, gone>>
      /\ pushed' = [pushed EXCEPT ![p] = @ + 1]
      /\ \A c \in Consumers : HoldsCell(c)' <=> HoldsCell(c)
  BY <1>1, TwoKinds DEF Publish, Goto, TypeInv, Claimed, HoldsCell
<1>3. /\ head \in Nat /\ tail \in Nat /\ Cap \in Nat /\ tail <= head + Cap
      /\ pos[p] \in Nat /\ head <= pos[p] /\ pos[p] < tail
  BY <1>1, <1>2, CapFact, TwoKinds DEF TypeInv, RingInv, Cursors, Claims
<1>4. pushed[p] \in Nat /\ pushed[p] < MaxPushes /\ MaxPushes \in Nat
  BY <1>1, <1>2 DEF TypeInv, TaskIdQueueConstants
<1>5. value[Slot(pos[p])] = Arg(p) /\ Arg(p) \in Ids
  BY <1>1, <1>2, <1>4, ArgIsNew DEF ContentInv, Written
<1>6. Published' = Published \cup {Arg(p)}
  <2>1. ASSUME NEW id \in Ids
        PROVE  id[2] <= pushed'[id[1]] <=> id[2] <= pushed[id[1]] \/ id = Arg(p)
    <3>1. PICK q \in Producers, n \in 1 .. MaxPushes : id = <<q, n>>
      BY DEF Ids
    <3>2. id[1] = q /\ id[2] = n /\ (id = Arg(p) <=> q = p /\ n = pushed[p] + 1)
      BY <3>1 DEF Arg
    <3>3. CASE q = p
      <4>1. pushed'[q] = pushed[p] + 1
        BY <3>3, <1>1, <1>2 DEF TypeInv
      <4>2. n <= pushed[p] + 1 <=> n <= pushed[p] \/ n = pushed[p] + 1
        BY <1>4, SMT
      <4> QED BY <4>1, <4>2, <3>2, <3>3
    <3>4. CASE q # p
      BY <3>2, <3>4, <1>1, <1>2 DEF TypeInv
    <3> QED BY <3>3, <3>4
  <2> HIDE DEF Ids
  <2> QED BY <2>1, <1>5 DEF Published
<1>7. \A q \in Producers : q # p => Arg(q)' = Arg(q)
  BY <1>1, <1>2 DEF Arg, TypeInv
<1>8. /\ sequence'[Slot(pos[p])] = pos[p] + 1
      /\ \A n \in Nat : Slot(n) # Slot(pos[p]) => sequence'[Slot(n)] = sequence[Slot(n)]
  <2>1. Slot(pos[p]) \in DOMAIN sequence /\ \A n \in Nat : Slot(n) \in DOMAIN sequence
    BY <1>1, <1>3, SlotType DEF TypeInv
  <2> QED BY <2>1, CellIsSlot DEF Publish
<1>9. \A n \in Nat : head <= n /\ n < tail /\ n # pos[p] => sequence'[Slot(n)] = sequence[Slot(n)]
  <2>1. \A n \in Nat : n < tail => n < head + Cap
    BY <1>3, SMT
  <2> QED BY <2>1, <1>1, <1>2, <1>8, OwnCells
<1>10. Written' /\ GotRead'
  BY <1>1, <1>2, <1>7, TwoKinds DEF ContentInv, Written, GotRead
<1>11. Genuine'
  <2>1. ASSUME NEW n \in Nat, head <= n, n < tail, sequence'[Slot(n)] = n + 1
        PROVE  value[Slot(n)] \in Published \cup {Arg(p)}
    <3>1. CASE n = pos[p]
      BY <3>1, <1>5
    <3>2. CASE n # pos[p]
      BY <3>2, <2>1, <1>1, <1>9 DEF ContentInv, Genuine
    <3> QED BY <3>1, <3>2
  <2> QED BY <2>1, <1>1, <1>2, <1>6 DEF ContentInv, Genuine
<1>12. \A id : InHand(id) => InHand(id)'
  BY <1>2 DEF InHand
<1>13. ASSUME NEW id, NEW limit \in Nat, InPlace(id, limit), limit <= tail PROVE InPlace(id, limit)'
  <2>1. PICK n \in Nat : /\ head <= n /\ n < limit
                         /\ sequence[Slot(n)] = n + 1 /\ value[Slot(n)] = id
    BY <1>13 DEF InPlace
  <2>2. n < tail
    BY <2>1, <1>3, <1>13, SMT
  <2>3. sequence'[Slot(n)] = n + 1
    BY <2>1, <2>2, <1>8, <1>9
  <2> QED BY <2>1, <2>3, <1>2 DEF InPlace
<1>14. ASSUME NEW id, id = Arg(p) PROVE InPlace(id, tail)'
  BY <1>2, <1>3, <1>5, <1>8, <1>14 DEF InPlace
<1>15. Accounted'
  <2>1. tail <= tail
    BY <1>3, SMT
  <2>2. ASSUME NEW id \in Published PROVE (id \in gone \/ InHand(id) \/ InPlace(id, tail))'
    <3>1. InPlace(id, tail) => InPlace(id, tail)'
      BY <2>1, <1>2, <1>3, <1>13 DEF InPlace
    <3> QED BY <3>1, <1>1, <1>2, <1>12 DEF ContentInv, Accounted
  <2> QED BY <2>2, <1>6, <1>14 DEF Accounted
<1> QED BY <1>2, <1>6, <1>10, <1>11, <1>12, <1>13, <1>15 DEF ContentInv, StillFound

\* Taking the place at the head puts its id into the popper's hands.
LEMMA TakeContents ==
  ASSUME TaskIdQueueConstants, PlacesInv, NEW c \in Consumers, CasHead(c), head' # head
  PROVE  ContentInv' /\ StillFound
<1>1. ContentInv /\ TypeInv /\ RingInv
  BY DEF PlacesInv
<1>2. /\ pos[c] = head /\ head' = head + 1 /\ ringPc'[c] = "read"
      /\ \A t \in Threads \ {c} : ringPc'[t] = ringPc[t]
      /\ UNCHANGED <<tail, sequence, value, pos, pushed, got, gone>>
      /\ \A d \in Consumers : HoldsCell(d)' <=> HoldsCell(d) \/ d = c
  BY <1>1, TwoKinds DEF CasHead, Goto, cells, TypeInv, HoldsCell
<1>3. Published' = Published /\ \A q : Arg(q)' = Arg(q)
  BY <1>2 DEF Published, Arg
<1>4. head \in Nat /\ tail \in Nat /\ head < tail /\ sequence[Slot(head)] = head + 1
  BY <1>1, TakeRing DEF TypeInv
<1>5. Written' /\ GotRead'
  BY <1>1, <1>2, <1>3, TwoKinds DEF ContentInv, Written, GotRead
<1>6. Genuine'
  <2>1. \A n \in Nat : head + 1 <= n => head <= n
    BY <1>4, SMT
  <2>2. head <= head
    BY <1>4, SMT
  <2>3. value[Slot(head)] \in Published
    BY <2>2, <1>1, <1>4 DEF ContentInv, Genuine
  <2> QED BY <2>1, <2>3, <1>1, <1>2, <1>3 DEF ContentInv, Genuine
<1>7. \A id : InHand(id) => InHand(id)'
  BY <1>2 DEF InHand
<1>8. ASSUME NEW id, NEW limit \in Nat, InPlace(id, limit) PROVE InHand(id)' \/ InPlace(id, limit)'
  <2>1. PICK n \in Nat : /\ head <= n /\ n < limit
                         /\ sequence[Slot(n)] = n + 1 /\ value[Slot(n)] = id
    BY <1>8 DEF InPlace
  <2>2. CASE n = head
    BY <2>1, <2>2, <1>2 DEF InHand
  <2>3. CASE n # head
    <3>1. head + 1 <= n
      BY <2>1, <2>3, <1>4, SMT
    <3> QED BY <3>1, <2>1, <1>2 DEF InPlace
  <2> QED BY <2>2, <2>3
<1>9. Accounted'
  BY <1>1, <1>2, <1>3, <1>4, <1>7, <1>8 DEF ContentInv, Accounted
<1> QED BY <1>2, <1>5, <1>6, <1>7, <1>8, <1>9 DEF ContentInv, StillFound

\* Reading a value writes only the popper's own variable.
LEMMA ReadContents ==
  ASSUME TaskIdQueueConstants, PlacesInv, NEW c \in Consumers, ReadValue(c)
  PROVE  ContentInv' /\ StillFound
<1>1. ContentInv /\ TypeInv
  BY DEF PlacesInv
<1>2. /\ ringPc[c] = "read" /\ ringPc'[c] = "release"
      /\ \A t \in Threads \ {c} : ringPc'[t] = ringPc[t]
      /\ UNCHANGED <<head, tail, sequence, value, pos, pushed, gone>>
      /\ got' = [got EXCEPT ![c] = value[Slot(pos[c])]]
      /\ \A d \in Consumers : HoldsCell(d)' <=> HoldsCell(d)
  BY <1>1, TwoKinds, CellIsSlot DEF ReadValue, Goto, cells, TypeInv, HoldsCell
<1>3. Published' = Published /\ \A q : Arg(q)' = Arg(q)
  BY <1>2 DEF Published, Arg
<1>4. Written' /\ GotRead'
  BY <1>1, <1>2, <1>3, TwoKinds DEF ContentInv, Written, GotRead, TypeInv
<1>5. Genuine'
  BY <1>1, <1>2, <1>3 DEF ContentInv, Genuine
<1>6. \A id : InHand(id) => InHand(id)'
  BY <1>2 DEF InHand
<1>7. \A id, limit : InPlace(id, limit) => InPlace(id, limit)'
  BY <1>2 DEF InPlace
<1>8. \A id : InPlace(id, tail) => InPlace(id, tail)'
  BY <1>2 DEF InPlace
<1>9. Accounted'
  BY <1>1, <1>2, <1>3, <1>6, <1>8 DEF ContentInv, Accounted
<1> QED BY <1>2, <1>4, <1>5, <1>6, <1>7, <1>9 DEF ContentInv, StillFound

\* Releasing the cell hands the id over.
LEMMA ReleaseContents ==
  ASSUME TaskIdQueueConstants, PlacesInv, NEW c \in Consumers, Release(c)
  PROVE  ContentInv' /\ StillFound
<1>1. ContentInv /\ TypeInv /\ RingInv
  BY DEF PlacesInv
<1>2. /\ ringPc[c] = "release" /\ ringPc'[c] = "idle" /\ HoldsCell(c)
      /\ \A t \in Threads \ {c} : ringPc'[t] = ringPc[t]
      /\ UNCHANGED <<head, tail, value, pos, pushed>>
      /\ gone' = gone \cup {got[c]} /\ got' = [got EXCEPT ![c] = None]
      /\ \A d \in Consumers : HoldsCell(d)' <=> HoldsCell(d) /\ d # c
  BY <1>1, TwoKinds DEF Release, Goto, cells, TypeInv, HoldsCell
<1>3. Published' = Published /\ \A q : Arg(q)' = Arg(q)
  BY <1>2 DEF Published, Arg
<1>4. /\ head \in Nat /\ tail \in Nat /\ Cap \in Nat /\ tail <= head + Cap
      /\ pos[c] \in Nat /\ pos[c] < head /\ tail <= pos[c] + Cap
  BY <1>1, <1>2, CapFact, TwoKinds DEF TypeInv, RingInv, Cursors, Holds
<1>5. \A n \in Nat : Slot(n) # Slot(pos[c]) => sequence'[Slot(n)] = sequence[Slot(n)]
  <2>1. Slot(pos[c]) \in DOMAIN sequence /\ \A n \in Nat : Slot(n) \in DOMAIN sequence
    BY <1>1, <1>4, SlotType DEF TypeInv
  <2> QED BY <2>1, CellIsSlot DEF Release
<1>6. \A n \in Nat : head <= n /\ n < tail => sequence'[Slot(n)] = sequence[Slot(n)]
  <2>1. \A n \in Nat : head <= n /\ n < tail => n < head + Cap /\ n # pos[c] + Cap
    BY <1>4, SMT
  <2> QED BY <2>1, <1>1, <1>2, <1>5, OwnCells
<1>7. Written'
  BY <1>1, <1>2, <1>3, TwoKinds DEF ContentInv, Written
<1>8. GotRead'
  BY <1>1, <1>2, TwoKinds DEF ContentInv, GotRead, TypeInv
<1>9. Genuine'
  BY <1>1, <1>2, <1>3, <1>6 DEF ContentInv, Genuine
<1>10. ASSUME NEW id, id \in gone \/ InHand(id) PROVE id \in gone' \/ InHand(id)'
  <2>1. CASE id \in gone
    BY <2>1, <1>2
  <2>2. CASE InHand(id)
    <3>1. PICK d \in Consumers : HoldsCell(d) /\ value[Slot(pos[d])] = id
      BY <2>2 DEF InHand
    <3>2. CASE d = c
      BY <3>1, <3>2, <1>1, <1>2 DEF ContentInv, GotRead
    <3>3. CASE d # c
      BY <3>1, <3>3, <1>2 DEF InHand
    <3> QED BY <3>2, <3>3
  <2> QED BY <1>10, <2>1, <2>2
<1>11. ASSUME NEW id, NEW limit \in Nat, InPlace(id, limit), limit <= tail PROVE InPlace(id, limit)'
  <2>1. PICK n \in Nat : /\ head <= n /\ n < limit
                         /\ sequence[Slot(n)] = n + 1 /\ value[Slot(n)] = id
    BY <1>11 DEF InPlace
  <2>2. n < tail
    BY <2>1, <1>4, <1>11, SMT
  <2> QED BY <2>1, <2>2, <1>2, <1>6 DEF InPlace
<1>12. Accounted'
  <2>1. tail <= tail
    BY <1>4, SMT
  <2> QED BY <2>1, <1>1, <1>2, <1>3, <1>4, <1>10, <1>11 DEF ContentInv, Accounted
<1> QED BY <1>7, <1>8, <1>9, <1>10, <1>11, <1>12 DEF ContentInv, StillFound

LEMMA ContentStep ==
  ASSUME TaskIdQueueConstants, PlacesInv, [RingNext]_ringVars
  PROVE  ContentInv' /\ StillFound
<1>0. TypeInv
  BY DEF PlacesInv
<1>1. Quiet => ContentInv' /\ StillFound
  BY SameContents
<1>2. ASSUME NEW p \in Producers
      PROVE  (CasTail(p) /\ tail' # tail) \/ WriteValue(p) \/ Publish(p) => ContentInv' /\ StillFound
  BY ClaimContents, WriteContents, PublishContents
<1>3. ASSUME NEW c \in Consumers
      PROVE  (CasHead(c) /\ head' # head) \/ ReadValue(c) \/ Release(c) => ContentInv' /\ StillFound
  BY TakeContents, ReadContents, ReleaseContents
<1> QED BY <1>0, <1>1, <1>2, <1>3, StepKinds

-----------------------------------------------------------------------------
(* What the threads have seen.                                             *)

\* Where a step may put a thread, and with which local cursor.
PusherArrives(p) ==
  /\ ringPc'[p] = "cas" => /\ pos'[p] = pos[p]
                           /\ \/ ringPc[p] = "cas"
                              \/ ringPc[p] = "inspect" /\ sequence[Slot(pos[p])] = pos[p]
  /\ ringPc'[p] = "inspect" => pos'[p] = tail \/ (ringPc[p] = "inspect" /\ pos'[p] = pos[p])

PopperArrives(c) ==
  /\ ringPc'[c] = "cas" => /\ pos'[c] = pos[c]
                           /\ \/ ringPc[c] = "cas"
                              \/ ringPc[c] = "inspect" /\ sequence[Slot(pos[c])] = pos[c] + 1
  /\ ringPc'[c] = "inspect" => pos'[c] = head \/ (ringPc[c] = "inspect" /\ pos'[c] = pos[c])
  /\ ringPc'[c] = "size" => \/ ringPc[c] = "size" /\ pos'[c] = pos[c] /\ before'[c] = before[c]
                            \/ pos'[c] = tail /\ before'[c] = Published
  /\ ringPc'[c] = "empty" => /\ before'[c] = before[c]
                             /\ ringPc[c] = "empty" \/ (ringPc[c] = "size" /\ pos[c] = head)

Stays(t) == ringPc'[t] = ringPc[t] /\ pos'[t] = pos[t] /\ (t \in Consumers => before'[t] = before[t])

LEMMA StayingArrives ==
  ASSUME TaskIdQueueConstants
  PROVE  /\ \A p \in Producers : Stays(p) => PusherArrives(p)
         /\ \A c \in Consumers : Stays(c) => PopperArrives(c)
BY DEF Stays, PusherArrives, PopperArrives

LEMMA PusherSteps ==
  ASSUME TaskIdQueueConstants, TypeInv, NEW p \in Producers,
         \/ BeginPush(p) \/ InspectForPush(p) \/ CasTail(p) \/ WriteValue(p) \/ Publish(p)
  PROVE  PusherArrives(p) /\ \A t \in Threads \ {p} : Stays(t)
<1> USE TwoKinds DEF TypeInv, Goto
<1>1. CASE BeginPush(p)
  BY <1>1 DEF BeginPush, PusherArrives, Stays
<1>2. CASE InspectForPush(p)
  BY <1>2, CellIsSlot DEF InspectForPush, PusherArrives, Stays
<1>3. CASE CasTail(p)
  BY <1>3 DEF CasTail, PusherArrives, Stays
<1>4. CASE WriteValue(p)
  BY <1>4 DEF WriteValue, PusherArrives, Stays
<1>5. CASE Publish(p)
  BY <1>5 DEF Publish, PusherArrives, Stays
<1> QED BY <1>1, <1>2, <1>3, <1>4, <1>5

LEMMA PopperSteps ==
  ASSUME TaskIdQueueConstants, TypeInv, NEW c \in Consumers,
         \/ BeginPop(c) \/ InspectForPop(c) \/ CasHead(c) \/ ReadValue(c) \/ Release(c)
         \/ BeginEmpty(c) \/ FinishEmpty(c) \/ UseEmpty(c)
  PROVE  PopperArrives(c) /\ \A t \in Threads \ {c} : Stays(t)
<1> USE TwoKinds DEF TypeInv, Goto
<1>1. CASE BeginPop(c)
  BY <1>1 DEF BeginPop, PopperArrives, Stays
<1>2. CASE InspectForPop(c)
  BY <1>2, CellIsSlot DEF InspectForPop, PopperArrives, Stays
<1>3. CASE CasHead(c)
  BY <1>3 DEF CasHead, PopperArrives, Stays
<1>4. CASE ReadValue(c)
  BY <1>4 DEF ReadValue, PopperArrives, Stays
<1>5. CASE Release(c)
  BY <1>5 DEF Release, PopperArrives, Stays
<1>6. CASE BeginEmpty(c)
  BY <1>6 DEF BeginEmpty, PopperArrives, Stays
<1>7. CASE FinishEmpty(c)
  BY <1>7, SMT DEF FinishEmpty, PopperArrives, Stays
<1>8. CASE UseEmpty(c)
  BY <1>8 DEF UseEmpty, PopperArrives, Stays
<1> QED BY <1>1, <1>2, <1>3, <1>4, <1>5, <1>6, <1>7, <1>8

LEMMA ThreadSteps ==
  ASSUME TaskIdQueueConstants, TypeInv, [RingNext]_ringVars
  PROVE  /\ \A p \in Producers : PusherArrives(p)
         /\ \A c \in Consumers : PopperArrives(c)
<1>1. CASE UNCHANGED ringVars
  <2>1. \A t : Stays(t)
    BY <1>1 DEF ringVars, Stays
  <2> QED BY <2>1, StayingArrives
<1>2. ASSUME NEW p \in Producers,
             PusherArrives(p) /\ \A t \in Threads \ {p} : Stays(t)
      PROVE  /\ \A q \in Producers : PusherArrives(q)
             /\ \A c \in Consumers : PopperArrives(c)
  BY <1>2, StayingArrives, TwoKinds
<1>3. ASSUME NEW d \in Consumers,
             PopperArrives(d) /\ \A t \in Threads \ {d} : Stays(t)
      PROVE  /\ \A q \in Producers : PusherArrives(q)
             /\ \A c \in Consumers : PopperArrives(c)
  BY <1>3, StayingArrives, TwoKinds
<1>4. ASSUME NEW p \in Producers,
             \/ BeginPush(p) \/ InspectForPush(p) \/ CasTail(p) \/ WriteValue(p) \/ Publish(p)
      PROVE  PusherArrives(p) /\ \A t \in Threads \ {p} : Stays(t)
  BY <1>4, PusherSteps
<1>5. ASSUME NEW c \in Consumers,
             \/ BeginPop(c) \/ InspectForPop(c) \/ CasHead(c) \/ ReadValue(c) \/ Release(c)
             \/ BeginEmpty(c) \/ FinishEmpty(c) \/ UseEmpty(c)
      PROVE  PopperArrives(c) /\ \A t \in Threads \ {c} : Stays(t)
  BY <1>5, PopperSteps
<1>6. ASSUME NEW p \in Producers,
             \/ BeginPush(p) \/ InspectForPush(p) \/ CasTail(p) \/ WriteValue(p) \/ Publish(p)
      PROVE  /\ \A q \in Producers : PusherArrives(q)
             /\ \A c \in Consumers : PopperArrives(c)
  BY <1>2, <1>4, <1>6
<1>7. ASSUME NEW d \in Consumers,
             \/ BeginPop(d) \/ InspectForPop(d) \/ CasHead(d) \/ ReadValue(d) \/ Release(d)
             \/ BeginEmpty(d) \/ FinishEmpty(d) \/ UseEmpty(d)
      PROVE  /\ \A q \in Producers : PusherArrives(q)
             /\ \A c \in Consumers : PopperArrives(c)
  BY <1>3, <1>5, <1>7
<1> QED BY <1>1, <1>6, <1>7 DEF RingNext

\* The cursors only advance, and a cell that is ready for a cursor stays ready
\* until that cursor advances.
LEMMA ReadyStays ==
  ASSUME TaskIdQueueConstants, PlacesInv, [RingNext]_ringVars
  PROVE  /\ head' \in Nat /\ tail' \in Nat
         /\ head' = head \/ head' = head + 1
         /\ tail' = tail \/ tail' = tail + 1
         /\ tail' = tail /\ sequence[Slot(tail)] = tail => sequence'[Slot(tail)] = tail
         /\ head' = head /\ sequence[Slot(head)] = head + 1 => sequence'[Slot(head)] = head + 1
<1>1. /\ TypeInv /\ RingInv /\ TypeInv'
      /\ head \in Nat /\ tail \in Nat /\ head <= tail /\ tail <= head + Cap
      /\ Cap \in Nat /\ Cap >= 2
  BY TypeStep, CapFact DEF PlacesInv, TypeInv, RingInv, Cursors
<1>2. head' \in Nat /\ tail' \in Nat
  BY <1>1 DEF TypeInv
<1>3. Quiet => UNCHANGED <<head, tail, sequence>>
  BY DEF Quiet
<1>4. ASSUME NEW p \in Producers
      PROVE  /\ CasTail(p) => /\ UNCHANGED <<head, sequence>>
                              /\ tail' = tail \/ tail' = tail + 1
             /\ WriteValue(p) => UNCHANGED <<head, tail, sequence>>
  BY DEF CasTail, WriteValue, cells
<1>5. ASSUME NEW c \in Consumers
      PROVE  /\ CasHead(c) => /\ UNCHANGED <<tail, sequence>>
                              /\ head' = head \/ head' = head + 1
             /\ ReadValue(c) => UNCHANGED <<head, tail, sequence>>
  BY DEF CasHead, ReadValue, cells
<1>6. ASSUME NEW p \in Producers, Publish(p)
      PROVE  /\ UNCHANGED <<head, tail>>
             /\ sequence[Slot(tail)] = tail => sequence'[Slot(tail)] = tail
             /\ sequence[Slot(head)] = head + 1 => sequence'[Slot(head)] = head + 1
  <2>1. Claimed(p) /\ UNCHANGED <<head, tail>>
    BY <1>6 DEF Claimed, Publish
  <2>2. pos[p] \in Nat /\ head <= pos[p] /\ pos[p] < tail /\ sequence[Slot(pos[p])] = pos[p]
    BY <2>1, <1>1, TwoKinds DEF TypeInv, RingInv, Claims
  <2>3. \A n \in Nat : Slot(n) # Slot(pos[p]) => sequence'[Slot(n)] = sequence[Slot(n)]
    <3>1. Slot(pos[p]) \in DOMAIN sequence /\ \A n \in Nat : Slot(n) \in DOMAIN sequence
      BY <1>1, <2>2, SlotType DEF TypeInv
    <3> QED BY <3>1, <1>6, CellIsSlot DEF Publish
  <2>4. sequence[Slot(tail)] = tail => Slot(tail) # Slot(pos[p])
    <3>1. pos[p] # tail
      BY <2>2, <1>1, SMT
    <3> QED BY <3>1, <2>2
  <2>5. sequence[Slot(head)] = head + 1 => Slot(head) # Slot(pos[p])
    <3>1. CASE pos[p] = head + 1
      <4>1. head # pos[p] /\ head < pos[p] + Cap /\ pos[p] < head + Cap
        BY <3>1, <1>1, SMT
      <4> QED BY <4>1, <2>2, <1>1, SlotsApart
    <3>2. CASE pos[p] # head + 1
      BY <3>2, <2>2
    <3> QED BY <3>1, <3>2
  <2> QED BY <2>1, <2>3, <2>4, <2>5, <1>1
<1>7. ASSUME NEW c \in Consumers, Release(c)
      PROVE  /\ UNCHANGED <<head, tail>>
             /\ sequence[Slot(tail)] = tail => sequence'[Slot(tail)] = tail
             /\ sequence[Slot(head)] = head + 1 => sequence'[Slot(head)] = head + 1
  <2>1. HoldsCell(c) /\ UNCHANGED <<head, tail>>
    BY <1>7 DEF HoldsCell, Release
  <2>2. pos[c] \in Nat /\ pos[c] < head /\ sequence[Slot(pos[c])] = pos[c] + 1
    BY <2>1, <1>1, TwoKinds DEF TypeInv, RingInv, Holds
  <2>3. \A n \in Nat : Slot(n) # Slot(pos[c]) => sequence'[Slot(n)] = sequence[Slot(n)]
    <3>1. Slot(pos[c]) \in DOMAIN sequence /\ \A n \in Nat : Slot(n) \in DOMAIN sequence
      BY <1>1, <2>2, SlotType DEF TypeInv
    <3> QED BY <3>1, <1>7, CellIsSlot DEF Release
  <2>4. sequence[Slot(tail)] = tail => Slot(tail) # Slot(pos[c])
    <3>1. CASE tail = pos[c] + 1
      <4>1. tail # pos[c] /\ tail < pos[c] + Cap /\ pos[c] < tail + Cap
        BY <3>1, <2>2, <1>1, SMT
      <4> QED BY <4>1, <2>2, <1>1, SlotsApart
    <3>2. CASE tail # pos[c] + 1
      BY <3>2, <2>2
    <3> QED BY <3>1, <3>2
  <2>5. sequence[Slot(head)] = head + 1 => Slot(head) # Slot(pos[c])
    <3>1. head + 1 # pos[c] + 1
      BY <2>2, <1>1, SMT
    <3> QED BY <3>1, <2>2
  <2> QED BY <2>1, <2>3, <2>4, <2>5, <1>1
<1>8. head # head + 1 /\ tail # tail + 1
  BY <1>1, SMT
<1> QED BY <1>1, <1>2, <1>3, <1>4, <1>5, <1>6, <1>7, <1>8, StepKinds

LEMMA LocalStep ==
  ASSUME TaskIdQueueConstants, PlacesInv, [RingNext]_ringVars
  PROVE  LocalInv'
<1>1. TypeInv /\ TypeInv' /\ RingInv /\ ContentInv /\ LocalInv /\ StillFound
  BY TypeStep, ContentStep DEF PlacesInv
<1>2. /\ \A p \in Producers : PusherArrives(p)
      /\ \A c \in Consumers : PopperArrives(c)
  BY <1>1, ThreadSteps
<1>3. /\ head \in Nat /\ tail \in Nat /\ head' \in Nat /\ tail' \in Nat
      /\ head <= tail /\ head <= head' /\ tail <= tail'
      /\ \A t \in Threads : pos[t] \in Nat /\ pos'[t] \in Nat
  <2>1. head <= head' /\ tail <= tail'
    BY <1>1, ReadyStays, SMT DEF TypeInv
  <2> QED BY <2>1, <1>1 DEF TypeInv, RingInv, Cursors
<1>4. ASSUME NEW p \in Producers
      PROVE  /\ ringPc'[p] \in {"inspect", "cas"} => pos'[p] <= tail
             /\ ringPc'[p] = "cas" => pos[p] <= tail
  <2>1. ringPc[p] \in {"inspect", "cas"} => pos[p] <= tail
    BY <1>1 DEF LocalInv, Loaded
  <2>2. tail <= tail
    BY <1>3, SMT
  <2> QED BY <2>1, <2>2, <1>2 DEF PusherArrives
<1>5. ASSUME NEW c \in Consumers
      PROVE  /\ ringPc'[c] \in {"inspect", "cas"} => pos'[c] <= head
             /\ ringPc'[c] = "size" => pos'[c] <= tail
  <2>1. /\ ringPc[c] \in {"inspect", "cas"} => pos[c] <= head
        /\ ringPc[c] = "size" => pos[c] <= tail
    BY <1>1 DEF LocalInv, Loaded
  <2>2. head <= head /\ tail <= tail
    BY <1>3, SMT
  <2> QED BY <2>1, <2>2, <1>2 DEF PopperArrives
<1>6. Loaded'
  <2>1. ASSUME NEW p \in Producers, ringPc'[p] \in {"inspect", "cas"} PROVE pos'[p] <= tail'
    <3>1. pos'[p] \in Nat /\ pos'[p] <= tail
      BY <2>1, <1>3, <1>4, TwoKinds
    <3> QED BY <3>1, <1>3, SMT
  <2>2. ASSUME NEW c \in Consumers, ringPc'[c] \in {"inspect", "cas"} PROVE pos'[c] <= head'
    <3>1. pos'[c] \in Nat /\ pos'[c] <= head
      BY <2>2, <1>3, <1>5, TwoKinds
    <3> QED BY <3>1, <1>3, SMT
  <2>3. ASSUME NEW c \in Consumers, ringPc'[c] = "size" PROVE pos'[c] <= tail'
    <3>1. pos'[c] \in Nat /\ pos'[c] <= tail
      BY <2>3, <1>3, <1>5, TwoKinds
    <3> QED BY <3>1, <1>3, SMT
  <2> QED BY <2>1, <2>2, <2>3 DEF Loaded
<1>7. ReadyToPush'
  <2>1. ASSUME NEW p \in Producers, ringPc'[p] = "cas", pos'[p] = tail'
        PROVE  sequence'[Slot(tail')] = tail'
    <3>1. pos[p] = tail' /\ pos[p] <= tail
      BY <2>1, <1>2, <1>4 DEF PusherArrives
    <3>2. tail' = tail /\ pos[p] = tail
      BY <3>1, <1>3, SMT
    <3>3. sequence[Slot(tail)] = tail
      BY <2>1, <3>2, <1>1, <1>2 DEF PusherArrives, LocalInv, ReadyToPush
    <3> QED BY <3>2, <3>3, ReadyStays
  <2> QED BY <2>1 DEF ReadyToPush, Slot
<1>8. ReadyToPop'
  <2>1. ASSUME NEW c \in Consumers, ringPc'[c] = "cas", pos'[c] = head'
        PROVE  sequence'[Slot(head')] = head' + 1
    <3>1. pos[c] = head' /\ pos'[c] <= head
      BY <2>1, <1>2, <1>5 DEF PopperArrives
    <3>2. head' = head /\ pos[c] = head
      BY <3>1, <2>1, <1>3, SMT
    <3>3. sequence[Slot(head)] = head + 1
      BY <2>1, <3>2, <1>1, <1>2 DEF PopperArrives, LocalInv, ReadyToPop
    <3> QED BY <3>2, <3>3, ReadyStays
  <2> QED BY <2>1 DEF ReadyToPop, Slot
<1>9. SizeSeen'
  <2>1. ASSUME NEW c \in Consumers, ringPc'[c] = "size", NEW id \in before'[c], NEW limit, limit = pos'[c]
        PROVE  id \in gone' \/ InHand(id)' \/ InPlace(id, limit)'
    <3>1. limit \in Nat /\ limit <= tail
      BY <2>1, <1>3, <1>5, TwoKinds
    <3>2. id \in gone \/ InHand(id) \/ InPlace(id, limit)
      <4>1. CASE ringPc[c] = "size" /\ pos'[c] = pos[c] /\ before'[c] = before[c]
        BY <4>1, <2>1, <1>1 DEF LocalInv, SizeSeen
      <4>2. CASE pos'[c] = tail /\ before'[c] = Published
        BY <4>2, <2>1, <1>1 DEF ContentInv, Accounted
      <4> QED BY <4>1, <4>2, <2>1, <1>2 DEF PopperArrives
    <3> QED BY <3>1, <3>2, <1>1 DEF StillFound
  <2> QED BY <2>1 DEF SizeSeen, InPlace
<1>10. EmptySeen'
  <2>1. ASSUME NEW c \in Consumers, ringPc'[c] = "empty", NEW id \in before'[c]
        PROVE  id \in gone' \/ InHand(id)'
    <3>1. id \in gone \/ InHand(id)
      <4>1. CASE ringPc[c] = "empty"
        BY <4>1, <2>1, <1>1, <1>2 DEF LocalInv, EmptySeen, PopperArrives
      <4>2. CASE ringPc[c] = "size" /\ pos[c] = head
        <5>1. \A n \in Nat : ~(head <= n /\ n < head)
          BY <1>3, SMT
        <5> QED BY <4>2, <5>1, <2>1, <1>1, <1>2
                DEF LocalInv, SizeSeen, PopperArrives, InPlace
      <4> QED BY <4>1, <4>2, <2>1, <1>2 DEF PopperArrives
    <3> QED BY <3>1, <1>1 DEF StillFound
  <2> QED BY <2>1 DEF EmptySeen
<1> QED BY <1>6, <1>7, <1>8, <1>9, <1>10 DEF LocalInv

-----------------------------------------------------------------------------
(* The theorems about the ring itself.                                     *)

LEMMA NextPlacesInv == ASSUME TaskIdQueueConstants, PlacesInv, [RingNext]_ringVars PROVE PlacesInv'
BY TypeStep, RingStep, ContentStep, LocalStep DEF PlacesInv

LEMMA RingInvariance == ASSUME TaskIdQueueConstants PROVE RingSpec => []PlacesInv
<1>1. RingInit => PlacesInv
  BY InitPlacesInv
<1>2. PlacesInv /\ [RingNext]_ringVars => PlacesInv'
  BY NextPlacesInv
<1> QED BY <1>1, <1>2, PTL DEF RingSpec

\* empty() answers true only if every id whose push was complete when it was
\* called has been taken since (GpuTaskIdQueue::empty, size_approx).
THEOREM EmptyQueueHonest == ASSUME TaskIdQueueConstants PROVE RingSpec => []EmptyIsHonest
<1>1. PlacesInv => EmptyIsHonest
  <2>1. SUFFICES ASSUME PlacesInv, NEW c \in Consumers, ringPc[c] = "empty", NEW id \in before[c]
                 PROVE  id \in gone \cup {value[Cell(d)] : d \in {e \in Consumers : HoldsCell(e)}}
    BY DEF EmptyIsHonest
  <2>2. id \in gone \/ InHand(id)
    BY <2>1 DEF PlacesInv, LocalInv, EmptySeen
  <2> QED BY <2>2, CellIsSlot DEF InHand
<1> QED BY <1>1, RingInvariance, PTL

\* try_push refuses only when the ring is full or a popper stalls, try_pop only
\* when it is empty or the pusher of the oldest id stalls.
THEOREM RefusalsAreJustified ==
  ASSUME TaskIdQueueConstants PROVE RingSpec => RefusalsJustified
<1> DEFINE Justified ==
      /\ \A p \in Producers : ringPc[p] = "inspect" /\ ringPc'[p] = "idle" =>
           tail - head = Cap \/ \E c \in Consumers : HoldsCell(c)
      /\ \A c \in Consumers : ringPc[c] = "inspect" /\ ringPc'[c] = "idle" =>
           tail = head \/ \E p \in Producers : Claimed(p) /\ pos[p] = head
<1>1. ASSUME PlacesInv, [RingNext]_ringVars PROVE Justified
  <2>0. /\ TypeInv /\ RingInv /\ LocalInv
        /\ head \in Nat /\ tail \in Nat /\ head <= tail /\ tail <= head + Cap
        /\ Cap \in Nat /\ Cap >= 2
        /\ \A t \in Threads : pos[t] \in Nat
    BY <1>1, CapFact DEF PlacesInv, TypeInv, RingInv, Cursors
  <2>1. ASSUME NEW p \in Producers, ringPc[p] = "inspect", ringPc'[p] = "idle"
        PROVE  tail - head = Cap \/ \E c \in Consumers : HoldsCell(c)
    <3>1. sequence[Slot(pos[p])] < pos[p]
      <4>1. InspectForPush(p)
        <5>1. ~Stays(p)
          BY <2>1 DEF Stays
        <5>2. \A q \in Producers \ {p} : ~(\/ BeginPush(q) \/ InspectForPush(q) \/ CasTail(q)
                                          \/ WriteValue(q) \/ Publish(q))
          BY <5>1, <2>0, PusherSteps, TwoKinds
        <5>3. \A c \in Consumers : ~(\/ BeginPop(c) \/ InspectForPop(c) \/ CasHead(c)
                                     \/ ReadValue(c) \/ Release(c) \/ BeginEmpty(c)
                                     \/ FinishEmpty(c) \/ UseEmpty(c))
          BY <5>1, <2>0, PopperSteps, TwoKinds
        <5>4. ~BeginPush(p) /\ ~CasTail(p) /\ ~WriteValue(p) /\ ~Publish(p)
          BY <2>1 DEF BeginPush, CasTail, WriteValue, Publish
        <5>5. ~UNCHANGED ringVars
          BY <2>1 DEF ringVars
        <5> QED BY <5>2, <5>3, <5>4, <5>5, <1>1 DEF RingNext
      <4>2. ringPc' # [ringPc EXCEPT ![p] = "cas"] /\ ringPc' # ringPc
        BY <2>1, <2>0, TwoKinds DEF TypeInv
      <4> QED BY <4>1, <4>2, CellIsSlot DEF InspectForPush, Goto
    <3>2. pos[p] \in Nat /\ pos[p] <= tail /\ sequence[Slot(pos[p])] \in Nat
      <4>1. pos[p] \in Nat
        BY <2>0, TwoKinds
      <4> QED BY <4>1, <2>0, <2>1, SlotType DEF TypeInv, LocalInv, Loaded
    <3>3. pos[p] >= head
      <4>1. pos[p] < head => sequence[Slot(pos[p])] > pos[p]
        BY <2>0, <3>2 DEF RingInv, Past
      <4> QED BY <4>1, <3>1, <3>2, <2>0, SMT
    <3>4. pos[p] = tail
      <4>1. SUFFICES ASSUME pos[p] < tail PROVE FALSE
        BY <3>2, <2>0, SMT
      <4>2. head <= pos[p]
        BY <3>2, <3>3, <2>0, SMT
      <4>3. sequence[Slot(pos[p])] = pos[p] + 1 \/ sequence[Slot(pos[p])] = pos[p]
        BY <4>1, <4>2, <3>2, <2>0 DEF RingInv, Taken, Claims
      <4> QED BY <4>3, <3>1, <3>2, SMT
    <3>5. tail < head + Cap => \E c \in Consumers : HoldsCell(c)
      <4>1. tail <= tail /\ sequence[Slot(tail)] # tail
        BY <3>1, <3>2, <3>4, <2>0, SMT
      <4> QED BY <4>1, <2>0 DEF RingInv, Free
    <3> QED BY <3>5, <2>0, SMT
  <2>2. ASSUME NEW c \in Consumers, ringPc[c] = "inspect", ringPc'[c] = "idle"
        PROVE  tail = head \/ \E p \in Producers : Claimed(p) /\ pos[p] = head
    <3>1. sequence[Slot(pos[c])] < pos[c] + 1
      <4>1. InspectForPop(c)
        <5>1. ~Stays(c)
          BY <2>2 DEF Stays
        <5>2. \A q \in Producers : ~(\/ BeginPush(q) \/ InspectForPush(q) \/ CasTail(q)
                                     \/ WriteValue(q) \/ Publish(q))
          BY <5>1, <2>0, PusherSteps, TwoKinds
        <5>3. \A d \in Consumers \ {c} : ~(\/ BeginPop(d) \/ InspectForPop(d) \/ CasHead(d)
                                          \/ ReadValue(d) \/ Release(d) \/ BeginEmpty(d)
                                          \/ FinishEmpty(d) \/ UseEmpty(d))
          BY <5>1, <2>0, PopperSteps, TwoKinds
        <5>4. /\ ~BeginPop(c) /\ ~CasHead(c) /\ ~ReadValue(c) /\ ~Release(c)
              /\ ~BeginEmpty(c) /\ ~FinishEmpty(c) /\ ~UseEmpty(c)
          BY <2>2 DEF BeginPop, CasHead, ReadValue, Release, BeginEmpty, FinishEmpty, UseEmpty
        <5>5. ~UNCHANGED ringVars
          BY <2>2 DEF ringVars
        <5> QED BY <5>2, <5>3, <5>4, <5>5, <1>1 DEF RingNext
      <4>2. ringPc' # [ringPc EXCEPT ![c] = "cas"] /\ ringPc' # ringPc
        BY <2>2, <2>0, TwoKinds DEF TypeInv
      <4> QED BY <4>1, <4>2, CellIsSlot DEF InspectForPop, Goto
    <3>2. pos[c] \in Nat /\ pos[c] <= head /\ sequence[Slot(pos[c])] \in Nat
      <4>1. pos[c] \in Nat
        BY <2>0, TwoKinds
      <4> QED BY <4>1, <2>0, <2>2, SlotType DEF TypeInv, LocalInv, Loaded
    <3>3. pos[c] = head
      <4>1. pos[c] < head => sequence[Slot(pos[c])] > pos[c]
        BY <2>0, <3>2 DEF RingInv, Past
      <4> QED BY <4>1, <3>1, <3>2, <2>0, SMT
    <3>4. head < tail => \E p \in Producers : Claimed(p) /\ pos[p] = head
      <4>1. head <= head /\ sequence[Slot(head)] # head + 1
        BY <3>1, <3>2, <3>3, <2>0, SMT
      <4> QED BY <4>1, <2>0 DEF RingInv, Taken
    <3> QED BY <3>4, <2>0, SMT
  <2> QED BY <2>1, <2>2
<1>2. PlacesInv /\ [RingNext]_ringVars => [Justified]_ringVars
  BY <1>1
<1> QED BY <1>2, RingInvariance, PTL DEF RingSpec, RefusalsJustified

-----------------------------------------------------------------------------
(* The ring implements the queue.                                          *)

\* What the refinement mapping shows of a state.
PlaceIds ==
  /\ \A p \in Producers, n \in Nat : ringPc[p] = "write" /\ pos[p] = n => IdAt(n) = Arg(p)
  /\ \A n \in Nat : (\A p \in Producers : ringPc[p] = "write" => pos[p] # n) =>
       IdAt(n) = value[Slot(n)]
PlaceSequence == Places \in Seq(Ids) /\ Len(Places) = tail - head
PlaceOrder == \A i, n \in Nat : 1 <= i /\ i <= tail - head /\ n = head + i - 1 =>
                Places[i] = IdAt(n)
Hands ==
  /\ \A c \in Consumers : InHands[c] = IF HoldsCell(c) THEN value[Slot(pos[c])] ELSE None
  /\ \A c \in Consumers : InHands[c] # None <=> HoldsCell(c)
Mapping == PlaceIds /\ PlaceSequence /\ PlaceOrder /\ Hands

LEMMA MappingHolds == ASSUME TaskIdQueueConstants, PlacesInv PROVE Mapping
<1>1. TypeInv /\ RingInv /\ ContentInv
  BY DEF PlacesInv
<1>2. /\ head \in Nat /\ tail \in Nat /\ Cap \in Nat /\ head <= tail
      /\ \A t \in Threads : pos[t] \in Nat
  BY <1>1, CapFact DEF TypeInv, RingInv, Cursors
<1>3. ASSUME NEW p \in Producers, ringPc[p] = "write" PROVE IdAt(pos[p]) = Arg(p)
  <2>1. \A q \in Producers : ringPc[q] = "write" /\ pos[q] = pos[p] => q = p
    BY <1>1, <1>3 DEF RingInv, Claims, Claimed
  <2>2. (CHOOSE q \in Producers : ringPc[q] = "write" /\ pos[q] = pos[p]) = p
    BY <2>1, <1>3
  <2> QED BY <2>2, <1>3, Zenon DEF IdAt
<1>4. ASSUME NEW n \in Nat, \A p \in Producers : ringPc[p] = "write" => pos[p] # n
      PROVE  IdAt(n) = value[Slot(n)]
  BY <1>4, Zenon DEF IdAt, Slot
<1>5. ASSUME NEW n \in Nat, head <= n, n < tail PROVE IdAt(n) \in Ids
  <2>1. CASE \E p \in Producers : ringPc[p] = "write" /\ pos[p] = n
    <3>1. PICK p \in Producers : ringPc[p] = "write" /\ pos[p] = n
      BY <2>1
    <3>2. pushed[p] < MaxPushes
      BY <3>1, <1>1 DEF TypeInv
    <3> QED BY <3>1, <3>2, <1>1, <1>3, ArgIsNew
  <2>2. CASE \A p \in Producers : ringPc[p] = "write" => pos[p] # n
    <3>1. CASE sequence[Slot(n)] = n + 1
      <4>1. value[Slot(n)] \in Ids
        BY <3>1, <1>1, <1>5 DEF ContentInv, Genuine, Published
      <4> QED BY <4>1, <2>2, <1>4
    <3>2. CASE \E p \in Producers : Claimed(p) /\ pos[p] = n
      <4>1. PICK p \in Producers : ringPc[p] = "publish" /\ pos[p] = n
        BY <3>2, <2>2 DEF Claimed
      <4>2. pushed[p] < MaxPushes /\ value[Slot(n)] = Arg(p)
        BY <4>1, <1>1 DEF TypeInv, ContentInv, Written
      <4> QED BY <4>2, <2>2, <1>1, <1>4, ArgIsNew
    <3> QED BY <3>1, <3>2, <1>1, <1>5 DEF RingInv, Taken
  <2> QED BY <2>1, <2>2
<1>6. Places \in Seq(Ids) /\ Len(Places) = tail - head
  <2>1. tail - head \in Nat
    BY <1>2, SMT
  <2>2. \A i \in 1 .. (tail - head) : IdAt(head + i - 1) \in Ids
    <3>1. ASSUME NEW i \in 1 .. (tail - head) PROVE IdAt(head + i - 1) \in Ids
      <4>1. head + i - 1 \in Nat /\ head <= head + i - 1 /\ head + i - 1 < tail
        BY <1>2, SMT
      <4> QED BY <4>1, <1>5
    <3> QED BY <3>1
  <2>3. Places \in [1 .. (tail - head) -> Ids]
    BY <2>2, Zenon DEF Places
  <2> HIDE DEF Ids
  <2> QED BY <2>1, <2>3, SMT
<1>7. PlaceOrder
  <2>1. ASSUME NEW i \in Nat, 1 <= i, i <= tail - head PROVE Places[i] = IdAt(head + i - 1)
    <3>1. i \in 1 .. (tail - head)
      BY <2>1, <1>2, SMT
    <3> QED BY <3>1, Zenon DEF Places
  <2> QED BY <2>1, Zenon DEF PlaceOrder
<1>8. \A c \in Consumers : InHands[c] = IF HoldsCell(c) THEN value[Slot(pos[c])] ELSE None
  BY <1>1, CellIsSlot DEF InHands, HoldsCell, ContentInv, GotRead
<1>9. \A c \in Consumers : InHands[c] # None <=> HoldsCell(c)
  <2>1. \A c \in Consumers : HoldsCell(c) => value[Slot(pos[c])] \in Ids
    BY <1>1 DEF ContentInv, Genuine, Published
  <2> HIDE DEF Ids
  <2> QED BY <2>1, <1>8, TwoKinds
<1> QED BY <1>3, <1>4, <1>6, <1>7, <1>8, <1>9 DEF Mapping, PlaceIds, PlaceSequence, Hands

\* The queue looks the same when the places in use keep their ids.
LEMMA SamePlaces ==
  ASSUME TaskIdQueueConstants, PlacesInv, UNCHANGED <<head, tail>>,
         \A n \in Nat : head <= n /\ n < tail => IdAt(n)' = IdAt(n)
  PROVE  Places' = Places
<1>1. ASSUME NEW i \in 1 .. (tail - head) PROVE IdAt(head + i - 1)' = IdAt(head + i - 1)
  <2>1. head \in Nat /\ tail \in Nat
    BY DEF PlacesInv, TypeInv
  <2>2. head + i - 1 \in Nat /\ head <= head + i - 1 /\ head + i - 1 < tail
    BY <2>1, SMT
  <2>3. ASSUME NEW n \in Nat, n = head + i - 1 PROVE IdAt(n)' = IdAt(head + i - 1)'
    BY <2>3 DEF IdAt
  <2> QED BY <2>2, <2>3
<1>2. Places' = [i \in 1 .. (tail - head) |-> IdAt(head + i - 1)']
  BY DEF Places
<1> QED BY <1>1, <1>2 DEF Places

\* The ids of the places depend on the values and on who is about to write.
LEMMA SameIds ==
  ASSUME UNCHANGED value, \A p : Arg(p)' = Arg(p),
         \A p \in Producers : /\ (ringPc'[p] = "write" <=> ringPc[p] = "write")
                             /\ (ringPc[p] = "write" => pos'[p] = pos[p])
  PROVE  \A n \in Nat : IdAt(n)' = IdAt(n)
<1>1. ASSUME NEW n \in Nat, NEW p \in Producers
      PROVE  ringPc'[p] = "write" /\ pos'[p] = n <=> ringPc[p] = "write" /\ pos[p] = n
  OBVIOUS
<1>2. ASSUME NEW n \in Nat
      PROVE  (CHOOSE p \in Producers : ringPc'[p] = "write" /\ pos'[p] = n)
             = (CHOOSE p \in Producers : ringPc[p] = "write" /\ pos[p] = n)
  BY <1>1
<1> QED BY <1>1, <1>2 DEF IdAt

LEMMA QuietRefines ==
  ASSUME TaskIdQueueConstants, PlacesInv, Quiet
  PROVE  UNCHANGED <<Places, Unpublished, InHands>>
<1>1. \A p \in Producers : /\ (ringPc'[p] = "write" <=> ringPc[p] = "write")
                           /\ (ringPc[p] = "write" => pos'[p] = pos[p])
  BY DEF Quiet, Claimed
<1>2. \A p : Arg(p)' = Arg(p)
  BY DEF Quiet, Arg
<1>3. \A n \in Nat : IdAt(n)' = IdAt(n)
  BY <1>1, <1>2, SameIds DEF Quiet
<1>4. Places' = Places
  BY <1>3, SamePlaces DEF Quiet
<1>5. Unpublished' = Unpublished
  BY <1>2, QuietOwners DEF Unpublished
<1>6. InHands' = InHands
  BY CellIsSlot DEF Quiet, HoldsCell, InHands, Cell
<1> QED BY <1>4, <1>5, <1>6

\* The compare-exchange on the tail is where an id enters the queue.
LEMMA ClaimRefines ==
  ASSUME TaskIdQueueConstants, PlacesInv, PlacesInv', Mapping, Mapping',
         NEW p \in Producers, CasTail(p), tail' # tail
  PROVE  \E id \in Ids : Abstract!ClaimPlace(id)
<1>1. TypeInv /\ RingInv /\ TypeInv' /\ RingInv'
  BY DEF PlacesInv
<1>2. /\ ringPc[p] = "cas" /\ pos[p] = tail /\ tail' = tail + 1 /\ ringPc'[p] = "write"
      /\ \A t \in Threads \ {p} : ringPc'[t] = ringPc[t]
      /\ UNCHANGED <<head, sequence, value, pos, pushed, got, gone>>
      /\ \A c \in Consumers : HoldsCell(c)' <=> HoldsCell(c)
      /\ \A q \in Producers : Claimed(q)' <=> Claimed(q) \/ q = p
  BY <1>1, TwoKinds DEF CasTail, Goto, cells, TypeInv, Claimed, HoldsCell
<1>3. /\ head \in Nat /\ tail \in Nat /\ Cap \in Nat /\ head <= tail /\ tail < head + Cap
      /\ \A t \in Threads : pos[t] \in Nat
  BY <1>1, ClaimRing, CapFact DEF TypeInv, RingInv, Cursors
<1>4. \A q : Arg(q)' = Arg(q)
  BY <1>2 DEF Arg
<1>5. Arg(p) \in Ids
  BY <1>1, <1>2, ArgIsNew DEF TypeInv
<1>m. /\ PlaceIds /\ PlaceIds' /\ PlaceOrder /\ PlaceOrder' /\ Hands
      /\ Places \in Seq(Ids) /\ Len(Places) = tail - head
      /\ Places' \in Seq(Ids) /\ Len(Places') = tail' - head'
  BY DEF Mapping, PlaceSequence
<1>6. ASSUME NEW n \in Nat, n < tail PROVE IdAt(n)' = IdAt(n)
  <2>1. CASE \E q \in Producers : ringPc[q] = "write" /\ pos[q] = n
    <3>1. PICK q \in Producers : ringPc[q] = "write" /\ pos[q] = n
      BY <2>1
    <3>2. ringPc'[q] = "write" /\ pos'[q] = n
      BY <3>1, <1>2, TwoKinds
    <3> QED BY <3>1, <3>2, <1>4, <1>m DEF PlaceIds
  <2>2. CASE \A q \in Producers : ringPc[q] = "write" => pos[q] # n
    <3>1. n # tail
      BY <1>3, <1>6, SMT
    <3>2. \A q \in Producers : ringPc'[q] = "write" => pos'[q] # n
      BY <2>2, <3>1, <1>2, TwoKinds
    <3> QED BY <2>2, <3>2, <1>2, <1>m DEF PlaceIds
  <2> QED BY <2>1, <2>2
<1>7. Places' = Append(Places, Arg(p))
  <2> DEFINE A == Append(Places, Arg(p))
  <2>1. /\ Places \in Seq(Ids) /\ Len(Places) = tail - head
        /\ Places' \in Seq(Ids) /\ Len(Places') = tail + 1 - head
    <3>1. tail' - head' = tail + 1 - head
      <4>1. tail' = tail + 1 /\ head' = head
        BY <1>2
      <4> QED BY <4>1, <1>3, SMT
    <3>2. Len(Places') = tail' - head'
      BY <1>m
    <3>3. Places \in Seq(Ids) /\ Places' \in Seq(Ids) /\ Len(Places) = tail - head
      BY <1>m
    <3> QED BY <3>1, <3>2, <3>3
  <2>2. /\ A \in Seq(Ids) /\ Len(A) = tail - head + 1
        /\ \A i \in 1 .. (tail - head) : A[i] = Places[i]
        /\ A[tail - head + 1] = Arg(p)
    BY <2>1, <1>5, AppendProperties
  <2>3. ASSUME NEW i \in 1 .. (tail + 1 - head) PROVE Places'[i] = A[i]
    <3>1. PICK n \in Nat : n = head + i - 1
      BY <1>3, SMT
    <3>2. Places'[i] = IdAt(n)'
      <4>1. i \in Nat /\ 1 <= i /\ i <= tail' - head' /\ n = head' + i - 1
        BY <3>1, <1>2, <1>3, SMT
      <4> QED BY <4>1, <1>m DEF PlaceOrder
    <3>3. CASE i = tail - head + 1
      <4>1. n = tail
        BY <3>1, <3>3, <1>3, SMT
      <4>2. ringPc'[p] = "write" /\ pos'[p] = n
        BY <4>1, <1>2
      <4>3. IdAt(n)' = Arg(p)
        BY <4>2, <1>4, <1>m DEF PlaceIds
      <4> QED BY <4>3, <3>2, <3>3, <2>2
    <3>4. CASE i \in 1 .. (tail - head)
      <4>1. n < tail
        BY <3>1, <3>4, <1>3, SMT
      <4>2. Places[i] = IdAt(n)
        <5>1. i \in Nat /\ 1 <= i /\ i <= tail - head
          BY <3>4, <1>3, SMT
        <5> QED BY <5>1, <3>1, <1>m DEF PlaceOrder
      <4> QED BY <4>1, <4>2, <3>2, <3>4, <2>2, <1>6
    <3>5. i = tail - head + 1 \/ i \in 1 .. (tail - head)
      BY <1>3, SMT
    <3> QED BY <3>3, <3>4, <3>5
  <2>4. tail + 1 - head = tail - head + 1
    BY <1>3, SMT
  <2> HIDE DEF A
  <2>5. Places' = A
    BY <2>1, <2>2, <2>3, <2>4, SeqEqual
  <2> QED BY <2>5 DEF A
<1>8. Unpublished' = Unpublished \cup {Arg(p)}
  BY <1>2, <1>4 DEF Unpublished
<1>9. InHands' = InHands
  <2>1. \A c \in Consumers : ringPc'[c] = ringPc[c]
    BY <1>2, TwoKinds
  <2> QED BY <2>1, <1>2 DEF InHands, Cell
<1>10. Len(Places) + Abstract!Cardinality(Abstract!Held) < Cap
  <2> DEFINE H == {c \in Consumers : HoldsCell(c)}
             R == (tail + 1) .. (head + Cap - 1)
             f == [c \in H |-> pos[c] + Cap]
  <2>1. Abstract!Held = H
    BY <1>m DEF Abstract!Held, Hands
  <2>2. ASSUME NEW c \in H PROVE pos[c] + Cap \in R
    <3>1. pos[c] \in Nat /\ pos[c] < head
      BY <1>1, <1>3, TwoKinds DEF RingInv, Holds
    <3>2. tail + 1 <= pos[c] + Cap
      BY <1>1, <1>2 DEF RingInv, Holds
    <3> QED BY <3>1, <3>2, <1>3, SMT
  <2>3. ASSUME NEW c \in H, NEW d \in H, f[c] = f[d] PROVE c = d
    <3>1. pos[c] \in Nat /\ pos[d] \in Nat /\ pos[c] + Cap = pos[d] + Cap
      BY <2>3, <1>3, TwoKinds
    <3>2. pos[c] = pos[d]
      BY <3>1, <1>3, SMT
    <3> QED BY <3>2, <1>1 DEF RingInv, Holds
  <2>4. f \in Injection(H, R)
    <3>1. f \in [H -> R]
      BY <2>2
    <3> HIDE DEF R
    <3> QED BY <3>1, <2>3 DEF Injection, IsInjective
  <2>5. IsFiniteSet(R) /\ Cardinality(R) = head + Cap - 1 - tail
    <3>1. /\ IsFiniteSet(R)
          /\ Cardinality(R) = IF tail + 1 > head + Cap - 1 THEN 0
                              ELSE (head + Cap - 1) - (tail + 1) + 1
      <4>1. tail + 1 \in Int /\ head + Cap - 1 \in Int
        BY <1>3, SMT
      <4> QED BY <4>1, FS_Interval
    <3> HIDE DEF R
    <3> QED BY <3>1, <1>3, SMT
  <2> HIDE DEF H, R, f
  <2>6. IsFiniteSet(H) /\ Cardinality(H) <= Cardinality(R)
    BY <2>4, <2>5, FS_Injection
  <2>7. Cardinality(H) \in Nat
    BY <2>6, FS_CardinalityType
  <2>8. Len(Places) + Cardinality(H) < Cap
    BY <2>5, <2>6, <2>7, <1>m, <1>3, SMT
  <2>9. Abstract!Cardinality(H) = Cardinality(H)
    BY DEF Abstract!Cardinality, Cardinality
  <2> QED BY <2>1, <2>8, <2>9
<1> QED BY <1>5, <1>7, <1>8, <1>9, <1>10 DEF Abstract!ClaimPlace

\* Writing the value is invisible: the queue already shows the id.
LEMMA WriteRefines ==
  ASSUME TaskIdQueueConstants, PlacesInv, PlacesInv', Mapping, Mapping',
         NEW p \in Producers, WriteValue(p)
  PROVE  UNCHANGED <<Places, Unpublished, InHands>>
<1>1. TypeInv /\ RingInv /\ PlaceIds /\ PlaceIds' /\ Hands /\ Hands'
  BY DEF PlacesInv, Mapping
<1>2. /\ ringPc[p] = "write" /\ ringPc'[p] = "publish" /\ Claimed(p)
      /\ \A t \in Threads \ {p} : ringPc'[t] = ringPc[t]
      /\ UNCHANGED <<head, tail, sequence, pos, pushed, got, gone>>
      /\ value' = [value EXCEPT ![Slot(pos[p])] = Arg(p)]
      /\ \A c \in Consumers : HoldsCell(c)' <=> HoldsCell(c)
      /\ \A q \in Producers : Claimed(q)' <=> Claimed(q)
  BY <1>1, TwoKinds, CellIsSlot DEF WriteValue, Goto, TypeInv, Claimed, HoldsCell
<1>3. \A q : Arg(q)' = Arg(q)
  BY <1>2 DEF Arg
<1>4. /\ head \in Nat /\ tail \in Nat /\ Cap \in Nat /\ tail <= head + Cap
      /\ \A t \in Threads : pos[t] \in Nat
  BY <1>1, CapFact DEF TypeInv, RingInv, Cursors
<1>5. /\ value'[Slot(pos[p])] = Arg(p)
      /\ \A n \in Nat : Slot(n) # Slot(pos[p]) => value'[Slot(n)] = value[Slot(n)]
  <2>1. Slot(pos[p]) \in DOMAIN value /\ \A n \in Nat : Slot(n) \in DOMAIN value
    BY <1>1, <1>4, SlotType, TwoKinds DEF TypeInv
  <2> QED BY <2>1, <1>2
<1>6. ASSUME NEW n \in Nat, head <= n, n < tail PROVE IdAt(n)' = IdAt(n)
  <2>1. CASE n = pos[p]
    <3>1. \A q \in Producers : ringPc'[q] = "write" => pos'[q] # n
      BY <2>1, <1>1, <1>2, TwoKinds DEF RingInv, Claims, Claimed
    <3>2. IdAt(n)' = value'[Slot(n)]
      BY <3>1, <1>1 DEF PlaceIds
    <3>3. IdAt(n) = Arg(p)
      BY <2>1, <1>1, <1>2 DEF PlaceIds
    <3> QED BY <3>2, <3>3, <2>1, <1>5
  <2>2. CASE n # pos[p] /\ \E q \in Producers : ringPc[q] = "write" /\ pos[q] = n
    <3>1. PICK q \in Producers : ringPc[q] = "write" /\ pos[q] = n
      BY <2>2
    <3>2. q # p
      BY <3>1, <2>2
    <3>3. ringPc'[q] = "write" /\ pos'[q] = n
      BY <3>1, <3>2, <1>2, TwoKinds
    <3> QED BY <3>1, <3>3, <1>1, <1>3 DEF PlaceIds
  <2>3. CASE n # pos[p] /\ \A q \in Producers : ringPc[q] = "write" => pos[q] # n
    <3>1. \A q \in Producers : ringPc'[q] = "write" => pos'[q] # n
      BY <2>3, <1>2, TwoKinds
    <3>2. IdAt(n)' = value'[Slot(n)] /\ IdAt(n) = value[Slot(n)]
      BY <3>1, <2>3, <1>1 DEF PlaceIds
    <3>3. Slot(n) # Slot(pos[p])
      <4>1. n < head + Cap
        BY <1>4, <1>6, SMT
      <4> QED BY <4>1, <2>3, <1>1, <1>2, <1>6, OwnCells
    <3> QED BY <3>2, <3>3, <1>5
  <2> QED BY <2>1, <2>2, <2>3
<1>7. Places' = Places
  BY <1>2, <1>6, SamePlaces
<1>8. Unpublished' = Unpublished
  BY <1>2, <1>3 DEF Unpublished
<1>9. InHands' = InHands
  <2>1. ASSUME NEW c \in Consumers PROVE InHands'[c] = InHands[c]
    <3>1. HoldsCell(c) => value'[Slot(pos[c])] = value[Slot(pos[c])]
      BY <1>1, <1>2, <1>4, <1>5, OwnCells, TwoKinds
    <3> QED BY <3>1, <1>1, <1>2 DEF Hands
  <2> QED BY <2>1, Zenon DEF InHands
<1> QED BY <1>7, <1>8, <1>9

\* Storing the sequence is where an id becomes visible to poppers.
LEMMA PublishRefines ==
  ASSUME TaskIdQueueConstants, PlacesInv, PlacesInv', Mapping, Mapping',
         NEW p \in Producers, Publish(p)
  PROVE  \E id \in Ids : Abstract!PublishId(id)
<1>1. TypeInv /\ PlaceIds /\ PlaceIds'
  BY DEF PlacesInv, Mapping
<1>2. /\ ringPc[p] = "publish" /\ ringPc'[p] = "idle" /\ Claimed(p)
      /\ \A t \in Threads \ {p} : ringPc'[t] = ringPc[t]
      /\ UNCHANGED <<head, tail, value, pos, got, gone>>
      /\ pushed' = [pushed EXCEPT ![p] = @ + 1]
      /\ \A q \in Producers : Claimed(q)' <=> Claimed(q) /\ q # p
  BY <1>1, TwoKinds DEF Publish, Goto, TypeInv, Claimed
<1>3. Arg(p) \in Ids
  BY <1>1, <1>2, ArgIsNew DEF TypeInv
<1>4. \A q \in Producers : q # p => Arg(q)' = Arg(q) /\ Arg(q) # Arg(p)
  BY <1>1, <1>2 DEF Arg, TypeInv
<1>5. ASSUME NEW n \in Nat PROVE IdAt(n)' = IdAt(n)
  <2>1. CASE \E q \in Producers : ringPc[q] = "write" /\ pos[q] = n
    <3>1. PICK q \in Producers : ringPc[q] = "write" /\ pos[q] = n
      BY <2>1
    <3>2. q # p
      BY <3>1, <1>2
    <3>3. ringPc'[q] = "write" /\ pos'[q] = n
      BY <3>1, <3>2, <1>2, TwoKinds
    <3> QED BY <3>1, <3>2, <3>3, <1>1, <1>4 DEF PlaceIds
  <2>2. CASE \A q \in Producers : ringPc[q] = "write" => pos[q] # n
    <3>1. \A q \in Producers : ringPc'[q] = "write" => pos'[q] # n
      BY <2>2, <1>2, TwoKinds
    <3> QED BY <2>2, <3>1, <1>1, <1>2 DEF PlaceIds
  <2> QED BY <2>1, <2>2
<1>6. Places' = Places
  BY <1>2, <1>5, SamePlaces
<1>7. Arg(p) \in Unpublished /\ Unpublished' = Unpublished \ {Arg(p)}
  BY <1>2, <1>4 DEF Unpublished
<1>8. InHands' = InHands
  <2>1. \A c \in Consumers : ringPc'[c] = ringPc[c]
    BY <1>2, TwoKinds
  <2> QED BY <2>1, <1>2 DEF InHands, Cell
<1> QED BY <1>3, <1>6, <1>7, <1>8 DEF Abstract!PublishId

\* The compare-exchange on the head is where an id leaves the queue.
LEMMA TakeRefines ==
  ASSUME TaskIdQueueConstants, PlacesInv, PlacesInv', Mapping, Mapping',
         NEW c \in Consumers, CasHead(c), head' # head
  PROVE  Abstract!Take(c)
<1>1. /\ TypeInv /\ RingInv /\ ContentInv
      /\ PlaceIds /\ PlaceOrder /\ PlaceOrder' /\ Hands /\ Hands'
      /\ Places \in Seq(Ids) /\ Len(Places) = tail - head
      /\ Places' \in Seq(Ids) /\ Len(Places') = tail' - head'
  BY DEF PlacesInv, Mapping, PlaceSequence
<1>2. /\ ringPc[c] = "cas" /\ pos[c] = head /\ head' = head + 1 /\ ringPc'[c] = "read"
      /\ \A t \in Threads \ {c} : ringPc'[t] = ringPc[t]
      /\ UNCHANGED <<tail, sequence, value, pos, pushed, got, gone>>
      /\ \A d \in Consumers : HoldsCell(d)' <=> HoldsCell(d) \/ d = c
      /\ \A p \in Producers : Claimed(p)' <=> Claimed(p)
      /\ ~HoldsCell(c)
  BY <1>1, TwoKinds DEF CasHead, Goto, cells, TypeInv, HoldsCell, Claimed
<1>3. /\ head \in Nat /\ tail \in Nat /\ head < tail /\ sequence[Slot(head)] = head + 1
      /\ \A t \in Threads : pos[t] \in Nat
  BY <1>1, TakeRing DEF TypeInv
<1>4. \A p : Arg(p)' = Arg(p)
  BY <1>2 DEF Arg
<1>5. \A n \in Nat : IdAt(n)' = IdAt(n)
  BY <1>2, <1>4, SameIds, TwoKinds
<1>6. IdAt(head) = value[Slot(head)] /\ value[Slot(head)] \in Published
  <2>1. ASSUME NEW p \in Producers, ringPc[p] = "write", pos[p] = head PROVE FALSE
    <3>1. sequence[Slot(head)] = head
      BY <2>1, <1>1 DEF RingInv, Claims, Claimed
    <3> QED BY <3>1, <1>3, SMT
  <2>2. head <= head
    BY <1>3, SMT
  <2> QED BY <2>1, <2>2, <1>1, <1>3 DEF PlaceIds, ContentInv, Genuine
<1>7. Places # << >> /\ Head(Places) = IdAt(head)
  <2>1. 1 <= tail - head /\ head = head + 1 - 1
    BY <1>3, SMT
  <2>2. Places[1] = IdAt(head)
    BY <2>1, <1>1, <1>3, SMT DEF PlaceOrder
  <2>3. Len(Places) # 0
    BY <2>1, <1>1, <1>3, SMT
  <2> HIDE DEF Ids
  <2> QED BY <2>2, <2>3, <1>1
<1>8. Head(Places) \notin Unpublished
  <2>1. ASSUME NEW p \in Producers, Claimed(p) PROVE Arg(p) \notin Published
    <3>1. pushed[p] < MaxPushes
      BY <2>1, <1>1 DEF TypeInv, Claimed
    <3> QED BY <3>1, <1>1, ArgIsNew
  <2> QED BY <2>1, <1>6, <1>7 DEF Unpublished
<1>9. Places' = Tail(Places)
  <2> DEFINE T == Tail(Places)
  <2>1. /\ T \in Seq(Ids) /\ Len(T) = Len(Places) - 1
        /\ \A i \in 1 .. Len(T) : T[i] = Places[i + 1]
    BY <1>1, <1>7, HeadTailProperties
  <2>2. Len(Places') = Len(T)
    BY <2>1, <1>1, <1>2, <1>3, SMT
  <2>3. ASSUME NEW i \in 1 .. Len(T) PROVE Places'[i] = T[i]
    <3>1. /\ i \in Nat /\ 1 <= i /\ i <= tail' - head'
          /\ i + 1 \in Nat /\ 1 <= i + 1 /\ i + 1 <= tail - head
          /\ head + i \in Nat /\ head + i = head' + i - 1 /\ head + i = head + (i + 1) - 1
      BY <2>1, <1>1, <1>2, <1>3, SMT
    <3>2. ASSUME NEW n \in Nat, n = head + i PROVE Places'[i] = IdAt(n)' /\ Places[i + 1] = IdAt(n)
      BY <3>1, <3>2, <1>1 DEF PlaceOrder
    <3> QED BY <3>1, <3>2, <2>1, <1>5
  <2> HIDE DEF T
  <2>4. Places' = T
    BY <2>1, <2>2, <2>3, <1>1, SeqEqual
  <2> QED BY <2>4 DEF T
<1>10. Unpublished' = Unpublished
  BY <1>2, <1>4 DEF Unpublished
<1>11. InHands[c] = None /\ InHands' = [InHands EXCEPT ![c] = Head(Places)]
  <2>1. InHands[c] = None
    BY <1>1, <1>2 DEF Hands
  <2>2. ASSUME NEW d \in Consumers
        PROVE  InHands'[d] = IF d = c THEN Head(Places) ELSE InHands[d]
    BY <1>1, <1>2, <1>6, <1>7 DEF Hands
  <2>3. DOMAIN InHands = Consumers /\ DOMAIN InHands' = Consumers
    BY DEF InHands
  <2>4. /\ InHands = [d \in Consumers |-> InHands[d]]
        /\ InHands' = [d \in Consumers |-> InHands'[d]]
    BY DEF InHands
  <2> QED BY <2>1, <2>2, <2>3, <2>4
<1> QED BY <1>7, <1>8, <1>9, <1>10, <1>11 DEF Abstract!Take

LEMMA ReadRefines ==
  ASSUME TaskIdQueueConstants, PlacesInv, PlacesInv', Mapping, Mapping',
         NEW c \in Consumers, ReadValue(c)
  PROVE  UNCHANGED <<Places, Unpublished, InHands>>
<1>1. TypeInv /\ Hands /\ Hands'
  BY DEF PlacesInv, Mapping
<1>2. /\ ringPc[c] = "read" /\ ringPc'[c] = "release"
      /\ \A t \in Threads \ {c} : ringPc'[t] = ringPc[t]
      /\ UNCHANGED <<head, tail, sequence, value, pos, pushed, gone>>
      /\ \A d \in Consumers : HoldsCell(d)' <=> HoldsCell(d)
      /\ \A p \in Producers : Claimed(p)' <=> Claimed(p)
      /\ \A p \in Producers : ringPc'[p] = ringPc[p]
  BY <1>1, TwoKinds DEF ReadValue, Goto, cells, TypeInv, HoldsCell, Claimed
<1>3. \A p : Arg(p)' = Arg(p)
  BY <1>2 DEF Arg
<1>4. \A n \in Nat : IdAt(n)' = IdAt(n)
  BY <1>2, <1>3, SameIds
<1>5. Places' = Places
  BY <1>2, <1>4, SamePlaces
<1>6. Unpublished' = Unpublished
  BY <1>2, <1>3 DEF Unpublished
<1>7. InHands' = InHands
  <2>1. ASSUME NEW d \in Consumers PROVE InHands'[d] = InHands[d]
    BY <1>1, <1>2 DEF Hands
  <2>2. /\ InHands = [d \in Consumers |-> InHands[d]]
        /\ InHands' = [d \in Consumers |-> InHands'[d]]
    BY DEF InHands
  <2> QED BY <2>1, <2>2
<1> QED BY <1>5, <1>6, <1>7

LEMMA ReleaseRefines ==
  ASSUME TaskIdQueueConstants, PlacesInv, PlacesInv', Mapping, Mapping',
         NEW c \in Consumers, Release(c)
  PROVE  Abstract!ReleasePlace(c)
<1>1. TypeInv /\ Hands /\ Hands'
  BY DEF PlacesInv, Mapping
<1>2. /\ HoldsCell(c)
      /\ UNCHANGED <<head, tail, value, pos, pushed>>
      /\ \A d \in Consumers : HoldsCell(d)' <=> HoldsCell(d) /\ d # c
      /\ \A p \in Producers : Claimed(p)' <=> Claimed(p)
      /\ \A p \in Producers : ringPc'[p] = ringPc[p]
  BY <1>1, TwoKinds DEF Release, Goto, cells, TypeInv, HoldsCell, Claimed
<1>3. \A p : Arg(p)' = Arg(p)
  BY <1>2 DEF Arg
<1>4. \A n \in Nat : IdAt(n)' = IdAt(n)
  BY <1>2, <1>3, SameIds
<1>5. Places' = Places
  BY <1>2, <1>4, SamePlaces
<1>6. Unpublished' = Unpublished
  BY <1>2, <1>3 DEF Unpublished
<1>7. InHands[c] # None /\ InHands' = [InHands EXCEPT ![c] = None]
  <2>1. InHands[c] # None
    BY <1>1, <1>2 DEF Hands
  <2>2. ASSUME NEW d \in Consumers PROVE InHands'[d] = IF d = c THEN None ELSE InHands[d]
    BY <1>1, <1>2 DEF Hands
  <2>3. /\ InHands = [d \in Consumers |-> InHands[d]]
        /\ InHands' = [d \in Consumers |-> InHands'[d]]
    BY DEF InHands
  <2> QED BY <2>1, <2>2, <2>3
<1> QED BY <1>5, <1>6, <1>7 DEF Abstract!ReleasePlace

LEMMA StepRefines ==
  ASSUME TaskIdQueueConstants, PlacesInv, PlacesInv', Mapping, Mapping', [RingNext]_ringVars
  PROVE  Abstract!QNext \/ UNCHANGED <<Places, Unpublished, InHands>>
<1>0. TypeInv
  BY DEF PlacesInv
<1>1. Quiet => UNCHANGED <<Places, Unpublished, InHands>>
  BY QuietRefines
<1>2. ASSUME NEW p \in Producers, CasTail(p), tail' # tail PROVE Abstract!QNext
  BY <1>2, ClaimRefines DEF Abstract!QNext
<1>3. ASSUME NEW p \in Producers, WriteValue(p)
      PROVE  UNCHANGED <<Places, Unpublished, InHands>>
  BY <1>3, WriteRefines
<1>4. ASSUME NEW p \in Producers, Publish(p) PROVE Abstract!QNext
  BY <1>4, PublishRefines DEF Abstract!QNext
<1>5. ASSUME NEW c \in Consumers, CasHead(c), head' # head PROVE Abstract!QNext
  BY <1>5, TakeRefines DEF Abstract!QNext
<1>6. ASSUME NEW c \in Consumers, ReadValue(c)
      PROVE  UNCHANGED <<Places, Unpublished, InHands>>
  BY <1>6, ReadRefines
<1>7. ASSUME NEW c \in Consumers, Release(c) PROVE Abstract!QNext
  BY <1>7, ReleaseRefines DEF Abstract!QNext
<1> QED BY <1>0, <1>1, <1>2, <1>3, <1>4, <1>5, <1>6, <1>7, StepKinds

LEMMA InitRefines == ASSUME TaskIdQueueConstants, RingInit PROVE Abstract!QInit
<1>1. Places = << >>
  <2>1. 1 .. tail - head = {}
    BY SMT DEF RingInit
  <2> QED BY <2>1 DEF Places
<1>2. Unpublished = {}
  BY DEF RingInit, Unpublished, Claimed, Threads
<1>3. InHands = [c \in Consumers |-> None]
  BY DEF RingInit, InHands, Threads
<1> QED BY <1>1, <1>2, <1>3 DEF Abstract!QInit

\* The ring implements the first-in first-out queue of IdQueue: no id is lost,
\* delivered twice, overtaken or read from a cell that was reused, whatever the
\* capacity and the number of threads (GpuTaskIdQueue::try_push, try_pop).
THEOREM RingIsQueue == ASSUME TaskIdQueueConstants PROVE RingSpec => ImplementsIdQueue
<1>1. RingInit => Abstract!QInit
  BY InitRefines
<1>2. PlacesInv => Mapping
  BY MappingHolds
<1>3. PlacesInv /\ PlacesInv' /\ Mapping /\ Mapping' /\ [RingNext]_ringVars
        => [Abstract!QNext]_(Abstract!qvars)
  BY StepRefines DEF Abstract!qvars
<1>4. RingSpec => []Mapping
  BY <1>2, RingInvariance, PTL
<1> QED BY <1>1, <1>3, <1>4, RingInvariance, PTL DEF RingSpec, ImplementsIdQueue, Abstract!QSpec
=============================================================================
