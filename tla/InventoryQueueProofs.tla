------------------------ MODULE InventoryQueueProofs ------------------------
(***************************************************************************)
(* Proofs about InventoryQueue, for every finite set of endpoints and      *)
(* every limit.  The loop of drainBackgroundInventory never starts more    *)
(* than one inventory, because whoever calls it has either an empty list   *)
(* before, or has just made the only free place: DrainKeeps says what it   *)
(* leaves, and the handlers only have to show that it may be called.       *)
(***************************************************************************)
EXTENDS InventoryQueue, FiniteSetTheorems, SequenceTheorems, TLAPS

(* The cardinality of no endpoint and of one. *)
LEMMA SmallSets ==
  /\ Cardinality({}) = 0
  /\ \A x : Cardinality({x}) = 1
BY FS_EmptySet, FS_Singleton

(* With no place, or nothing in the list, the loop takes nothing. *)
LEMMA TakesNone ==
  ASSUME NEW q \in Seq(Hosts), NEW busy \in SUBSET Hosts, NEW w \in Nat,
         w >= MaxConcurrent \/ Len(q) = 0
  PROVE  Taken(q, busy, w) = 0
<1> DEFINE Good(n) ==
      /\ n = Len(q) \/ w + Cardinality(Fresh(q, n, busy)) >= MaxConcurrent
      /\ \A m \in 0 .. n - 1 : w + Cardinality(Fresh(q, m, busy)) < MaxConcurrent
<1>0. Len(q) \in Nat /\ MaxConcurrent \in Nat
  BY QueueAssumption
<1>1. Fresh(q, 0, busy) = {} /\ Cardinality(Fresh(q, 0, busy)) = 0
  <2>1. Fresh(q, 0, busy) = {}
    BY SMT DEF Fresh
  <2> QED
    BY <2>1, SmallSets
<1>2. Good(0)
  BY <1>0, <1>1
<1>3. ASSUME NEW n \in 0 .. Len(q), Good(n), n # 0
      PROVE  FALSE
  <2>1. 0 \in 0 .. n - 1
    BY <1>3
  <2>2. w + 0 < MaxConcurrent
    BY <2>1, <1>3, <1>1
  <2>3. Len(q) # 0
    BY <1>0, <1>3
  <2> QED
    BY <2>2, <2>3, <1>0
<1>4. Taken(q, busy, w) = CHOOSE n \in 0 .. Len(q) : Good(n)
  BY DEF Taken
<1> HIDE DEF Good
<1>5. 0 \in 0 .. Len(q)
  BY <1>0
<1> QED
  BY <1>2, <1>3, <1>4, <1>5

(* With a place, and only one place or one entry, it takes the first. *)
LEMMA TakesFirst ==
  ASSUME NEW q \in Seq(Hosts), NEW busy \in SUBSET Hosts, NEW w \in Nat,
         w < MaxConcurrent, Len(q) > 0, q[1] \notin busy,
         w + 1 >= MaxConcurrent \/ Len(q) = 1
  PROVE  Taken(q, busy, w) = 1 /\ Fresh(q, 1, busy) = {q[1]}
<1> DEFINE Good(n) ==
      /\ n = Len(q) \/ w + Cardinality(Fresh(q, n, busy)) >= MaxConcurrent
      /\ \A m \in 0 .. n - 1 : w + Cardinality(Fresh(q, m, busy)) < MaxConcurrent
<1>0. Len(q) \in Nat /\ MaxConcurrent \in Nat
  BY QueueAssumption
<1>1. Fresh(q, 0, busy) = {} /\ Cardinality(Fresh(q, 0, busy)) = 0
  <2>1. Fresh(q, 0, busy) = {}
    BY SMT DEF Fresh
  <2> QED
    BY <2>1, SmallSets
<1>2. Fresh(q, 1, busy) = {q[1]} /\ Cardinality(Fresh(q, 1, busy)) = 1
  <2>1. Fresh(q, 1, busy) = {q[1]}
    BY DEF Fresh
  <2> QED
    BY <2>1, SmallSets
<1>3. Good(1)
  <2>1. \A m \in 0 .. 1 - 1 : m = 0
    OBVIOUS
  <2> QED
    BY <1>0, <1>1, <1>2, <2>1
<1>4. ASSUME NEW n \in 0 .. Len(q), Good(n)
      PROVE  n = 1
  <2>1. n # 0
    BY <1>0, <1>1, <1>4
  <2>2. ASSUME n > 1 PROVE FALSE
    <3>1. 1 \in 0 .. n - 1
      BY <2>2
    <3>2. w + 1 < MaxConcurrent
      BY <3>1, <1>4, <1>2
    <3>3. Len(q) = 1
      BY <3>2, <1>0
    <3>4. n <= Len(q) /\ n \in Nat
      BY <1>0
    <3> QED
      BY <3>3, <3>4, <2>2
  <2>3. n \in Nat
    BY <1>0
  <2> QED
    BY <2>1, <2>2, <2>3
<1>5. Taken(q, busy, w) = CHOOSE n \in 0 .. Len(q) : Good(n)
  BY DEF Taken
<1> HIDE DEF Good
<1>6. 1 \in 0 .. Len(q)
  BY <1>0
<1> QED
  BY <1>2, <1>3, <1>4, <1>5, <1>6

-----------------------------------------------------------------------------
(* When the loop may be called: the books agree but for a list that may have *)
(* an entry too many, for which there is at most one place.                  *)
MayDrain(q, busy, w, due, prob) ==
  /\ q \in Seq(Hosts)
  /\ busy \in SUBSET Hosts
  /\ w \in 0 .. MaxConcurrent
  /\ due \in [Hosts -> Nat]
  /\ prob \in [Hosts -> Nat]
  /\ busy = {h \in Hosts : due[h] + prob[h] > 0}
  /\ w = Cardinality(busy)
  /\ \A i \in 1 .. Len(q) : q[i] \notin busy
  /\ \A i, j \in 1 .. Len(q) : q[i] = q[j] => i = j
  /\ \A h \in Hosts : due[h] + prob[h] <= 1
  /\ w + 1 >= MaxConcurrent \/ Len(q) <= 1

(* What the loop leaves. *)
QueueGood ==
  /\ pending \in Seq(Hosts)
  /\ inFlight \subseteq Hosts
  /\ workers \in 0 .. MaxConcurrent
  /\ waiting \in [Hosts -> Nat]
  /\ probing \in [Hosts -> Nat]
  /\ BooksAgree
  /\ OneJobPerHost
  /\ NoIdleWorker

(* Of the list q, what left it was first and is active. *)
InOrder(q) ==
  \A j \in 1 .. Len(q) :
    q[j] \notin Queued' =>
      /\ waiting'[q[j]] + probing'[q[j]] > 0
      /\ \A i \in 1 .. j : q[i] \notin Queued'

LEMMA DrainKeeps ==
  ASSUME NEW q, NEW busy, NEW w, NEW due,
         MayDrain(q, busy, w, due, probing'),
         Drain(q, busy, w, due)
  PROVE  QueueGood' /\ InOrder(q)
<1>0. Len(q) \in Nat /\ MaxConcurrent \in Nat /\ MaxConcurrent > 0 /\ w \in Nat /\ IsFiniteSet(busy)
  <2>1. IsFiniteSet(busy)
    BY FS_Subset, QueueAssumption DEF MayDrain
  <2> QED
    BY QueueAssumption, <2>1 DEF MayDrain
<1>1. CASE w >= MaxConcurrent \/ Len(q) = 0
  <2>1. Taken(q, busy, w) = 0
    BY <1>1, <1>0, TakesNone DEF MayDrain
  <2>2. Fresh(q, 0, busy) = {}
    BY DEF Fresh
  <2>3. pending' = q
    <3>1. pending' = SubSeq(q, 1, Len(q))
      BY <2>1 DEF Drain
    <3> QED
      BY <3>1, <1>0 DEF MayDrain
  <2>4. inFlight' = busy /\ workers' = w
    <3>1. inFlight' = busy \cup {} /\ workers' = w + Cardinality({})
      BY <2>1, <2>2 DEF Drain
    <3> QED
      BY <3>1, SmallSets, <1>0
  <2>5. waiting' = due
    BY <2>1, <2>2 DEF Drain, Plus, MayDrain
  <2>6. BooksAgree'
    BY <2>3, <2>4, <2>5 DEF BooksAgree, MayDrain, Active, Queued
  <2>7. NoIdleWorker'
    BY <2>3, <2>4, <1>1, <1>0 DEF NoIdleWorker, MayDrain
  <2>8. InOrder(q)
    BY <2>3 DEF InOrder, Queued
  <2> QED
    BY <2>3, <2>4, <2>5, <2>6, <2>7, <2>8 DEF QueueGood, MayDrain, OneJobPerHost
<1>2. CASE w < MaxConcurrent /\ Len(q) > 0
  <2> DEFINE h == q[1]
  <2>0. q \in Seq(Hosts) /\ busy \in SUBSET Hosts /\ 1 \in 1 .. Len(q)
    BY <1>2, <1>0 DEF MayDrain
  <2>1. h \in Hosts /\ h \notin busy
    <3>1. h \in Hosts
      BY <2>0
    <3> QED
      BY <3>1, <2>0 DEF MayDrain
  <2>2. Taken(q, busy, w) = 1 /\ Fresh(q, 1, busy) = {h}
    <3>1. w + 1 >= MaxConcurrent \/ Len(q) <= 1
      BY DEF MayDrain
    <3>2. ASSUME NEW n \in Nat, n = Len(q), n > 0, n <= 1
          PROVE  Len(q) = 1
      BY <3>2
    <3>3. w + 1 >= MaxConcurrent \/ Len(q) = 1
      BY <3>1, <3>2, <1>2, <1>0
    <3> QED
      BY <3>3, <1>2, <1>0, <2>0, <2>1, TakesFirst
  <2>3. pending' = SubSeq(q, 2, Len(q))
    BY <2>2, <1>0 DEF Drain
  <2>4. inFlight' = busy \cup {h} /\ workers' = w + 1
    BY <2>2, SmallSets DEF Drain
  <2>5. waiting' = [g \in Hosts |-> IF g = h THEN due[g] + 1 ELSE due[g]]
    BY <2>2 DEF Drain, Plus
  <2> HIDE DEF h
  <2>6. /\ pending' \in Seq(Hosts)
        /\ Len(pending') = Len(q) - 1
        /\ \A i \in 1 .. Len(q) - 1 : pending'[i] = q[i + 1]
    <3>1. \A i \in 2 .. Len(q) : q[i] \in Hosts
      BY <2>0, <1>0
    <3>2. 2 \in Int /\ Len(q) \in Int /\ Len(q) >= 1
      BY <2>0, <1>0
    <3>3. /\ SubSeq(q, 2, Len(q)) \in Seq(Hosts)
          /\ Len(SubSeq(q, 2, Len(q))) = IF 2 <= Len(q) THEN Len(q) - 2 + 1 ELSE 0
          /\ \A i \in 1 .. Len(q) - 2 + 1 : SubSeq(q, 2, Len(q))[i] = q[2 + i - 1]
      BY <3>1, <3>2, SubSeqProperties
    <3>4. \A i \in 1 .. Len(q) - 1 : i \in 1 .. Len(q) - 2 + 1 /\ 2 + i - 1 = i + 1
      BY <3>2
    <3>5. Len(pending') = Len(q) - 1
      <4>1. ASSUME NEW n \in Nat, n >= 1
            PROVE  (IF 2 <= n THEN n - 2 + 1 ELSE 0) = n - 1
        BY <4>1
      <4>2. (IF 2 <= Len(q) THEN Len(q) - 2 + 1 ELSE 0) = Len(q) - 1
        BY <4>1, <3>2, <1>0
      <4> QED
        BY <2>3, <4>2, <3>3
    <3>6. \A i \in 1 .. Len(q) - 1 : pending'[i] = q[i + 1]
      BY <2>3, <3>3, <3>4
    <3> QED
      BY <2>3, <3>3, <3>5, <3>6
  <2>7. waiting' \in [Hosts -> Nat]
    BY <2>5 DEF MayDrain
  <2>8. due[h] = 0 /\ probing'[h] = 0
    BY <2>1 DEF MayDrain
  <2>9. inFlight' = {g \in Hosts : waiting'[g] + probing'[g] > 0}
    <3>1. ASSUME NEW g \in Hosts
          PROVE  g \in inFlight' <=> waiting'[g] + probing'[g] > 0
      <4>1. CASE g = h
        BY <4>1, <2>4, <2>5, <2>8
      <4>2. CASE g # h
        BY <4>2, <2>4, <2>5 DEF MayDrain
      <4> QED
        BY <4>1, <4>2
    <3>2. inFlight' \subseteq Hosts
      BY <2>4, <2>1 DEF MayDrain
    <3> QED
      BY <3>1, <3>2
  <2>10. workers' = Cardinality(inFlight')
    BY <2>4, <2>1, <1>0, FS_AddElement DEF MayDrain
  <2>11. Queued' = {q[i] : i \in 2 .. Len(q)}
    <3>1. ASSUME NEW i \in 2 .. Len(q) PROVE q[i] \in Queued'
      <4>1. i - 1 \in 1 .. Len(q) - 1 /\ (i - 1) + 1 = i
        BY <1>0
      <4>2. pending'[i - 1] = q[i]
        BY <4>1, <2>6
      <4> QED
        BY <4>1, <4>2, <2>6 DEF Queued
    <3>2. ASSUME NEW i \in 1 .. Len(q) - 1
          PROVE  pending'[i] \in {q[k] : k \in 2 .. Len(q)}
      <4>1. i + 1 \in 2 .. Len(q)
        BY <1>0
      <4> QED
        BY <4>1, <2>6
    <3> QED
      BY <3>1, <3>2, <2>6 DEF Queued
  <2>12. \A i \in 2 .. Len(q) : q[i] # h
    BY <1>0 DEF MayDrain, h
  <2>13. inFlight' \cap Queued' = {}
    BY <2>4, <2>11, <2>12, <1>0 DEF MayDrain
  <2>14. \A i, j \in 1 .. Len(pending') : pending'[i] = pending'[j] => i = j
    <3> SUFFICES ASSUME NEW i \in 1 .. Len(q) - 1, NEW j \in 1 .. Len(q) - 1,
                        q[i + 1] = q[j + 1]
                 PROVE  i = j
      BY <2>6
    <3>1. i + 1 \in 1 .. Len(q) /\ j + 1 \in 1 .. Len(q)
      BY <1>0
    <3>2. i + 1 = j + 1
      BY <3>1 DEF MayDrain
    <3> QED
      BY <3>2
  <2>15. BooksAgree'
    BY <2>9, <2>10, <2>13, <2>14 DEF BooksAgree, Active
  <2>16. OneJobPerHost'
    BY <2>5, <2>8 DEF OneJobPerHost, MayDrain
  <2>17. NoIdleWorker'
    <3>1. CASE w + 1 >= MaxConcurrent
      BY <3>1, <2>4, <1>2, <1>0 DEF NoIdleWorker
    <3>2. CASE Len(q) <= 1
      <4>1. Len(pending') = 0
        BY <3>2, <2>6, <1>2, <1>0
      <4> QED
        BY <4>1, <2>6 DEF NoIdleWorker
    <3> QED
      BY <3>1, <3>2 DEF MayDrain
  <2>18. InOrder(q)
    <3> SUFFICES ASSUME NEW j \in 1 .. Len(q), q[j] \notin Queued'
                 PROVE  /\ waiting'[q[j]] + probing'[q[j]] > 0
                        /\ \A i \in 1 .. j : q[i] \notin Queued'
      BY DEF InOrder
    <3>1. j = 1
      BY <2>11
    <3>2. q[j] = h
      BY <3>1 DEF h
    <3> QED
      BY <3>1, <3>2, <2>1, <2>5, <2>8
  <2>19. workers' \in 0 .. MaxConcurrent
    BY <2>4, <1>2, <1>0
  <2> QED
    BY <2>4, <2>6, <2>7, <2>1, <2>15, <2>16, <2>17, <2>18, <2>19 DEF QueueGood, MayDrain
<1> QED
  BY <1>0, <1>1, <1>2

-----------------------------------------------------------------------------
(* The handlers may call the loop. *)

(* One endpoint less has an inventory. *)
LEMMA MayDrainAfterFinish ==
  ASSUME QueueGood, NEW h \in Hosts, NEW due, NEW prob,
         due \in [Hosts -> Nat], prob \in [Hosts -> Nat],
         \A g \in Hosts : g # h => due[g] + prob[g] = waiting[g] + probing[g],
         due[h] + prob[h] = 0, Active(h)
  PROVE  MayDrain(pending, inFlight \ {h}, IF workers > 0 THEN workers - 1 ELSE 0, due, prob)
<1>1. h \in inFlight /\ IsFiniteSet(inFlight)
  BY FS_Subset, QueueAssumption DEF QueueGood, BooksAgree
<1>2. Cardinality(inFlight \ {h}) = Cardinality(inFlight) - 1
  BY <1>1, FS_RemoveElement
<1>3. workers \in Nat /\ workers = Cardinality(inFlight) /\ MaxConcurrent \in Nat /\ workers <= MaxConcurrent
  BY QueueAssumption DEF QueueGood, BooksAgree
<1>4. Cardinality(inFlight \ {h}) \in Nat
  BY <1>1, FS_Subset, FS_CardinalityType
<1>5. workers > 0 /\ Cardinality(inFlight \ {h}) = workers - 1
  BY <1>2, <1>3, <1>4
<1>6. inFlight \ {h} = {g \in Hosts : due[g] + prob[g] > 0}
  <2>1. ASSUME NEW g \in Hosts
        PROVE  g \in inFlight \ {h} <=> due[g] + prob[g] > 0
    BY DEF QueueGood, BooksAgree, Active
  <2>2. inFlight \subseteq Hosts
    BY DEF QueueGood
  <2> QED
    BY <2>1, <2>2
<1>7. ASSUME NEW g \in Hosts PROVE due[g] + prob[g] <= 1
  <2>1. waiting[g] + probing[g] <= 1
    BY DEF QueueGood, OneJobPerHost
  <2>2. CASE g = h
    BY <2>2
  <2>3. CASE g # h
    BY <2>1, <2>3
  <2> QED
    BY <2>2, <2>3
<1>8. \A i \in 1 .. Len(pending) : pending[i] \notin inFlight \ {h}
  <2>1. inFlight \cap Queued = {}
    BY DEF QueueGood, BooksAgree
  <2>2. \A i \in 1 .. Len(pending) : pending[i] \in Queued
    BY DEF Queued
  <2> QED
    BY <2>1, <2>2
<1>9. workers - 1 + 1 >= MaxConcurrent \/ Len(pending) <= 1
  <2>1. CASE pending = <<>>
    BY <2>1
  <2>2. CASE pending # <<>>
    BY <2>2, <1>3 DEF QueueGood, NoIdleWorker
  <2> QED
    BY <2>1, <2>2
<1>10. pending \in Seq(Hosts) /\ inFlight \ {h} \in SUBSET Hosts
  BY DEF QueueGood
<1>11. \A i, j \in 1 .. Len(pending) : pending[i] = pending[j] => i = j
  BY DEF QueueGood, BooksAgree
<1>12. (IF workers > 0 THEN workers - 1 ELSE 0) = workers - 1 /\ workers - 1 \in 0 .. MaxConcurrent
  BY <1>3, <1>5
<1> QED
  BY <1>5, <1>6, <1>7, <1>8, <1>9, <1>10, <1>11, <1>12 DEF MayDrain

(* One endpoint more is in the list, which was empty or has to wait. *)
LEMMA MayDrainAfterQueue ==
  ASSUME QueueGood, NEW h \in Hosts, h \notin inFlight, h \notin Queued
  PROVE  MayDrain(Append(pending, h), inFlight, workers, waiting, probing)
<1> DEFINE q == Append(pending, h)
<1>0. pending \in Seq(Hosts) /\ Len(pending) \in Nat
  BY DEF QueueGood
<1>1. /\ q \in Seq(Hosts)
      /\ Len(q) = Len(pending) + 1
      /\ \A i \in 1 .. Len(pending) : q[i] = pending[i]
      /\ q[Len(pending) + 1] = h
  BY <1>0
<1> HIDE DEF q
<1>2. \A i \in 1 .. Len(q) : i \in 1 .. Len(pending) \/ i = Len(pending) + 1
  BY <1>0, <1>1
<1>3. \A i \in 1 .. Len(pending) : pending[i] \in Queued
  BY DEF Queued
<1>4. \A i \in 1 .. Len(q) : q[i] \notin inFlight
  BY <1>1, <1>2, <1>3 DEF QueueGood, BooksAgree
<1>5. \A i, j \in 1 .. Len(q) : q[i] = q[j] => i = j
  <2>1. \A i, j \in 1 .. Len(pending) : pending[i] = pending[j] => i = j
    BY DEF QueueGood, BooksAgree
  <2> QED
    BY <2>1, <1>1, <1>2, <1>3
<1>6. workers + 1 >= MaxConcurrent \/ Len(q) <= 1
  <2>1. CASE pending = <<>>
    BY <2>1, <1>1
  <2>2. CASE pending # <<>>
    BY <2>2, QueueAssumption DEF QueueGood, NoIdleWorker
  <2> QED
    BY <2>1, <2>2
<1>7. MayDrain(q, inFlight, workers, waiting, probing)
  <2>1. /\ inFlight \in SUBSET Hosts
        /\ workers \in 0 .. MaxConcurrent
        /\ waiting \in [Hosts -> Nat]
        /\ probing \in [Hosts -> Nat]
        /\ inFlight = {g \in Hosts : waiting[g] + probing[g] > 0}
        /\ workers = Cardinality(inFlight)
        /\ \A g \in Hosts : waiting[g] + probing[g] <= 1
    BY DEF QueueGood, BooksAgree, OneJobPerHost, Active
  <2> QED
    BY <2>1, <1>1, <1>4, <1>5, <1>6 DEF MayDrain
<1> QED
  BY <1>7 DEF q

-----------------------------------------------------------------------------
(* What a step of the specification does to the queue: it keeps it good, and *)
(* what leaves the list leaves it in order. *)
LEMMA StepKeepsQueue ==
  ASSUME QueueGood, Next, TypeOK
  PROVE  QueueGood' /\ (restarts' = restarts => InOrder(pending))
<1>1. ASSUME UNCHANGED <<queue, waiting, probing>>
      PROVE  QueueGood' /\ InOrder(pending)
  <2>1. QueueGood'
    BY <1>1 DEF QueueGood, BooksAgree, OneJobPerHost, NoIdleWorker, Active, Queued, queue
  <2>2. InOrder(pending)
    BY <1>1 DEF InOrder, Queued, queue
  <2> QED
    BY <2>1, <2>2
<1>2. CASE \E h \in Hosts, online \in BOOLEAN : CheckWrites(h, online)
  BY <1>1, <1>2 DEF CheckWrites
<1>3. CASE \E h \in Hosts : CheckReturns(h)
  <2> SUFFICES ASSUME NEW h \in Hosts, CheckReturns(h)
               PROVE  QueueGood' /\ InOrder(pending)
    BY <1>3
  <2>1. CASE h \in inFlight \/ h \in Queued
    BY <2>1, <1>1 DEF CheckReturns, QueueInventory
  <2>2. CASE h \notin inFlight /\ h \notin Queued
    <3>1. Drain(Append(pending, h), inFlight, workers, waiting) /\ probing' = probing
      BY <2>2 DEF CheckReturns, QueueInventory
    <3>2. MayDrain(Append(pending, h), inFlight, workers, waiting, probing')
      BY <2>2, <3>1, MayDrainAfterQueue
    <3>3. QueueGood' /\ InOrder(Append(pending, h))
      BY <3>1, <3>2, DrainKeeps
    <3>4. pending \in Seq(Hosts)
      BY DEF QueueGood
    <3>5. /\ \A i \in 1 .. Len(pending) : Append(pending, h)[i] = pending[i]
          /\ 1 .. Len(pending) \subseteq 1 .. Len(Append(pending, h))
      BY <3>4
    <3>6. \A j \in 1 .. Len(pending) : 1 .. j \subseteq 1 .. Len(pending)
      BY <3>4
    <3>7. InOrder(pending)
      BY <3>3, <3>5, <3>6 DEF InOrder
    <3> QED
      BY <3>3, <3>7
  <2> QED
    BY <2>1, <2>2
<1>4. CASE \E h \in Hosts : OthersWrite(h)
  BY <1>1, <1>4 DEF OthersWrite
<1>5. CASE \E h \in Hosts : JobReads(h)
  <2> SUFFICES ASSUME NEW h \in Hosts, JobReads(h)
               PROVE  QueueGood' /\ InOrder(pending)
    BY <1>5
  <2>1. UNCHANGED queue
    BY DEF JobReads
  <2>2. /\ waiting' \in [Hosts -> Nat]
        /\ probing' \in [Hosts -> Nat]
        /\ \A g \in Hosts : waiting'[g] + probing'[g] = waiting[g] + probing[g]
    <3>1. /\ waiting[h] > 0
          /\ probing' = [g \in Hosts |-> IF g \in {h} THEN probing[g] + 1 ELSE probing[g]]
          /\ waiting' = [waiting EXCEPT ![h] = @ - 1]
      BY DEF JobReads, Plus, Minus
    <3>2. waiting \in [Hosts -> Nat] /\ probing \in [Hosts -> Nat]
      BY DEF QueueGood
    <3>3. waiting' \in [Hosts -> Nat]
      BY <3>1, <3>2
    <3>4. probing' \in [Hosts -> Nat]
      BY <3>1, <3>2
    <3>5. ASSUME NEW g \in Hosts
          PROVE  waiting'[g] + probing'[g] = waiting[g] + probing[g]
      <4>1. CASE g = h
        BY <4>1, <3>1, <3>2
      <4>2. CASE g # h
        BY <4>2, <3>1, <3>2
      <4> QED
        BY <4>1, <4>2
    <3> QED
      BY <3>3, <3>4, <3>5
  <2>3. {g \in Hosts : Active(g)}' = {g \in Hosts : Active(g)}
    BY <2>2 DEF Active
  <2>4. BooksAgree'
    BY <2>1, <2>3 DEF QueueGood, BooksAgree, Queued, queue
  <2>5. OneJobPerHost' /\ NoIdleWorker'
    BY <2>1, <2>2 DEF QueueGood, OneJobPerHost, NoIdleWorker, queue
  <2>6. InOrder(pending)
    BY <2>1 DEF InOrder, Queued, queue
  <2> QED
    BY <2>1, <2>2, <2>4, <2>5, <2>6 DEF QueueGood, queue
<1>6. CASE \E h \in Hosts : JobGivesUp(h)
  <2> SUFFICES ASSUME NEW h \in Hosts, JobGivesUp(h)
               PROVE  QueueGood' /\ InOrder(pending)
    BY <1>6
  <2> DEFINE due == Minus(waiting, h)
  <2>1. probing' = probing /\ waiting[h] > 0
    BY DEF JobGivesUp
  <2>2. waiting[h] = 1 /\ probing[h] = 0
    BY <2>1 DEF QueueGood, OneJobPerHost
  <2>3. /\ due \in [Hosts -> Nat]
        /\ probing' \in [Hosts -> Nat]
        /\ \A g \in Hosts : g # h => due[g] + probing'[g] = waiting[g] + probing[g]
        /\ due[h] + probing'[h] = 0
    BY <2>1, <2>2 DEF Minus, QueueGood
  <2>4. Active(h)
    BY <2>2 DEF Active
  <2> HIDE DEF due
  <2>5. MayDrain(pending, inFlight \ {h}, IF workers > 0 THEN workers - 1 ELSE 0, due, probing')
    BY <2>3, <2>4, MayDrainAfterFinish
  <2>6. Drain(pending, inFlight \ {h}, IF workers > 0 THEN workers - 1 ELSE 0, due)
    BY DEF JobGivesUp, Finish, due
  <2> QED
    BY <2>5, <2>6, DrainKeeps
<1>7. CASE \E h \in Hosts : JobEnds(h)
  <2> SUFFICES ASSUME NEW h \in Hosts, JobEnds(h)
               PROVE  QueueGood' /\ InOrder(pending)
    BY <1>7
  <2>1. probing' = Minus(probing, h) /\ probing[h] > 0
    BY DEF JobEnds
  <2>2. waiting[h] = 0 /\ probing[h] = 1
    BY <2>1 DEF QueueGood, OneJobPerHost
  <2>3. /\ waiting \in [Hosts -> Nat]
        /\ probing' \in [Hosts -> Nat]
        /\ \A g \in Hosts : g # h => waiting[g] + probing'[g] = waiting[g] + probing[g]
        /\ waiting[h] + probing'[h] = 0
    BY <2>1, <2>2 DEF Minus, QueueGood
  <2>4. Active(h)
    BY <2>2 DEF Active
  <2>5. MayDrain(pending, inFlight \ {h}, IF workers > 0 THEN workers - 1 ELSE 0, waiting, probing')
    BY <2>3, <2>4, MayDrainAfterFinish
  <2>6. Drain(pending, inFlight \ {h}, IF workers > 0 THEN workers - 1 ELSE 0, waiting)
    BY DEF JobEnds, Finish
  <2> QED
    BY <2>5, <2>6, DrainKeeps
<1>8. CASE Restart
  <2>1. /\ pending' = <<>> /\ inFlight' = {} /\ workers' = 0
        /\ waiting' = [h \in Hosts |-> 0] /\ probing' = [h \in Hosts |-> 0]
        /\ restarts' = restarts + 1
    BY <1>8 DEF Restart
  <2>2. BooksAgree'
    BY <2>1, SmallSets DEF BooksAgree, Active, Queued
  <2>3. restarts' # restarts
    BY <2>1 DEF TypeOK
  <2> QED
    BY <2>1, <2>2, <2>3, QueueAssumption DEF QueueGood, OneJobPerHost, NoIdleWorker
<1> QED
  BY <1>2, <1>3, <1>4, <1>5, <1>6, <1>7, <1>8 DEF Next

(* The variables a step of the queue leaves to the checks. *)
LEMMA StepKeepsTypes ==
  ASSUME TypeOK, Next
  PROVE  record' \in [Hosts -> Records] /\ noted' \in [Hosts -> 0 .. MaxNoted]
<1>0. record \in [Hosts -> Records] /\ noted \in [Hosts -> 0 .. MaxNoted] /\ MaxNoted \in Nat
  BY QueueAssumption DEF TypeOK
<1>1. CASE \E h \in Hosts, online \in BOOLEAN : CheckWrites(h, online)
  <2> SUFFICES ASSUME NEW h \in Hosts, NEW online \in BOOLEAN, CheckWrites(h, online)
               PROVE  record' \in [Hosts -> Records] /\ noted' \in [Hosts -> 0 .. MaxNoted]
    BY <1>1
  <2>1. PICK r \in {"needy", "settled"} :
          /\ record' = [record EXCEPT ![h] = r]
          /\ noted' = IF online /\ r = "needy" THEN [noted EXCEPT ![h] = @ + 1] ELSE noted
    BY DEF CheckWrites
  <2>2. noted[h] < MaxNoted
    BY DEF CheckWrites
  <2>3. record' \in [Hosts -> Records]
    BY <1>0, <2>1 DEF Records
  <2>4. noted' \in [Hosts -> 0 .. MaxNoted]
    <3>1. [noted EXCEPT ![h] = @ + 1] \in [Hosts -> 0 .. MaxNoted]
      BY <1>0, <2>2
    <3> QED
      BY <1>0, <2>1, <3>1
  <2> QED
    BY <2>3, <2>4
<1>2. CASE \E h \in Hosts : CheckReturns(h)
  BY <1>0, <1>2 DEF CheckReturns
<1>3. CASE \E h \in Hosts : OthersWrite(h)
  BY <1>0, <1>3 DEF OthersWrite
<1>4. CASE \E h \in Hosts : JobReads(h)
  BY <1>0, <1>4 DEF JobReads
<1>5. CASE \E h \in Hosts : JobGivesUp(h)
  BY <1>0, <1>5 DEF JobGivesUp
<1>6. CASE \E h \in Hosts : JobEnds(h)
  <2> SUFFICES ASSUME NEW h \in Hosts, JobEnds(h)
               PROVE  record' \in [Hosts -> Records] /\ noted' \in [Hosts -> 0 .. MaxNoted]
    BY <1>6
  <2>1. record[h] \in Records
    BY <1>0
  <2>2. \E r \in Records : record' = [record EXCEPT ![h] = r]
    BY <2>1 DEF JobEnds, Records
  <2>3. noted' = noted
    BY DEF JobEnds
  <2> QED
    BY <1>0, <2>2, <2>3
<1>7. CASE Restart
  BY <1>0, <1>7 DEF Restart
<1> QED
  BY <1>1, <1>2, <1>3, <1>4, <1>5, <1>6, <1>7 DEF Next

LEMMA StepKeepsRestarts ==
  ASSUME TypeOK, Next
  PROVE  restarts' \in 0 .. MaxRestarts
<1>0. restarts \in 0 .. MaxRestarts /\ MaxRestarts \in Nat
  BY QueueAssumption DEF TypeOK
<1>1. CASE Restart
  BY <1>0, <1>1 DEF Restart
<1>2. CASE ~Restart
  <2>1. restarts' = restarts
    BY <1>2 DEF Next, CheckWrites, CheckReturns, OthersWrite, JobReads, JobGivesUp, JobEnds
  <2> QED
    BY <1>0, <2>1
<1> QED
  BY <1>1, <1>2

-----------------------------------------------------------------------------
(* The invariant of the queue: vmCheckQueue.js keeps its list, its set and   *)
(* its counter in step with the inventories that exist, at most one for each *)
(* endpoint, and no entry waits beside a free place.                         *)
THEOREM QueueInvariant == Spec => []QueueInv
<1>1. Init => QueueInv
  <2> SUFFICES ASSUME Init PROVE QueueInv
    OBVIOUS
  <2>1. TypeOK
    BY QueueAssumption DEF Init, TypeOK
  <2>2. BooksAgree
    BY SmallSets DEF Init, BooksAgree, Active, Queued
  <2>3. OneJobPerHost /\ NoIdleWorker
    BY DEF Init, OneJobPerHost, NoIdleWorker
  <2> QED
    BY <2>1, <2>2, <2>3 DEF QueueInv
<1>2. QueueInv /\ [Next]_vars => QueueInv'
  <2> SUFFICES ASSUME QueueInv, [Next]_vars PROVE QueueInv'
    OBVIOUS
  <2>0. QueueGood
    BY QueueAssumption DEF QueueInv, QueueGood, TypeOK
  <2>1. CASE Next
    <3>1. QueueGood'
      BY <2>0, <2>1, StepKeepsQueue DEF QueueInv
    <3>2. record' \in [Hosts -> Records] /\ noted' \in [Hosts -> 0 .. MaxNoted]
      BY <2>1, StepKeepsTypes DEF QueueInv
    <3>3. restarts' \in 0 .. MaxRestarts
      BY <2>1, StepKeepsRestarts DEF QueueInv
    <3> QED
      BY <3>1, <3>2, <3>3 DEF QueueInv, QueueGood, TypeOK
  <2>2. CASE UNCHANGED vars
    BY <2>2 DEF vars, QueueInv, TypeOK, BooksAgree, OneJobPerHost, NoIdleWorker, Active, Queued
  <2> QED
    BY <2>1, <2>2
<1> QED
  BY <1>1, <1>2, PTL DEF Spec

(* The bound "BACKGROUND_INVENTORY_CONCURRENCY" is one of the inventories    *)
(* that exist, whatever fails, is deleted or restarts.                       *)
THEOREM AtMostLimitHolds == Spec => []AtMostLimit
<1>1. QueueInv => AtMostLimit
  <2> SUFFICES ASSUME QueueInv PROVE AtMostLimit
    OBVIOUS
  <2>1. Cardinality({h \in Hosts : Active(h)}) = workers
    BY DEF QueueInv, BooksAgree
  <2>2. workers <= MaxConcurrent
    BY QueueAssumption DEF QueueInv, TypeOK
  <2> QED
    BY <2>1, <2>2 DEF AtMostLimit
<1> QED
  BY <1>1, QueueInvariant, PTL

(* At most one inventory of an endpoint, and no free place beside an entry   *)
(* that waits.                                                               *)
THEOREM OneJobAndNoIdleWorker == Spec => [](OneJobPerHost /\ NoIdleWorker)
<1>1. QueueInv => OneJobPerHost /\ NoIdleWorker
  BY DEF QueueInv
<1> QED
  BY <1>1, QueueInvariant, PTL

(* Endpoints leave the list in the order in which they were asked for, and   *)
(* only to be inventoried, unless the process ends.                          *)
THEOREM FirstComeFirstServedHolds == Spec => FirstComeFirstServed
<1>1. QueueInv /\ [Next]_vars =>
        [restarts' = restarts =>
           \A j \in 1 .. Len(pending) :
             pending[j] \notin Queued' =>
               /\ waiting'[pending[j]] + probing'[pending[j]] > 0
               /\ \A i \in 1 .. j : pending[i] \notin Queued']_vars
  <2> SUFFICES ASSUME QueueInv, Next, restarts' = restarts
               PROVE  InOrder(pending)
    BY DEF InOrder
  <2>1. QueueGood /\ TypeOK
    BY QueueAssumption DEF QueueInv, QueueGood, TypeOK
  <2> QED
    BY <2>1, StepKeepsQueue
<1> QED
  BY <1>1, QueueInvariant, PTL DEF Spec, FirstComeFirstServed
=============================================================================
