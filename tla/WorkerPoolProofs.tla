-------------------------- MODULE WorkerPoolProofs --------------------------
(***************************************************************************)
(* WorkerPool, for every list length and every concurrency: no item is     *)
(* taken twice, the promise resolves only over a complete result array,    *)
(* and the runners implement PoolContract, the concurrency bound included. *)
(***************************************************************************)
EXTENDS WorkerPool, FiniteSetTheorems, TLAPS

\* The two arithmetic facts about the arguments of the call.
LEMMA LimitFacts ==
  ASSUME NEW c \in Int, NEW n \in Nat
  PROVE  /\ AtLeastOne(c) \in Nat \ {0}
         /\ Width(AtLeastOne(c), n) \in Nat
         /\ Width(AtLeastOne(c), n) = 0 => n = 0
BY DEF AtLeastOne, Width

LEMMA WidthFacts ==
  ASSUME TypeOK
  PROVE  /\ Width(limit, length) \in Nat
         /\ Width(limit, length) <= limit
         /\ Width(limit, length) = 0 => length = 0
BY DEF TypeOK, Width

LEMMA InitPoolInv == Init => PoolInv
<1> SUFFICES ASSUME Init PROVE PoolInv
  OBVIOUS
<1>1. Width(limit, length) = 0 /\ Runners = {} /\ Busy = {}
  BY DEF Init, Width, Runners, Busy
<1>2. TypeOK
  BY <1>1 DEF Init, TypeOK, Runners
<1>3. NoItemTwice /\ RunnerInv /\ OutcomeInv
  BY <1>1 DEF Init, NoItemTwice, RunnerInv, OutcomeInv
<1>4. IndexInv
  BY <1>1 DEF Init, IndexInv
<1>. QED
  BY <1>2, <1>3, <1>4 DEF PoolInv

\* The call creates the runners: nothing is in progress yet.
LEMMA CallPoolInv ==
  ASSUME PoolInv, Call
  PROVE  PoolInv'
<1>1. PICK n \in Lengths, c \in Concurrencies :
        /\ length' = n
        /\ limit' = AtLeastOne(c)
        /\ at' = [r \in 1 .. Width(AtLeastOne(c), n) |-> "loop"]
        /\ holds' = [r \in 1 .. Width(AtLeastOne(c), n) |-> 0]
  BY DEF Call
<1>2. n \in Nat /\ c \in Int
  BY LengthsAssumption, ConcurrenciesAssumption
<1>3. /\ limit' \in Nat \ {0}
      /\ Runners' = 1 .. Width(AtLeastOne(c), n)
  BY <1>1, <1>2, LimitFacts DEF Runners
<1>4. Busy' = {}
  BY <1>1, <1>3 DEF Busy
<1>5. outcome = "idle" /\ length = 0 /\ Runners = {} /\ Busy = {}
  BY DEF Call, PoolInv, OutcomeInv, TypeOK, Runners, Busy, Width
<1>6. index = 0 /\ finished = {} /\ thrown = {}
  BY <1>5 DEF PoolInv, IndexInv, TypeOK
<1>7. TypeOK'
  BY <1>1, <1>2, <1>3, <1>6 DEF Call, TypeOK
<1>8. NoItemTwice' /\ RunnerInv' /\ OutcomeInv'
  BY <1>1, <1>3, <1>4, <1>6 DEF Call, NoItemTwice, RunnerInv, OutcomeInv
<1>9. IndexInv'
  BY <1>1, <1>2, <1>4, <1>6 DEF Call, IndexInv
<1>. QED
  BY <1>7, <1>8, <1>9 DEF PoolInv

\* A claim takes exactly the item the cursor leaves behind.
LEMMA ClaimPoolInv ==
  ASSUME PoolInv, NEW r \in Runners, Claim(r)
  PROVE  /\ PoolInv'
         /\ Busy' = Busy \cup {r} /\ r \notin Busy
         /\ 1 .. index' = (1 .. index) \cup {index + 1}
<1> USE DEF PoolInv
<1>1. Runners' = Runners /\ r \in Nat
  BY DEF Claim, Runners, TypeOK, Width
<1>2. /\ Busy' = Busy \cup {r}
      /\ r \notin Busy
  BY <1>1 DEF Claim, Busy, TypeOK
<1>3. index' = index + 1 /\ index \in Nat /\ index' <= length
  BY DEF Claim, TypeOK, IndexInv
<1>4. 1 .. index' = (1 .. index) \cup {index + 1}
  BY <1>3
<1>5. TypeOK'
  BY <1>1, <1>3 DEF Claim, TypeOK
<1>6. \A s \in Busy : holds'[s] = holds[s] /\ holds[s] \in 1 .. index
  BY <1>1, <1>2 DEF Claim, TypeOK, IndexInv, Busy
<1>7. holds'[r] = index + 1
  BY DEF Claim, TypeOK
<1>8. index + 1 \notin finished \cup thrown
  BY <1>3 DEF IndexInv
<1>9. NoItemTwice'
  <2> SUFFICES ASSUME NEW q \in Busy'
               PROVE  /\ holds'[q] \notin finished \cup thrown
                      /\ \A s \in Busy' : holds'[q] = holds'[s] => q = s
    BY DEF NoItemTwice, Claim
  <2>1. holds'[q] \notin finished \cup thrown
    BY <1>2, <1>6, <1>7, <1>8 DEF NoItemTwice
  <2>2. ASSUME NEW s \in Busy', holds'[q] = holds'[s]
        PROVE  q = s
    BY <1>2, <1>3, <1>6, <1>7, <2>2 DEF NoItemTwice
  <2>. QED
    BY <2>1, <2>2
<1>10. IndexInv'
  <2>1. {holds'[s] : s \in Busy'} = {holds[s] : s \in Busy} \cup {index + 1}
    BY <1>2, <1>6, <1>7
  <2>. QED
    BY <1>3, <1>4, <2>1 DEF IndexInv, Claim
<1>11. RunnerInv' /\ OutcomeInv'
  BY <1>1, <1>3 DEF RunnerInv, OutcomeInv, Claim, TypeOK, IndexInv
<1>. QED
  BY <1>2, <1>4, <1>5, <1>9, <1>10, <1>11

\* Storing a result moves one item from "in progress" to "finished".
LEMMA StorePoolInv ==
  ASSUME PoolInv, NEW r \in Runners, Store(r)
  PROVE  /\ PoolInv'
         /\ Busy' = Busy \ {r}
<1> USE DEF PoolInv
<1>1. Runners' = Runners /\ r \in Busy
  BY DEF Store, Runners, Busy
<1>2. Busy' = Busy \ {r}
  BY <1>1 DEF Store, Busy, TypeOK
<1>3. holds[r] \in Nat
  BY DEF TypeOK
<1>4. TypeOK'
  BY <1>1, <1>3 DEF Store, TypeOK
<1>5. NoItemTwice'
  BY <1>1, <1>2 DEF NoItemTwice, Store
<1>6. IndexInv'
  <2>1. {holds[s] : s \in Busy} = {holds[s] : s \in Busy'} \cup {holds[r]}
    BY <1>1, <1>2
  <2>. QED
    BY <2>1 DEF IndexInv, Store
<1>7. RunnerInv' /\ OutcomeInv'
  BY <1>1 DEF RunnerInv, OutcomeInv, Store, TypeOK, NoItemTwice
<1>. QED
  BY <1>2, <1>4, <1>5, <1>6, <1>7

\* A rejection does the same towards "thrown", and is never forgotten.
LEMMA RejectPoolInv ==
  ASSUME PoolInv, NEW r \in Runners, Reject(r)
  PROVE  /\ PoolInv'
         /\ Busy' = Busy \ {r}
<1> USE DEF PoolInv
<1>1. Runners' = Runners /\ r \in Busy
  BY DEF Reject, Runners, Busy
<1>2. Busy' = Busy \ {r}
  BY <1>1 DEF Reject, Busy, TypeOK
<1>3. holds[r] \in Nat
  BY DEF TypeOK
<1>4. TypeOK'
  BY <1>1, <1>3 DEF Reject, TypeOK
<1>5. NoItemTwice'
  BY <1>1, <1>2 DEF NoItemTwice, Reject
<1>6. IndexInv'
  <2>1. {holds[s] : s \in Busy} = {holds[s] : s \in Busy'} \cup {holds[r]}
    BY <1>1, <1>2
  <2>. QED
    BY <2>1 DEF IndexInv, Reject
<1>7. OutcomeInv'
  BY <1>1 DEF OutcomeInv, Reject, Runners, TypeOK, Width
<1>8. RunnerInv'
  BY <1>1 DEF RunnerInv, Reject, TypeOK, NoItemTwice
<1>. QED
  BY <1>2, <1>4, <1>5, <1>6, <1>7, <1>8

\* A runner leaves only when the cursor is at the end.
LEMMA LeavePoolInv ==
  ASSUME PoolInv, NEW r \in Runners, Leave(r)
  PROVE  PoolInv' /\ Busy' = Busy
<1> USE DEF PoolInv
<1>1. Runners' = Runners
  BY DEF Leave, Runners
<1>2. Busy' = Busy
  BY <1>1 DEF Leave, Busy, TypeOK
<1>3. TypeOK'
  BY <1>1 DEF Leave, TypeOK
<1>4. NoItemTwice' /\ IndexInv'
  BY <1>1, <1>2 DEF NoItemTwice, IndexInv, Leave
<1>5. index = length
  BY DEF Leave, IndexInv, TypeOK
<1>6. RunnerInv' /\ OutcomeInv'
  BY <1>1, <1>5 DEF RunnerInv, OutcomeInv, Leave, TypeOK
<1>. QED
  BY <1>2, <1>3, <1>4, <1>6

LEMMA ResolveAllPoolInv ==
  ASSUME PoolInv, ResolveAll
  PROVE  PoolInv'
<1>1. Runners' = Runners /\ Busy' = Busy
  BY DEF ResolveAll, Runners, Busy
<1>2. \A r \in Runners : at[r] # "threw"
  BY DEF ResolveAll
<1>3. thrown = {}
  BY DEF PoolInv, RunnerInv, ResolveAll
<1>. QED
  BY <1>1, <1>2, <1>3
  DEF ResolveAll, PoolInv, TypeOK, NoItemTwice, IndexInv, RunnerInv, OutcomeInv

LEMMA StutterPoolInv ==
  ASSUME PoolInv, UNCHANGED vars
  PROVE  PoolInv'
<1>1. Runners' = Runners /\ Busy' = Busy
  BY DEF vars, Runners, Busy
<1>. QED
  BY <1>1 DEF vars, PoolInv, TypeOK, NoItemTwice, IndexInv, RunnerInv, OutcomeInv

\* The inductive invariant of the pool, for every length and concurrency.
THEOREM PoolInvariant == Spec => []PoolInv
<1>1. PoolInv /\ [Next]_vars => PoolInv'
  <2> SUFFICES ASSUME PoolInv, [Next]_vars PROVE PoolInv'
    OBVIOUS
  <2>1. CASE Call
    BY <2>1, CallPoolInv
  <2>2. ASSUME NEW r \in Runners, RunnerStep(r) PROVE PoolInv'
    BY <2>2, ClaimPoolInv, StorePoolInv, RejectPoolInv, LeavePoolInv DEF RunnerStep
  <2>3. CASE ResolveAll
    BY <2>3, ResolveAllPoolInv
  <2>4. CASE UNCHANGED vars
    BY <2>4, StutterPoolInv
  <2>. QED
    BY <2>1, <2>2, <2>3, <2>4 DEF Next
<1>. QED
  BY <1>1, InitPoolInv, PTL DEF Spec

\* runPool never hands an item to two workers.
THEOREM NoItemTwiceHolds == Spec => []NoItemTwice
<1>1. PoolInv => NoItemTwice
  BY DEF PoolInv
<1>. QED
  BY <1>1, PoolInvariant, PTL

LEMMA ResolvedIsComplete ==
  ASSUME PoolInv, \A r \in Runners : at[r] = "returned", thrown = {}
  PROVE  finished = 1 .. length
<1>1. Busy = {}
  BY DEF Busy
<1>2. 1 .. index = finished
  BY <1>1 DEF PoolInv, IndexInv
<1>3. CASE Width(limit, length) = 0
  BY <1>2, <1>3, WidthFacts DEF PoolInv, IndexInv, TypeOK
<1>4. CASE Width(limit, length) # 0
  <2>1. 1 \in Runners
    BY <1>4, WidthFacts DEF PoolInv, Runners
  <2>2. index = length
    BY <2>1 DEF PoolInv, RunnerInv
  <2>. QED
    BY <1>2, <2>2
<1>. QED
  BY <1>3, <1>4

\* When the awaited call returns normally, every item has been worked on.
THEOREM ResolvedMeansAllRanHolds == Spec => []ResolvedMeansAllRan
<1>1. PoolInv => ResolvedMeansAllRan
  <2> SUFFICES ASSUME PoolInv, outcome = "resolved"
               PROVE  finished = 1 .. length
    BY DEF ResolvedMeansAllRan
  <2>1. \A r \in Runners : at[r] = "returned"
    BY DEF PoolInv, OutcomeInv
  <2>2. thrown = {}
    BY DEF PoolInv, RunnerInv
  <2>. QED
    BY <2>1, <2>2, ResolvedIsComplete
<1>. QED
  BY <1>1, PoolInvariant, PTL

-----------------------------------------------------------------------------
(***************************************************************************)
(* Refinement: the cursor is the set of started items.                     *)
(***************************************************************************)

\* The instance's operators on finite sets are the usual ones.
LEMMA SameFiniteSets ==
  /\ \A S : Contract!IsFiniteSet(S) <=> IsFiniteSet(S)
  /\ \A S : Contract!Cardinality(S) = Cardinality(S)
<1>1. \A S : Contract!IsFiniteSet(S) <=> IsFiniteSet(S)
  BY DEF Contract!IsFiniteSet, IsFiniteSet
<1>2. \A S : Contract!Cardinality(S) = Cardinality(S)
  BY DEF Contract!Cardinality, Cardinality
<1>. QED
  BY <1>1, <1>2

\* What the contract calls in progress is what the busy runners hold.
LEMMA InProgressIsHeld ==
  ASSUME PoolInv
  PROVE  Contract!InProgress = {holds[r] : r \in Busy}
BY DEF PoolInv, IndexInv, NoItemTwice, Contract!InProgress

\* A runner about to claim is not busy, so fewer than "limit" items are held.
LEMMA RoomForClaim ==
  ASSUME PoolInv, NEW r \in Runners, at[r] = "loop"
  PROVE  /\ IsFiniteSet(Contract!InProgress)
         /\ Cardinality(Contract!InProgress) < limit
<1>1. /\ IsFiniteSet(Runners)
      /\ Cardinality(Runners) <= limit
  <2>1. /\ Width(limit, length) \in Nat
        /\ Width(limit, length) <= limit
    BY WidthFacts DEF PoolInv
  <2>2. /\ IsFiniteSet(Runners)
        /\ Cardinality(Runners) = IF 1 > Width(limit, length) THEN 0
                                  ELSE Width(limit, length) - 1 + 1
    BY <2>1, FS_Interval DEF Runners
  <2>. QED
    BY <2>1, <2>2 DEF PoolInv, TypeOK
<1>2. /\ IsFiniteSet(Runners \ {r})
      /\ Cardinality(Runners \ {r}) = Cardinality(Runners) - 1
  BY <1>1, FS_RemoveElement
<1>3. Busy \in SUBSET (Runners \ {r})
  BY DEF Busy
<1>4. /\ IsFiniteSet(Busy)
      /\ Cardinality(Busy) <= Cardinality(Runners \ {r})
  BY <1>2, <1>3, FS_Subset
<1> DEFINE Held == {holds[q] : q \in Busy}
           f == [q \in Busy |-> holds[q]]
<1>5. f \in Surjection(Busy, Held)
  BY DEF Surjection
<1>6. IsFiniteSet(Held) /\ Cardinality(Held) <= Cardinality(Busy)
  <2> HIDE DEF Held, f
  <2>. QED
    BY <1>4, <1>5, FS_Surjection
<1>7. /\ Cardinality(Runners) \in Nat /\ Cardinality(Busy) \in Nat
      /\ Cardinality(Held) \in Nat /\ limit \in Nat
  BY <1>1, <1>4, <1>6, FS_CardinalityType DEF PoolInv, TypeOK
<1>. QED
  BY <1>1, <1>2, <1>4, <1>6, <1>7, InProgressIsHeld

LEMMA CallOpens ==
  ASSUME PoolInv, Call
  PROVE  Contract!Open
<1>1. PICK n \in Lengths, c \in Concurrencies :
        length' = n /\ limit' = AtLeastOne(c)
  BY DEF Call
<1>2. n \in Nat /\ c \in Int
  BY LengthsAssumption, ConcurrenciesAssumption
<1>3. IsFiniteSet(1 .. length')
  BY <1>1, <1>2, FS_Interval
<1>4. limit' \in Nat \ {0}
  BY <1>1, <1>2, LimitFacts
<1>5. index = 0 /\ finished = {} /\ thrown = {}
  BY DEF Call, PoolInv, OutcomeInv, IndexInv, TypeOK, Busy, Runners, Width
<1>. QED
  BY <1>3, <1>4, <1>5, SameFiniteSets DEF Call, Contract!Open

LEMMA ClaimStarts ==
  ASSUME PoolInv, NEW r \in Runners, Claim(r)
  PROVE  Contract!Start
<1>1. at[r] = "loop" /\ index < length
  BY DEF Claim
<1>2. Cardinality(Contract!InProgress) < limit
  BY <1>1, RoomForClaim
<1>3. index + 1 \in (1 .. length) \ (1 .. index)
  BY <1>1 DEF PoolInv, TypeOK
<1>4. 1 .. index' = (1 .. index) \cup {index + 1}
  BY ClaimPoolInv
<1>5. outcome \in {"pending", "rejected"}
  BY <1>1 DEF PoolInv, OutcomeInv, TypeOK
<1>. QED
  BY <1>2, <1>3, <1>4, <1>5, SameFiniteSets DEF Claim, Contract!Start

\* Only a pool that is pending or rejected has a busy runner.
LEMMA BusyMeansOpen ==
  ASSUME PoolInv, NEW r \in Busy
  PROVE  /\ outcome \in {"pending", "rejected"}
         /\ holds[r] \in Contract!InProgress
<1>1. outcome # "resolved"
  BY DEF PoolInv, OutcomeInv, Busy
<1>2. outcome # "idle"
  BY DEF PoolInv, OutcomeInv, Busy, Runners, Width, TypeOK
<1>. QED
  BY <1>1, <1>2, InProgressIsHeld DEF PoolInv, TypeOK

LEMMA StoreFinishes ==
  ASSUME PoolInv, NEW r \in Runners, Store(r)
  PROVE  Contract!Finish
<1>1. r \in Busy
  BY DEF Store, Busy
<1>. QED
  BY <1>1, BusyMeansOpen DEF Store, Contract!Finish

LEMMA RejectThrows ==
  ASSUME PoolInv, NEW r \in Runners, Reject(r)
  PROVE  Contract!Throw
<1>1. r \in Busy
  BY DEF Reject, Busy
<1>. QED
  BY <1>1, BusyMeansOpen DEF Reject, Contract!Throw

LEMMA ResolveAllResolves ==
  ASSUME PoolInv, ResolveAll
  PROVE  Contract!Resolve
<1>1. thrown = {}
  BY DEF PoolInv, RunnerInv, ResolveAll
<1>2. finished = 1 .. length
  BY <1>1, ResolvedIsComplete DEF ResolveAll
<1>. QED
  BY <1>1, <1>2 DEF ResolveAll, Contract!Resolve

\* runPool implements the contract: at most "limit" in progress, each item
\* started at most once, resolved only when all ended, rejected on a throw.
THEOREM PoolImplementsContract == Spec => ImplementsContract
<1>1. Init => Contract!ContractInit
  BY DEF Init, Contract!ContractInit
<1>2. PoolInv /\ [Next]_vars => [Contract!ContractNext]_(Contract!contractVars)
  <2> SUFFICES ASSUME PoolInv, [Next]_vars
               PROVE  [Contract!ContractNext]_(Contract!contractVars)
    OBVIOUS
  <2>1. CASE Call
    BY <2>1, CallOpens DEF Contract!ContractNext
  <2>2. ASSUME NEW r \in Runners, Claim(r) PROVE Contract!ContractNext
    BY <2>2, ClaimStarts DEF Contract!ContractNext
  <2>3. ASSUME NEW r \in Runners, Store(r) PROVE Contract!ContractNext
    BY <2>3, StoreFinishes DEF Contract!ContractNext
  <2>4. ASSUME NEW r \in Runners, Reject(r) PROVE Contract!ContractNext
    BY <2>4, RejectThrows DEF Contract!ContractNext
  <2>5. ASSUME NEW r \in Runners, Leave(r) PROVE UNCHANGED Contract!contractVars
    BY <2>5 DEF Leave, Contract!contractVars
  <2>6. CASE ResolveAll
    BY <2>6, ResolveAllResolves DEF Contract!ContractNext
  <2>7. CASE UNCHANGED vars
    BY <2>7 DEF vars, Contract!contractVars
  <2>. QED
    BY <2>1, <2>2, <2>3, <2>4, <2>5, <2>6, <2>7 DEF Next, RunnerStep
<1>. QED
  BY <1>1, <1>2, PoolInvariant, PTL DEF Spec, ImplementsContract, Contract!ContractSpec
=============================================================================
