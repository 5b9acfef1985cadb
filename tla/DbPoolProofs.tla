---------------------------- MODULE DbPoolProofs ---------------------------
(***************************************************************************)
(* Proofs about DbPool, for every finite set of visits and every value of  *)
(* the other constants.                                                    *)
(***************************************************************************)
EXTENDS DbPool, FiniteSetTheorems, TLAPS

(* What a handler is doing says whether its session holds a connection.    *)
Holds(r) == \/ pc[r] \in {"querying", "rereading"}
            \/ pc[r] = "fetching" /\ kind[r] = "dashboard"

PhaseInv == \A r \in Requests : r \in holding <=> Holds(r)

CountInv == free + Cardinality(holding) = Capacity

(* How long the waits and the fetch before this point have taken at most.  *)
Spent(r) ==
    CASE pc[r] \in {"new", "loaded"} -> 0
      [] pc[r] = "fetching" -> IF kind[r] = "save" THEN fetched[r] ELSE PoolTimeout + fetched[r]
      [] pc[r] = "waiting" -> IF kind[r] = "save" THEN FetchLimit + waited[r] ELSE waited[r]
      [] pc[r] = "rewaiting" -> IF kind[r] = "save" THEN FetchLimit + PoolTimeout + waited[r]
                                                    ELSE waited[r]
      [] pc[r] = "querying" -> IF kind[r] = "save" THEN FetchLimit + PoolTimeout
                                                   ELSE PoolTimeout
      [] pc[r] = "rereading" -> IF kind[r] = "save" THEN FetchLimit + 2 * PoolTimeout
                                                    ELSE PoolTimeout
      [] OTHER -> IF kind[r] = "save" THEN FetchLimit + 2 * PoolTimeout
                                      ELSE FetchLimit + PoolTimeout

TimeInv == \A r \in Requests : /\ fetched[r] <= FetchLimit
                               /\ waited[r] <= PoolTimeout
                               /\ age[r] <= Spent(r)
                               /\ Waiting(r) \/ waited[r] = 0
                               /\ kind[r] = "settings" => pc[r] \notin {"loaded", "rewaiting"}

(* The visits that are over, or that were fetching with a connection when  *)
(* a wait of w ticks began.                                                *)
Outlived(w) == {h \in Requests : \/ pc[h] = "done"
                                 \/ /\ pc[h] = "fetching" /\ kind[h] = "dashboard"
                                    /\ fetched[h] >= w}

(* Whoever waits has seen every connection in another's hands.             *)
ServedInv == \A r \in Requests : Waiting(r) /\ waited[r] >= 1
                                    => Cardinality(Outlived(waited[r])) >= Capacity

RefusedInv == FetchLimit < PoolTimeout /\ (\E r \in Requests : pc[r] = "refused")
                => Cardinality(Begun) > 2 * Capacity

IInv == TypeOK /\ PhaseInv /\ CountInv

----------------------------------------------------------------------------
USE RequestsAssumption, CapacityAssumption, PoolTimeoutAssumption, FetchLimitAssumption

(* A set of visits is finite and has a size.                               *)
LEMMA HoldingSize == ASSUME TypeOK
                     PROVE  IsFiniteSet(holding) /\ Cardinality(holding) \in Nat
BY FS_Subset, FS_CardinalityType DEF TypeOK

(* Giving a connection back, held or not, keeps the count.                 *)
LEMMA ReleaseKeepsCount ==
    ASSUME TypeOK, CountInv, NEW r \in Requests, Release(r)
    PROVE  /\ CountInv' /\ holding' = holding \ {r}
           /\ free' \in 0..Capacity
<1>1. CASE r \in holding
  <2>1. /\ holding' = holding \ {r} /\ free' = free + 1
    BY <1>1 DEF Release
  <2>2. Cardinality(holding') = Cardinality(holding) - 1 /\ Cardinality(holding') \in Nat
    BY <1>1, <2>1, HoldingSize, FS_RemoveElement, FS_CardinalityType
  <2> QED
    BY <2>1, <2>2, HoldingSize DEF CountInv, TypeOK
<1>2. CASE r \notin holding
  BY <1>2 DEF Release, CountInv, TypeOK
<1> QED
  BY <1>1, <1>2

(* The steps that end a request or otherwise release a connection.         *)
Releases(r) == Unauthenticated(r) \/ HandlerRaises(r) \/ ReadDone(r) \/ PageDone(r)
                  \/ TilesWithout(r) \/ TilesDone(r) \/ Commit(r)

(* The inductive invariant is kept by every step of every visit.           *)
LEMMA InvStep == IInv /\ [Next]_vars => IInv'
<1> SUFFICES ASSUME IInv, [Next]_vars PROVE IInv'
  OBVIOUS
<1>0. TypeOK /\ PhaseInv /\ CountInv
  BY DEF IInv
<1> USE DEF IInv
<1>1. ASSUME NEW r \in Requests, Start(r) PROVE IInv'
  BY <1>1, <1>0 DEF Start, Goto, TypeOK, PhaseInv, CountInv, Holds
<1>2. ASSUME NEW r \in Requests, Checkout(r) PROVE IInv'
  <2>1. /\ r \notin holding /\ free' = free - 1 /\ free > 0 /\ holding' = holding \cup {r}
    BY <1>2, <1>0 DEF Checkout, Available, PhaseInv, Holds
  <2>2. CountInv' /\ free' \in 0..Capacity
    <3>1. Cardinality(holding') = Cardinality(holding) + 1
      BY <2>1, <1>0, HoldingSize, FS_AddElement
    <3>2. Cardinality(holding) \in Nat
      BY <1>0, HoldingSize
    <3> QED
      BY <2>1, <3>1, <3>2, <1>0 DEF CountInv, TypeOK
  <2>3. TypeOK'
    BY <1>2, <2>1, <2>2, <1>0 DEF Checkout, Goto, TypeOK
  <2>4. PhaseInv'
    BY <1>2, <2>1, <1>0 DEF Checkout, Goto, TypeOK, PhaseInv, Holds
  <2> QED
    BY <2>2, <2>3, <2>4
<1>3. ASSUME NEW r \in Requests, CheckoutFails(r) \/ Load(r) PROVE IInv'
  BY <1>3, <1>0 DEF CheckoutFails, CheckoutDue, Ends, Load, Goto, TypeOK, PhaseInv, CountInv, Holds
<1>4. ASSUME NEW r \in Requests, Releases(r) PROVE IInv'
  <2>1. /\ Release(r)
        /\ \E l \in {"done", "failed", "rewaiting", "loaded"} : Goto(r, l)
        /\ \/ \E v \in {"loading", "answer"} : Show(r, v)
           \/ UNCHANGED view
        /\ \/ Ends(r, pc'[r])
           \/ UNCHANGED <<kind, waited, fetched, age>>
    BY <1>4, <1>0 DEF Releases, Unauthenticated, HandlerRaises, ReadDone, PageDone, TilesWithout,
                      TilesDone, Commit, Answer, Ends, Goto, TypeOK
  <2>2. /\ CountInv' /\ holding' = holding \ {r} /\ free' \in 0..Capacity
    BY <2>1, <1>0, ReleaseKeepsCount
  <2>3. TypeOK'
    BY <2>1, <2>2, <1>0 DEF Goto, Show, Ends, TypeOK
  <2>4. PhaseInv'
    BY <2>1, <2>2, <1>0 DEF Goto, Ends, TypeOK, PhaseInv, Holds
  <2> QED
    BY <2>2, <2>3, <2>4
<1>5. ASSUME NEW r \in Requests, TilesFetch(r) \/ SaveFetched(r) PROVE IInv'
  BY <1>5, <1>0 DEF TilesFetch, SaveFetched, Goto, TypeOK, PhaseInv, CountInv, Holds
<1>6. CASE Tick
  <2>1. \A r \in Requests : fetched'[r] \in Nat /\ waited'[r] \in Nat /\ age'[r] \in Nat
    BY <1>6, <1>0 DEF Tick, TypeOK
  <2> QED
    BY <1>6, <2>1, <1>0 DEF Tick, TypeOK, PhaseInv, CountInv, Holds
<1>7. CASE UNCHANGED vars
  BY <1>7, <1>0 DEF vars, TypeOK, PhaseInv, CountInv, Holds
<1> QED
  BY <1>1, <1>2, <1>3, <1>4, <1>5, <1>6, <1>7 DEF Next, Step, Releases

(* The inductive invariant holds in every behaviour.                       *)
THEOREM Invariance == Spec => []IInv
<1>1. Init => IInv
  <2> SUFFICES ASSUME Init PROVE IInv
    OBVIOUS
  <2>1. TypeOK /\ PhaseInv
    BY DEF Init, TypeOK, PhaseInv, Holds
  <2>2. CountInv
    BY FS_EmptySet DEF Init, CountInv
  <2> QED
    BY <2>1, <2>2 DEF IInv
<1> QED
  BY <1>1, InvStep, PTL DEF Spec

(* Every variable of the pool and of its visits keeps its type.            *)
THEOREM TypeCorrect == Spec => []TypeOK
<1>1. IInv => TypeOK
  BY DEF IInv
<1> QED
  BY <1>1, Invariance, PTL

(* The pool neither loses nor invents a connection.                        *)
THEOREM Accounting == Spec => []ConnectionsAreAccounted
<1>1. IInv => ConnectionsAreAccounted
  BY DEF IInv, TypeOK, PhaseInv, CountInv, Holds, ConnectionsAreAccounted, Active
<1> QED
  BY <1>1, Invariance, PTL

(* Time passes for a waiting visit only when all connections are fetching. *)
LEMMA WaitsForTiles ==
    ASSUME IInv, Tick, NEW r \in Requests, Waiting(r)
    PROVE  /\ Cardinality(holding) = Capacity /\ free = 0
           /\ \A h \in holding : kind[h] = "dashboard" /\ pc[h] = "fetching"
<1>1. free = 0
  BY DEF Tick, Due, Available, IInv, TypeOK
<1>2. Cardinality(holding) = Capacity
  BY <1>1, HoldingSize DEF IInv, CountInv
<1>3. \A h \in holding : kind[h] = "dashboard" /\ pc[h] = "fetching"
  BY DEF Tick, Due, IInv, TypeOK, PhaseInv, Holds
<1> QED
  BY <1>1, <1>2, <1>3

(* Waiting is always for fetching tiles.                                   *)
THEOREM WaitsAreTheTiles == Spec => OnlyTilesMakeOthersWait
<1> DEFINE A == \A r \in Requests : waited'[r] > waited[r] =>
                  /\ Cardinality(holding) = Capacity
                  /\ \A h \in holding : kind[h] = "dashboard" /\ pc[h] = "fetching"
<1>1. ASSUME IInv, [Next]_vars PROVE [A]_vars
  <2>1. CASE Tick
    <3>1. ASSUME NEW r \in Requests, waited'[r] > waited[r] PROVE Waiting(r)
      BY <2>1, <3>1, <1>1 DEF Tick, IInv, TypeOK
    <3> QED
      BY <2>1, <3>1, <1>1, WaitsForTiles
  <2>2. ASSUME NEW q \in Requests, Step(q) PROVE A
    <3>1. UNCHANGED waited \/ waited' = [waited EXCEPT ![q] = 0]
      BY <2>2 DEF Step, Start, Unauthenticated, Checkout, CheckoutFails, HandlerRaises,
          ReadDone, PageDone, Load, TilesWithout, TilesFetch, TilesDone, SaveFetched, Commit,
          Answer, Ends
    <3> QED
      BY <3>1, <1>1 DEF IInv, TypeOK
  <2> QED
    BY <2>1, <2>2, <1>1 DEF Next
<1> QED
  BY <1>1, Invariance, PTL DEF Spec, OnlyTilesMakeOthersWait

----------------------------------------------------------------------------
(* Time.                                                                   *)
LEMMA TimeStep == IInv /\ TimeInv /\ [Next]_vars => TimeInv'
<1> SUFFICES ASSUME IInv, TimeInv, [Next]_vars PROVE TimeInv'
  OBVIOUS
<1>0. TypeOK
  BY DEF IInv
<1> USE DEF TimeInv, Spent, Waiting
<1>1. CASE Tick
  <2> SUFFICES ASSUME NEW r \in Requests
               PROVE  /\ fetched'[r] <= FetchLimit /\ waited'[r] <= PoolTimeout
                      /\ age'[r] <= Spent(r)'
                      /\ Waiting(r)' \/ waited'[r] = 0
                      /\ kind'[r] = "settings" => pc'[r] \notin {"loaded", "rewaiting"}
    BY <1>0
  <2>1. CASE Waiting(r)
    <3>1. waited[r] < PoolTimeout /\ waited'[r] = waited[r] + 1 /\ age'[r] = age[r] + 1
      BY <1>0, <1>1, <2>1 DEF Tick, Due, CheckoutDue, TypeOK
    <3>2. fetched'[r] = fetched[r]
      BY <1>0, <1>1, <2>1 DEF Tick, Waiting, TypeOK
    <3> QED
      BY <1>0, <1>1, <2>1, <3>1, <3>2 DEF Tick, Waiting, TypeOK
  <2>2. CASE pc[r] = "fetching"
    <3>1. fetched[r] < FetchLimit /\ fetched'[r] = fetched[r] + 1 /\ age'[r] = age[r] + 1
      BY <1>0, <1>1, <2>2 DEF Tick, Due, FetchDue, Waiting, TypeOK
    <3> QED
      BY <1>0, <1>1, <2>2, <3>1 DEF Tick, Waiting, TypeOK
  <2>3. CASE ~Waiting(r) /\ pc[r] # "fetching"
    <3>1. fetched'[r] = fetched[r] /\ waited'[r] = waited[r] /\ age'[r] = age[r]
      BY <1>0, <1>1, <2>3 DEF Tick, TypeOK
    <3> QED
      BY <1>0, <1>1, <2>3, <3>1 DEF Tick, Waiting, TypeOK
  <2> QED
    BY <2>1, <2>2, <2>3
<1>2. ASSUME NEW r \in Requests, Start(r) \/ Unauthenticated(r) PROVE TimeInv'
  BY <1>2, <1>0 DEF Start, Unauthenticated, Answer, Ends, Goto, TypeOK, Kinds
<1>3. ASSUME NEW r \in Requests, Checkout(r) PROVE TimeInv'
  BY <1>3, <1>0 DEF Checkout, Goto, TypeOK, Kinds
<1>4. ASSUME NEW r \in Requests, CheckoutFails(r) \/ HandlerRaises(r) PROVE TimeInv'
  BY <1>4, <1>0 DEF CheckoutFails, HandlerRaises, Ends, Goto, TypeOK, Kinds
<1>5. ASSUME NEW r \in Requests, ReadDone(r) \/ PageDone(r) \/ Load(r) PROVE TimeInv'
  BY <1>5, <1>0 DEF ReadDone, PageDone, Load, Answer, Ends, Goto, TypeOK, Kinds
<1>6. ASSUME NEW r \in Requests, TilesWithout(r) \/ TilesFetch(r) \/ TilesDone(r) PROVE TimeInv'
  BY <1>6, <1>0 DEF TilesWithout, TilesFetch, TilesDone, Answer, Ends, Goto, TypeOK, Kinds
<1>7. ASSUME NEW r \in Requests, SaveFetched(r) \/ Commit(r) PROVE TimeInv'
  BY <1>7, <1>0 DEF SaveFetched, Commit, Goto, TypeOK, Kinds
<1>8. CASE UNCHANGED vars
  BY <1>8, <1>0 DEF vars
<1> QED
  BY <1>1, <1>2, <1>3, <1>4, <1>5, <1>6, <1>7, <1>8 DEF Next, Step

(* The bounds on time hold in every behaviour.                             *)
LEMMA TimeInvariance == Spec => []TimeInv
<1>1. Init => TimeInv
  BY DEF Init, TimeInv, Spent, Kinds, Waiting
<1> QED
  BY <1>1, TimeStep, Invariance, PTL DEF Spec

(* Every request is answered or refused within two waits and a fetch.      *)
THEOREM AnswerBound == Spec => []AnswerIsBounded
<1>1. IInv /\ TimeInv => AnswerIsBounded
  <2> SUFFICES ASSUME IInv, TimeInv, NEW r \in Requests
               PROVE  age[r] <= PoolTimeout + FetchLimit
                                  + (IF kind[r] = "save" THEN PoolTimeout ELSE 0)
    BY DEF AnswerIsBounded
  <2>1. /\ age[r] \in Nat /\ waited[r] \in 0..PoolTimeout /\ fetched[r] \in 0..FetchLimit
        /\ age[r] <= Spent(r) /\ kind[r] \in Kinds
        /\ pc[r] \in {"new", "waiting", "querying", "loaded", "fetching", "rewaiting",
                      "rereading", "done", "refused", "failed"}
    BY DEF IInv, TypeOK, TimeInv
  <2> QED
    BY <2>1 DEF Spent, Kinds
<1> QED
  BY <1>1, Invariance, TimeInvariance, PTL

(* Only the tiles hold a connection while they talk to Home Assistant, and *)
(* for no longer than a fetch lasts.                                       *)
THEOREM OnlyTilesHoldThroughFetch == Spec => []HeldThroughFetchOnlyByTiles
<1>1. IInv /\ TimeInv => HeldThroughFetchOnlyByTiles
  BY DEF IInv, TypeOK, PhaseInv, TimeInv, Holds, HeldThroughFetchOnlyByTiles
<1> QED
  BY <1>1, Invariance, TimeInvariance, PTL

----------------------------------------------------------------------------
(* Refusals.                                                               *)

(* Sets of visits: finite, and larger ones are no smaller.                 *)
LEMMA VisitSets ==
    ASSUME NEW A \in SUBSET Requests, NEW B \in SUBSET Requests, A \subseteq B
    PROVE  /\ IsFiniteSet(A) /\ IsFiniteSet(B)
           /\ Cardinality(A) \in Nat /\ Cardinality(B) \in Nat
           /\ Cardinality(A) <= Cardinality(B)
BY FS_Subset, FS_CardinalityType

(* A visit's step takes nobody out of Outlived.                            *)
LEMMA OutlivedGrows ==
    ASSUME IInv, NEW q \in Requests, Step(q), NEW w \in Nat
    PROVE  Outlived(w) \subseteq Outlived(w)'
<1>1. ASSUME NEW h \in Outlived(w) PROVE h \in Outlived(w)'
  <2>1. CASE h # q
    <3>1. pc'[h] = pc[h] /\ kind'[h] = kind[h] /\ fetched'[h] = fetched[h]
      BY <1>1, <2>1 DEF IInv, TypeOK, Outlived, Step, Start, Unauthenticated, Checkout,
                        CheckoutFails, HandlerRaises, ReadDone, PageDone, Load, TilesWithout,
                        TilesFetch, TilesDone, SaveFetched, Commit, Answer, Ends, Goto
    <3> QED
      BY <1>1, <3>1 DEF Outlived
  <2>2. CASE h = q
    <3>1. TilesDone(q)
      BY <1>1, <2>2 DEF Outlived, Step, Start, Unauthenticated, Checkout, CheckoutFails,
                        CheckoutDue, HandlerRaises, MayRaise, ReadDone, PageDone, Load,
                        TilesWithout, TilesFetch, SaveFetched, Commit
    <3> QED
      BY <1>1, <2>2, <3>1 DEF TilesDone, Answer, Ends, Goto, IInv, TypeOK, Outlived
  <2> QED
    BY <2>1, <2>2
<1> QED
  BY <1>1

(* A visit that waits has outlived as many fetches as there are connections.*)
LEMMA ServedStep == IInv /\ TimeInv /\ ServedInv /\ [Next]_vars => ServedInv'
<1> SUFFICES ASSUME IInv, TimeInv, ServedInv, [Next]_vars, NEW r \in Requests,
                    Waiting(r)', waited'[r] >= 1
             PROVE  Cardinality(Outlived(waited[r])') >= Capacity
  BY DEF ServedInv
<1>0. TypeOK /\ TypeOK'
  BY InvStep DEF IInv
<1>1. CASE Tick
  <2>1. Waiting(r) /\ waited'[r] = waited[r] + 1 /\ waited[r] \in Nat
    BY <1>0, <1>1 DEF Tick, Waiting, TypeOK
  <2>2. CASE waited[r] = 0
    <3>1. holding \subseteq Outlived(waited[r])'
      BY <1>0, <1>1, <2>1, <2>2, WaitsForTiles DEF Tick, TypeOK, Outlived
    <3> QED
      BY <1>1, <2>1, <3>1, <1>0, WaitsForTiles, VisitSets DEF Outlived, TypeOK
  <2>3. CASE waited[r] >= 1
    <3>1. Outlived(waited[r]) \subseteq Outlived(waited[r])'
      BY <1>0, <1>1, <2>1 DEF Tick, TypeOK, Outlived
    <3>2. Cardinality(Outlived(waited[r])) >= Capacity
      BY <2>1, <2>3 DEF ServedInv
    <3> QED
      BY <3>1, <3>2, VisitSets DEF Outlived
  <2> QED
    BY <2>1, <2>2, <2>3
<1>2. ASSUME NEW q \in Requests, Step(q) PROVE Cardinality(Outlived(waited[r])') >= Capacity
  <2>1. UNCHANGED waited \/ waited' = [waited EXCEPT ![q] = 0]
    BY <1>2 DEF Step, Start, Unauthenticated, Checkout, CheckoutFails, HandlerRaises,
        ReadDone, PageDone, Load, TilesWithout, TilesFetch, TilesDone, SaveFetched, Commit,
        Answer, Ends
  <2>2. waited'[r] = waited[r]
    BY <2>1, <1>0 DEF TypeOK
  <2>3. Waiting(r)
    BY <2>2, <1>0 DEF TimeInv
  <2>4. waited[r] \in Nat /\ Outlived(waited[r]) \subseteq Outlived(waited[r])'
    <3>1. ASSUME NEW w \in Nat, w = waited[r], w = waited'[r]
          PROVE  Outlived(waited[r]) \subseteq Outlived(waited[r])'
      BY <1>2, <3>1, OutlivedGrows DEF Outlived
    <3> QED
      BY <1>0, <2>2, <3>1 DEF TypeOK
  <2>5. Cardinality(Outlived(waited[r])) >= Capacity
    BY <2>2, <2>3 DEF ServedInv
  <2> QED
    BY <2>4, <2>5, VisitSets DEF Outlived
<1>3. CASE UNCHANGED vars
  BY <1>3 DEF vars, ServedInv, Outlived, Waiting
<1> QED
  BY <1>1, <1>2, <1>3 DEF Next

LEMMA ServedInvariance == Spec => []ServedInv
<1>1. Init => ServedInv
  BY DEF Init, ServedInv
<1> QED
  BY <1>1, ServedStep, Invariance, TimeInvariance, PTL DEF Spec

(* A refusal counts more than twice as many visits as connections: those   *)
(* outlived, those holding one now, and the one refused.                   *)
LEMMA RefusalCounts ==
    ASSUME IInv, TimeInv, ServedInv, FetchLimit < PoolTimeout,
           NEW r \in Requests, CheckoutFails(r)
    PROVE  Cardinality(Begun) > 2 * Capacity
<1> DEFINE O == Outlived(waited[r])
<1>0. TypeOK /\ waited[r] \in Nat
  BY DEF IInv, TypeOK
<1>1. waited[r] > FetchLimit /\ waited[r] >= 1 /\ Waiting(r)
  BY <1>0 DEF CheckoutFails, CheckoutDue, Waiting
<1>2. O \subseteq Begun /\ O \in SUBSET Requests
  BY DEF Outlived, Begun
<1>3. holding \subseteq Begun /\ holding \in SUBSET Requests
  BY <1>0 DEF IInv, PhaseInv, Holds, Begun, TypeOK
<1>4. O \cap holding = {}
  BY <1>0, <1>1 DEF IInv, PhaseInv, Holds, Outlived, TimeInv, TypeOK
<1>5. r \notin O \cup holding /\ r \in Begun
  BY <1>1 DEF IInv, PhaseInv, Holds, Outlived, Waiting, Begun
<1>6. Cardinality(O) >= Capacity
  BY <1>1 DEF ServedInv
<1>7. Cardinality(holding) = Capacity
  BY <1>0, HoldingSize DEF IInv, CountInv, TypeOK, CheckoutFails, Available
<1>8. Cardinality(O \cup holding) = Cardinality(O) + Cardinality(holding)
  <2>1. IsFiniteSet(O) /\ IsFiniteSet(holding) /\ Cardinality(O) \in Nat
    BY <1>2, <1>3, VisitSets
  <2>2. Cardinality(O \cap holding) = 0
    BY <1>4, FS_EmptySet
  <2>3. Cardinality(O \cup holding)
          = Cardinality(O) + Cardinality(holding) - Cardinality(O \cap holding)
    BY <2>1, FS_Union
  <2> QED
    BY <2>1, <2>2, <2>3, <1>7
<1>9. Cardinality((O \cup holding) \cup {r}) = Cardinality(O \cup holding) + 1
  BY <1>2, <1>3, <1>5, VisitSets, FS_AddElement
<1>10. Cardinality((O \cup holding) \cup {r}) <= Cardinality(Begun)
  BY <1>2, <1>3, <1>5, VisitSets DEF Begun
<1> QED
  BY <1>2, <1>6, <1>7, <1>8, <1>9, <1>10, VisitSets DEF Begun

LEMMA RefusedStep == IInv /\ TimeInv /\ ServedInv /\ RefusedInv /\ [Next]_vars => RefusedInv'
<1> SUFFICES ASSUME IInv, TimeInv, ServedInv, RefusedInv, [Next]_vars, FetchLimit < PoolTimeout,
                    NEW r \in Requests, pc'[r] = "refused"
             PROVE  Cardinality(Begun') > 2 * Capacity
  BY DEF RefusedInv
<1>0. TypeOK
  BY DEF IInv
<1>1. Begun \subseteq Begun'
  <2>1. ASSUME NEW q \in Requests, Step(q) PROVE Begun \subseteq Begun'
    BY <2>1, <1>0 DEF Step, Start, Unauthenticated, Checkout, CheckoutFails, HandlerRaises,
          MayRaise, CheckoutDue, ReadDone, PageDone, Load, TilesWithout, TilesFetch, TilesDone,
          SaveFetched, Commit, Answer, Ends, Goto, TypeOK, Begun
  <2> QED
    BY <2>1 DEF Next, Tick, vars, Begun
<1>2. Cardinality(Begun) > 2 * Capacity
  <2>1. CASE pc[r] = "refused"
    BY <2>1 DEF RefusedInv
  <2>2. CASE pc[r] # "refused"
    <3>1. CheckoutFails(r)
      BY <2>2, <1>0 DEF Next, Tick, vars, Step, Start, Unauthenticated, Checkout, CheckoutFails,
          HandlerRaises, ReadDone, PageDone, Load, TilesWithout, TilesFetch, TilesDone,
          SaveFetched, Commit, Answer, Ends, Goto, TypeOK
    <3> QED
      BY <3>1, RefusalCounts
  <2> QED
    BY <2>1, <2>2
<1> QED
  BY <1>1, <1>2, VisitSets DEF Begun

(* With a fetch shorter than the pool's patience, up to twice as many      *)
(* visits as connections are all served.                                   *)
THEOREM NoRefusal == Spec => []NobodyIsTurnedAway
<1>1. Init => RefusedInv
  BY DEF Init, RefusedInv
<1>2. RefusedInv => NobodyIsTurnedAway
  <2> SUFFICES ASSUME RefusedInv, FetchLimit < PoolTimeout, Cardinality(Begun) <= 2 * Capacity,
                      NEW r \in Requests, pc[r] = "refused"
               PROVE  FALSE
    BY DEF NobodyIsTurnedAway
  <2>1. Cardinality(Begun) \in Nat
    BY VisitSets DEF Begun
  <2> QED
    BY <2>1 DEF RefusedInv
<1> QED
  BY <1>1, <1>2, RefusedStep, ServedInvariance, TimeInvariance, Invariance, PTL DEF Spec
============================================================================
