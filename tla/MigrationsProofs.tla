-------------------------- MODULE MigrationsProofs -------------------------
(***************************************************************************)
(* Proofs about Migrations, for any number of runs: the types, and, when   *)
(* nothing is downgraded, that an upgrade that exits with 0 has left the   *)
(* database at the head and the service finds its table.                   *)
(*                                                                         *)
(* The argument: upgrades delete nothing but rows of the version table     *)
(* below the head.  So whatever a run has once seen of the objects of a    *)
(* revision stays there for it, however others commit meanwhile, and a row *)
(* of the version table is never without what its revision consists of.    *)
(***************************************************************************)
EXTENDS Migrations, TLAPS

----------------------------------------------------------------------------
(* Between its statements a connection has the transaction its place in    *)
(* env.py says, and a run stamps only a revision it has applied.           *)
TxnAt(l) == CASE l = "handover" -> "caller's"
              [] l \in {"ensure", "migrate", "stamp"} -> "alembic's"
              [] OTHER -> "none"

RunInv == \A r \in Runs : /\ txn[r] = TxnAt(pc[r])
                          /\ pc[r] = "stamp" => Upgrades(r) \/ Downgrades(r)
                          /\ pc[r] = "new" => cmd[r] = "none"

TypeInv == TypeOK /\ RunInv

LEMMA MadeFacts ==
    ASSUME NEW k \in 1..Head, NEW S
    PROVE  Made(k, S) \subseteq Facts /\ Made(k, S) \cap Rows = {}
BY DEF Made, Facts, Built, Head, Rows

LEMMA RevisionFacts ==
    ASSUME NEW k \in 1..Head
    PROVE  /\ Revision[k] \in Facts /\ Revision[k] \in Rows
           /\ Revision[k] = "0003" <=> k = Head
BY DEF Revision, Facts, Built, Head, Rows

LEMMA LevelOfRow ==
    ASSUME NEW S
    PROVE  /\ LevelOf(S) \in 0..Head
           /\ LevelOf(S) # 0 => Revision[LevelOf(S)] \in S
<1>1. CASE S \cap Rows = {}
  BY <1>1 DEF LevelOf, Head
<1>2. CASE S \cap Rows # {}
  <2>1. \E k \in 1..Head : Revision[k] \in S
    <3>1. PICK f \in Rows : f \in S  BY <1>2
    <3>2. f = Revision[1] \/ f = Revision[2] \/ f = Revision[3]  BY DEF Rows, Revision
    <3> QED  BY <3>1, <3>2 DEF Head
  <2>2. LevelOf(S) = CHOOSE k \in 1..Head : Revision[k] \in S  BY <1>2 DEF LevelOf
  <2>3. LevelOf(S) \in 1..Head /\ Revision[LevelOf(S)] \in S  BY <2>1, <2>2
  <2> QED  BY <2>3 DEF Head
<1> QED  BY <1>1, <1>2

LEMMA RowFacts ==
    ASSUME NEW k \in 0..Head
    PROVE  Row(k) \subseteq Facts /\ Row(k) \subseteq Rows
<1>1. CASE k = 0  BY <1>1 DEF Row
<1>2. CASE k \in 1..Head  BY <1>2, RevisionFacts DEF Row, Head
<1> QED  BY <1>1, <1>2 DEF Head

LEMMA NothingTyped == Nothing \in [add : SUBSET Facts, del : SUBSET Facts, locked : SUBSET Facts]
BY DEF Nothing

LEMMA SeesFacts ==
    ASSUME TypeOK, NEW r \in Runs
    PROVE  Sees(r) \subseteq Facts
BY DEF TypeOK, Sees

(* What Change, Install and Discard leave of the types.                    *)
LEMMA ChangeTyped ==
    ASSUME TypeOK, NEW r \in Runs, NEW add, NEW del, NEW locked, Change(r, add, del, locked),
           add \subseteq Facts, del \subseteq Facts, locked \subseteq Facts
    PROVE  /\ work' \in [Runs -> [add : SUBSET Facts, del : SUBSET Facts, locked : SUBSET Facts]]
           /\ \A q \in Runs \ {r} : work'[q] = work[q]
           /\ work'[r].add = (work[r].add \ del) \cup add
           /\ work'[r].del = (work[r].del \ add) \cup del
<1> DEFINE W == [add |-> (work[r].add \ del) \cup add,
                 del |-> (work[r].del \ add) \cup del,
                 locked |-> work[r].locked \cup add \cup del \cup locked]
<1>1. work' = [work EXCEPT ![r] = W]  BY DEF Change
<1>2. work[r] \in [add : SUBSET Facts, del : SUBSET Facts, locked : SUBSET Facts]  BY DEF TypeOK
<1>3. W \in [add : SUBSET Facts, del : SUBSET Facts, locked : SUBSET Facts]  BY <1>2
<1>4. W.add = (work[r].add \ del) \cup add /\ W.del = (work[r].del \ add) \cup del  OBVIOUS
<1> HIDE DEF W
<1> QED  BY <1>1, <1>3, <1>4 DEF TypeOK

LEMMA InstallTyped ==
    ASSUME TypeOK, NEW r \in Runs, Install(r)
    PROVE  /\ db' = Sees(r) /\ db' \subseteq Facts
           /\ raced' \in [Runs -> BOOLEAN]
           /\ work' \in [Runs -> [add : SUBSET Facts, del : SUBSET Facts, locked : SUBSET Facts]]
           /\ work' = [work EXCEPT ![r] = Nothing]
           /\ txn' = [txn EXCEPT ![r] = "none"]
<1>1. raced' \in [Runs -> BOOLEAN]  BY DEF Install
<1>2. work' = [work EXCEPT ![r] = Nothing] /\ txn' = [txn EXCEPT ![r] = "none"] /\ db' = Sees(r)
  BY DEF Install
<1> QED  BY <1>1, <1>2, NothingTyped, SeesFacts DEF TypeOK

LEMMA DiscardTyped ==
    ASSUME TypeOK, NEW r \in Runs, Discard(r)
    PROVE  /\ db' = db /\ raced' = raced
           /\ work' \in [Runs -> [add : SUBSET Facts, del : SUBSET Facts, locked : SUBSET Facts]]
           /\ work' = [work EXCEPT ![r] = Nothing]
           /\ txn' = [txn EXCEPT ![r] = "none"]
BY NothingTyped DEF TypeOK, Discard

----------------------------------------------------------------------------
LEMMA TypeInit == Init => TypeInv
<1> SUFFICES ASSUME Init PROVE TypeInv  OBVIOUS
<1>1. db \subseteq Facts
  <2>1. \A k \in 0..Head : At(k) \subseteq Facts  BY DEF At, Built, Facts, Head, Revision
  <2>2. {"role"} \subseteq Facts  BY DEF Facts, Built, Head
  <2> QED  BY <2>1, <2>2 DEF Init
<1>2. TypeOK
  <2>1. host \in BOOLEAN /\ 0 \in 0..Head  BY DEF Init, Head
  <2>2. work \in [Runs -> [add : SUBSET Facts, del : SUBSET Facts, locked : SUBSET Facts]]
    BY NothingTyped DEF Init
  <2>3. \A r \in Runs : work[r] = Nothing  BY DEF Init
  <2> QED  BY <1>1, <2>1, <2>2, <2>3 DEF Init, TypeOK
<1>3. RunInv  BY DEF Init, RunInv, TxnAt
<1> QED  BY <1>2, <1>3 DEF TypeInv

(* What the rest of the invariant needs of a step of one run.              *)
LEMMA TypeStep == TypeInv /\ [Next]_vars => TypeInv'
<1> SUFFICES ASSUME TypeInv, [Next]_vars PROVE TypeInv'  OBVIOUS
<1> USE DEF TypeInv
<1>0. CASE UNCHANGED vars
  BY <1>0 DEF vars, run, TypeOK, RunInv, Upgrades, Downgrades
<1>1. CASE HostMigrates
  BY <1>1 DEF HostMigrates, run, TypeOK, RunInv, Upgrades, Downgrades
<1>2. ASSUME NEW r \in Runs, Step(r) PROVE TypeInv'
  <2> USE DEF Goto, End
  <2>1. CASE Begin(r)
    <3>1. target' \in [Runs -> 0..Head]
      <4>1. \E t \in 0..Head : target' = [target EXCEPT ![r] = t]  BY <2>1 DEF Begin, Head
      <4> QED  BY <4>1 DEF TypeOK
    <3>2. cmd' \in [Runs -> {"none", "upgrade", "downgrade"}]  BY <2>1 DEF Begin, TypeOK
    <3>3. TypeOK'  BY <2>1, <3>1, <3>2 DEF Begin, TypeOK
    <3>4. RunInv'  BY <2>1 DEF Begin, TypeOK, RunInv, TxnAt, Upgrades, Downgrades
    <3> QED  BY <3>3, <3>4
  <2>2. CASE Bootstrap(r)
    <3>1. {"schema"} \ db \subseteq Facts  BY DEF Facts, Built, Head
    <3>2. /\ work' \in [Runs -> [add : SUBSET Facts, del : SUBSET Facts, locked : SUBSET Facts]]
          /\ \A q \in Runs \ {r} : work'[q] = work[q]
      BY <2>2, <3>1, ChangeTyped DEF Bootstrap
    <3>3. TypeOK'  BY <2>2, <3>2 DEF Bootstrap, TypeOK
    <3>4. RunInv'  BY <2>2 DEF Bootstrap, TypeOK, RunInv, TxnAt, Upgrades, Downgrades
    <3> QED  BY <3>3, <3>4
  <2>3. CASE Handover(r)
    <3>1. Install(r)  BY <2>3 DEF Handover
    <3>2. TypeOK'  BY <2>3, <3>1, InstallTyped DEF Handover, TypeOK
    <3>3. RunInv'  BY <2>3, <3>1, InstallTyped DEF Handover, TypeOK, RunInv, TxnAt, Upgrades, Downgrades
    <3> QED  BY <3>2, <3>3
  <2>4. CASE Configure(r)
    <3>1. LevelOf(Sees(r)) \in 0..Head  BY LevelOfRow
    <3>2. TypeOK'  BY <2>4, <3>1 DEF Configure, TypeOK
    <3>3. RunInv'  BY <2>4 DEF Configure, TypeOK, RunInv, TxnAt, Upgrades, Downgrades
    <3> QED  BY <3>2, <3>3
  <2>5. CASE EnsureVersionTable(r)
    <3>1. {"version_table"} \subseteq Facts  BY DEF Facts, Built, Head
    <3>2. /\ work' \in [Runs -> [add : SUBSET Facts, del : SUBSET Facts, locked : SUBSET Facts]]
          /\ \A q \in Runs \ {r} : work'[q] = work[q]
      BY <2>5, <3>1, ChangeTyped DEF EnsureVersionTable, TypeOK
    <3>3. txn[r] # "none"  BY <2>5 DEF EnsureVersionTable, RunInv, TxnAt
    <3>4. TypeOK'  BY <2>5, <3>2, <3>3 DEF EnsureVersionTable, TypeOK
    <3>5. RunInv'  BY <2>5 DEF EnsureVersionTable, TypeOK, RunInv, TxnAt, Upgrades, Downgrades
    <3> QED  BY <3>4, <3>5
  <2>6. CASE Upgrade(r)
    <3>1. level[r] + 1 \in 1..Head  BY <2>6 DEF Upgrade, Upgrades, TypeOK, Head
    <3>2. Made(level[r] + 1, Sees(r)) \subseteq Facts  BY <3>1, MadeFacts
    <3>3. /\ work' \in [Runs -> [add : SUBSET Facts, del : SUBSET Facts, locked : SUBSET Facts]]
          /\ \A q \in Runs \ {r} : work'[q] = work[q]
      BY <2>6, <3>2, ChangeTyped DEF Upgrade
    <3>4. txn[r] # "none"  BY <2>6 DEF Upgrade, RunInv, TxnAt
    <3>5. TypeOK'  BY <2>6, <3>3, <3>4 DEF Upgrade, TypeOK
    <3>6. RunInv'  BY <2>6 DEF Upgrade, TypeOK, RunInv, TxnAt, Upgrades, Downgrades
    <3> QED  BY <3>5, <3>6
  <2>7. CASE Downgrade(r)
    <3> DEFINE undone == IF level[r] = 3 THEN {"ha_credential", "credential_grants"}
                         ELSE Made(level[r], Sees(r))
    <3>1. level[r] \in 1..Head  BY <2>7 DEF Downgrade, Downgrades, TypeOK, Head
    <3>2. undone \subseteq Facts
      <4>1. {"ha_credential", "credential_grants"} \subseteq Facts  BY DEF Facts, Built, Head
      <4> QED  BY <3>1, <4>1, MadeFacts
    <3>3. /\ work' \in [Runs -> [add : SUBSET Facts, del : SUBSET Facts, locked : SUBSET Facts]]
          /\ \A q \in Runs \ {r} : work'[q] = work[q]
      <4>1. Change(r, {}, undone \cap Sees(r), undone)  BY <2>7 DEF Downgrade
      <4> QED  BY <3>2, <4>1, ChangeTyped
    <3>4. txn[r] # "none"  BY <2>7 DEF Downgrade, RunInv, TxnAt
    <3>5. TypeOK'  BY <2>7, <3>3, <3>4 DEF Downgrade, TypeOK
    <3>6. RunInv'  BY <2>7 DEF Downgrade, TypeOK, RunInv, TxnAt, Upgrades, Downgrades
    <3> QED  BY <3>5, <3>6
  <2>8. CASE Stamp(r)
    <3>1. After(r) \in 0..Head
      BY <2>8 DEF Stamp, After, RunInv, Upgrades, Downgrades, TypeOK, Head
    <3>2. Row(After(r)) \subseteq Facts /\ Row(level[r]) \subseteq Facts
      BY <3>1, RowFacts DEF TypeOK
    <3>3. /\ work' \in [Runs -> [add : SUBSET Facts, del : SUBSET Facts, locked : SUBSET Facts]]
          /\ \A q \in Runs \ {r} : work'[q] = work[q]
      BY <2>8, <3>2, ChangeTyped DEF Stamp
    <3>4. txn[r] # "none"  BY <2>8 DEF Stamp, RunInv, TxnAt
    <3>5. TypeOK'  BY <2>8, <3>1, <3>3, <3>4 DEF Stamp, TypeOK
    <3>6. RunInv'  BY <2>8 DEF Stamp, TypeOK, RunInv, TxnAt, Upgrades, Downgrades
    <3> QED  BY <3>5, <3>6
  <2>9. CASE Finish(r)
    <3>1. Install(r)  BY <2>9 DEF Finish, RunInv, TxnAt
    <3>2. /\ outcome' \in [Runs -> {"none", "ok", "refused", "failed"}]
          /\ pc' = [pc EXCEPT ![r] = "ended"]
      BY <2>9 DEF Finish, TypeOK
    <3>3. UNCHANGED <<host, cmd, target, level, serving>>  BY <2>9 DEF Finish
    <3>4. TypeOK'
      <4>1. \A q \in Runs : txn'[q] = "none" => work'[q] = Nothing
        BY <3>1, InstallTyped DEF TypeOK
      <4> QED  BY <3>1, <3>2, <3>3, <4>1, InstallTyped DEF TypeOK
    <3>5. RunInv'
      BY <3>1, <3>2, <3>3, InstallTyped DEF TypeOK, RunInv, TxnAt, Upgrades, Downgrades
    <3> QED  BY <3>4, <3>5
  <2>10. CASE Refuse(r) \/ Fail(r)
    <3>1. Discard(r)  BY <2>10 DEF Refuse, Fail
    <3>2. /\ outcome' \in [Runs -> {"none", "ok", "refused", "failed"}]
          /\ pc' = [pc EXCEPT ![r] = "ended"]
      BY <2>10 DEF Refuse, Fail, TypeOK
    <3>3. UNCHANGED <<host, cmd, target, level, serving>>  BY <2>10 DEF Refuse, Fail
    <3>4. TypeOK'
      <4>1. \A q \in Runs : txn'[q] = "none" => work'[q] = Nothing
        BY <3>1, DiscardTyped DEF TypeOK
      <4> QED  BY <3>1, <3>2, <3>3, <4>1, DiscardTyped DEF TypeOK
    <3>5. RunInv'
      BY <3>1, <3>2, <3>3, DiscardTyped DEF TypeOK, RunInv, TxnAt, Upgrades, Downgrades
    <3> QED  BY <3>4, <3>5
  <2>11. CASE Verify(r) \/ Deploy(r)
    <3>1. TypeOK'  BY <2>11 DEF Verify, Deploy, TypeOK
    <3>2. RunInv'  BY <2>11 DEF Verify, Deploy, TypeOK, RunInv, TxnAt, Upgrades, Downgrades
    <3> QED  BY <3>1, <3>2
  <2> QED  BY <1>2, <2>1, <2>2, <2>3, <2>4, <2>5, <2>6, <2>7, <2>8, <2>9, <2>10, <2>11 DEF Step
<1> QED  BY <1>0, <1>1, <1>2 DEF Next

LEMMA TypeInvariance == Spec => []TypeInv
<1>1. Init => TypeInv  BY TypeInit
<1>2. TypeInv /\ [Next]_vars => TypeInv'  BY TypeStep
<1> QED  BY <1>1, <1>2, PTL DEF Spec

(* The variables stay in their ranges, and whatever a connection of        *)
(* env.py has not committed belongs to a transaction that is open.         *)
THEOREM TypeCorrect == Spec => []TypeOK
<1>1. TypeInv => TypeOK  BY DEF TypeInv
<1> QED  BY <1>1, TypeInvariance, PTL

----------------------------------------------------------------------------
(* What a database at revision k owes to it, but for the bookkeeping; a    *)
(* set of facts is solid when no row lacks what its revision consists of;  *)
(* and a change keeps every object, and the row of the head.               *)
Owed(k) == Built(k) \ (Rows \cup {"version_table"})
Solid(facts) == \A k \in 1..Head : Revision[k] \in facts => Owed(k) \subseteq facts
Keeps(old, new) == old \ Rows \subseteq new /\ ("0003" \in old => "0003" \in new)

RunGrows(r) ==
    /\ pc[r] # "new" => cmd[r] = "upgrade" /\ target[r] = Head
    /\ work[r].del \subseteq Rows \ {"0003"}
    /\ Solid(Sees(r))
    /\ pc[r] \in {"ensure", "migrate", "stamp"} =>
          /\ Owed(level[r]) \subseteq Sees(r)
          /\ level[r] = Head => "0003" \in Sees(r)
    /\ pc[r] = "stamp" => Owed(level[r] + 1) \subseteq Sees(r)
    /\ outcome[r] = "ok" => "0003" \in db
    /\ pc[r] \in {"verified", "deployed"} => outcome[r] = "ok"

GrowInv == OnlyUpgrades => /\ Solid(db)
                           /\ serving => "0003" \in db
                           /\ \A r \in Runs : RunGrows(r)

LEMMA OwedMade ==
    ASSUME NEW k \in 1..Head, NEW S, Owed(k - 1) \subseteq S
    PROVE  Owed(k) \subseteq S \cup Made(k, S)
<1>1. CASE k = 1  BY <1>1 DEF Owed, Built, Made, Rows
<1>2. CASE k = 2  BY <1>2 DEF Owed, Built, Made, Rows
<1>3. CASE k = 3  BY <1>3 DEF Owed, Built, Made, Rows
<1> QED  BY <1>1, <1>2, <1>3 DEF Head

LEMMA SolidStart == \A k \in 0..Head : Solid(At(k)) /\ Owed(0) = {}
<1>1. Solid(At(0))  BY DEF Solid, At, Built, Rows, Owed, Revision, Head
<1>2. Solid(At(1))  BY DEF Solid, At, Built, Rows, Owed, Revision, Head
<1>3. Solid(At(2))  BY DEF Solid, At, Built, Rows, Owed, Revision, Head
<1>4. Solid(At(3))  BY DEF Solid, At, Built, Rows, Owed, Revision, Head
<1>5. Owed(0) = {}  BY DEF Owed, Built
<1> QED  BY <1>1, <1>2, <1>3, <1>4, <1>5 DEF Head

LEMMA SolidGrows ==
    ASSUME NEW S, NEW D, Solid(S), D \cap Rows = {}
    PROVE  Solid(S \cup D)
BY RevisionFacts DEF Solid

(* A run is not disturbed by a change that keeps what it sees,             *)
LEMMA Carried ==
    ASSUME NEW r \in Runs, RunGrows(r),
           cmd'[r] = cmd[r], target'[r] = target[r], pc'[r] = pc[r],
           level'[r] = level[r], outcome'[r] = outcome[r],
           Keeps(db, db'), work'[r].del \subseteq Rows \ {"0003"},
           Solid(Sees(r)'), Keeps(Sees(r), Sees(r)')
    PROVE  RunGrows(r)'
<1>1. \A k : Owed(k) \subseteq Sees(r) => Owed(k) \subseteq Sees(r)'  BY DEF Owed, Keeps
<1> QED  BY <1>1 DEF RunGrows, Keeps

(* and so not by what another run commits.                                 *)
LEMMA Undisturbed ==
    ASSUME NEW r \in Runs, RunGrows(r),
           cmd'[r] = cmd[r], target'[r] = target[r], pc'[r] = pc[r],
           level'[r] = level[r], outcome'[r] = outcome[r], work'[r] = work[r],
           Keeps(db, db'), Solid(db')
    PROVE  RunGrows(r)'
<1>1. Sees(r)' = (db' \ work[r].del) \cup work[r].add  BY DEF Sees
<1>2. Sees(r) = (db \ work[r].del) \cup work[r].add  BY DEF Sees
<1>3. work[r].del \subseteq Rows \ {"0003"}  BY DEF RunGrows
<1>4. Keeps(Sees(r), Sees(r)')  BY <1>1, <1>2, <1>3 DEF Keeps
<1>5. Solid(Sees(r)')
  <2> SUFFICES ASSUME NEW k \in 1..Head, Revision[k] \in Sees(r)' PROVE Owed(k) \subseteq Sees(r)'
    BY DEF Solid
  <2>1. CASE Revision[k] \in db'
    <3>1. Owed(k) \subseteq db'  BY <2>1 DEF Solid
    <3> QED  BY <3>1, <1>1, <1>3 DEF Owed
  <2>2. CASE Revision[k] \in work[r].add
    <3>1. Owed(k) \subseteq Sees(r)  BY <2>2, <1>2 DEF RunGrows, Solid
    <3> QED  BY <3>1, <1>4 DEF Owed, Keeps
  <2> QED  BY <2>1, <2>2, <1>1
<1> QED  BY <1>3, <1>4, <1>5, Carried

LEMMA GrowInit == Init => GrowInv
<1> SUFFICES ASSUME Init PROVE GrowInv  OBVIOUS
<1>1. Solid(db)
  <2>1. Solid({"role"})  BY DEF Solid, Revision, Head
  <2> QED  BY <2>1, SolidStart DEF Init
<1>2. ASSUME NEW r \in Runs PROVE RunGrows(r)
  <2>1. work[r] = Nothing /\ pc[r] = "new" /\ outcome[r] = "none"  BY DEF Init
  <2>2. work[r].del = {} /\ work[r].add = {}  BY <2>1 DEF Nothing
  <2>3. Sees(r) = db  BY <2>2 DEF Sees
  <2> QED  BY <1>1, <2>1, <2>2, <2>3 DEF RunGrows
<1> QED  BY <1>1, <1>2 DEF GrowInv, Init

LEMMA UpgradesBack == TypeInv /\ [Next]_vars /\ OnlyUpgrades' => OnlyUpgrades
<1> SUFFICES ASSUME TypeInv, [Next]_vars, OnlyUpgrades', NEW q \in Runs PROVE cmd[q] # "downgrade"
  BY DEF OnlyUpgrades
<1>0. cmd'[q] # "downgrade"  BY DEF OnlyUpgrades
<1>1. CASE UNCHANGED vars  BY <1>0, <1>1 DEF vars, run
<1>2. CASE HostMigrates  BY <1>0, <1>2 DEF HostMigrates, run
<1>3. ASSUME NEW r \in Runs, Step(r) PROVE cmd[q] # "downgrade"
  <2>1. CASE Begin(r)
    <3>1. cmd[r] = "none" /\ \A p \in Runs \ {r} : cmd'[p] = cmd[p]
      BY <2>1 DEF Begin, TypeInv, TypeOK, RunInv
    <3> QED  BY <3>1, <1>0
  <2>2. CASE ~Begin(r)
    <3>1. cmd' = cmd
      BY <1>3, <2>2 DEF Step, Bootstrap, Handover, Configure, EnsureVersionTable, Upgrade,
                       Downgrade, Stamp, Finish, Refuse, Fail, Verify, Deploy
    <3> QED  BY <3>1, <1>0
  <2> QED  BY <2>1, <2>2
<1> QED  BY <1>1, <1>2, <1>3 DEF Next

(* A statement of r inside its transaction: the others keep what they      *)
(* have, and r's own part is what is left to show.                         *)
LEMMA Statement ==
    ASSUME TypeInv, OnlyUpgrades, OnlyUpgrades', GrowInv, NEW r \in Runs,
           db' = db, outcome' = outcome, serving' = serving,
           \A q \in Runs \ {r} : /\ cmd'[q] = cmd[q] /\ target'[q] = target[q] /\ pc'[q] = pc[q]
                                 /\ level'[q] = level[q] /\ work'[q] = work[q],
           RunGrows(r)'
    PROVE  GrowInv'
<1>1. Keeps(db, db') /\ Solid(db')  BY DEF Keeps, GrowInv
<1>2. ASSUME NEW q \in Runs \ {r} PROVE RunGrows(q)'
  BY <1>1, <1>2, Undisturbed DEF GrowInv
<1> QED  BY <1>1, <1>2 DEF GrowInv

(* A commit of r: what it saw is what there is.                            *)
LEMMA Committed ==
    ASSUME TypeInv, OnlyUpgrades, OnlyUpgrades', GrowInv, NEW r \in Runs, Install(r),
           serving' = serving,
           \A q \in Runs \ {r} : /\ cmd'[q] = cmd[q] /\ target'[q] = target[q] /\ pc'[q] = pc[q]
                                 /\ level'[q] = level[q] /\ outcome'[q] = outcome[q],
           cmd'[r] = "upgrade" /\ target'[r] = Head,
           pc'[r] \in {"configure", "ended"},
           outcome'[r] = "ok" => "0003" \in Sees(r)
    PROVE  GrowInv'
<1>1. db' = Sees(r) /\ work' = [work EXCEPT ![r] = Nothing]  BY DEF Install
<1>2. RunGrows(r)  BY DEF GrowInv
<1>3. Solid(db')  BY <1>1, <1>2 DEF RunGrows
<1>4. Keeps(db, db')  BY <1>1, <1>2 DEF RunGrows, Sees, Keeps
<1>5. ASSUME NEW q \in Runs \ {r} PROVE RunGrows(q)'
  <2>1. work'[q] = work[q]  BY <1>1 DEF TypeInv, TypeOK
  <2> QED  BY <1>3, <1>4, <1>5, <2>1, Undisturbed DEF GrowInv
<1>6. RunGrows(r)'
  <2>1. work'[r] = Nothing  BY <1>1 DEF TypeInv, TypeOK
  <2>2. work'[r].add = {} /\ work'[r].del = {}  BY <2>1 DEF Nothing
  <2>3. Sees(r)' = db'  BY <2>2 DEF Sees
  <2> QED  BY <1>1, <1>3, <2>2, <2>3 DEF RunGrows
<1>7. serving' => "0003" \in db'  BY <1>4 DEF Keeps, GrowInv
<1> QED  BY <1>3, <1>5, <1>6, <1>7 DEF GrowInv

LEMMA GrowStep == TypeInv /\ GrowInv /\ [Next]_vars => GrowInv'
<1> SUFFICES ASSUME TypeInv, GrowInv, [Next]_vars, OnlyUpgrades' PROVE GrowInv'
  BY DEF GrowInv
<1>a. OnlyUpgrades  BY UpgradesBack
<1>b. Solid(db) /\ \A q \in Runs : RunGrows(q)  BY <1>a DEF GrowInv
<1>0. CASE UNCHANGED vars
  <2>1. \A q \in Runs : Sees(q)' = Sees(q)  BY <1>0 DEF vars, run, Sees
  <2> QED  BY <1>0, <1>a, <1>b, <2>1 DEF vars, run, GrowInv, RunGrows
<1>1. CASE HostMigrates
  <2>1. \A q \in Runs : Sees(q)' = Sees(q)  BY <1>1 DEF HostMigrates, run, Sees
  <2> QED  BY <1>1, <1>a, <1>b, <2>1 DEF HostMigrates, run, GrowInv, RunGrows
<1>2. ASSUME NEW r \in Runs, Step(r) PROVE GrowInv'
  <2> USE DEF Goto, End
  <2>r. RunGrows(r) /\ work[r].del \subseteq Rows \ {"0003"}  BY <1>b DEF RunGrows
  <2>t. TypeOK /\ RunInv  BY DEF TypeInv
  <2>u. pc[r] # "new" => cmd[r] = "upgrade" /\ target[r] = Head  BY <2>r DEF RunGrows
  <2>1. CASE Begin(r)
    <3>1. cmd'[r] # "downgrade"  BY DEF OnlyUpgrades
    <3>2. cmd'[r] = "upgrade" /\ target'[r] = Head
      BY <2>1, <2>t, <3>1 DEF Begin, TypeOK
    <3>3. Sees(r)' = Sees(r)  BY <2>1 DEF Begin, Sees
    <3>4. outcome'[r] = outcome[r] /\ pc'[r] = "bootstrap" /\ work' = work /\ db' = db
      BY <2>1, <2>t DEF Begin, TypeOK
    <3>5. RunGrows(r)'  BY <2>r, <3>2, <3>3, <3>4 DEF RunGrows
    <3> QED  BY <1>a, <2>1, <2>t, <3>5, Statement DEF Begin, TypeOK
  <2>2. CASE Bootstrap(r)
    <3>1. Change(r, {"schema"} \ db, {}, {})  BY <2>2 DEF Bootstrap
    <3>2. {"schema"} \ db \subseteq Facts  BY DEF Facts, Built, Head
    <3>3. /\ work'[r].add = work[r].add \cup ({"schema"} \ db)
          /\ work'[r].del = work[r].del \ ({"schema"} \ db)
          /\ \A q \in Runs \ {r} : work'[q] = work[q]
      BY <2>t, <3>1, <3>2, ChangeTyped
    <3>4. "schema" \notin Rows  BY DEF Rows
    <3>5. db' = db  BY <2>2 DEF Bootstrap
    <3>6. Sees(r)' = Sees(r) \cup ({"schema"} \ db)  BY <2>r, <3>3, <3>4, <3>5 DEF Sees
    <3>7. Solid(Sees(r)')
      <4> DEFINE D == {"schema"} \ db
      <4>1. D \cap Rows = {} /\ Sees(r)' = Sees(r) \cup D /\ Solid(Sees(r))
        BY <2>r, <3>4, <3>6 DEF RunGrows
      <4> HIDE DEF D
      <4> QED  BY <4>1, SolidGrows
    <3>8. RunGrows(r)'
      BY <2>2, <2>r, <2>t, <3>3, <3>5, <3>7 DEF Bootstrap, RunGrows, TypeOK
    <3> QED  BY <1>a, <2>2, <2>t, <3>3, <3>8, Statement DEF Bootstrap, TypeOK
  <2>3. CASE Handover(r)
    <3>1. Install(r)  BY <2>3 DEF Handover
    <3>2. outcome[r] = "ok" => "0003" \in Sees(r)
      BY <2>r DEF RunGrows, Sees
    <3> QED  BY <1>a, <2>3, <2>t, <2>u, <3>1, <3>2, Committed DEF Handover, TypeOK
  <2>4. CASE Configure(r)
    <3>1. Sees(r)' = Sees(r) /\ db' = db /\ work' = work /\ outcome' = outcome
      BY <2>4 DEF Configure, Sees
    <3>2. level'[r] = LevelOf(Sees(r)) /\ pc'[r] = "ensure"  BY <2>4, <2>t DEF Configure, TypeOK
    <3>3. Owed(level'[r]) \subseteq Sees(r)
      <4>1. CASE level'[r] = 0  BY <4>1, SolidStart DEF Head
      <4>2. CASE level'[r] # 0
        <5>1. level'[r] \in 1..Head /\ Revision[level'[r]] \in Sees(r)
          BY <3>2, <4>2, LevelOfRow DEF Head
        <5> QED  BY <5>1, <2>r DEF RunGrows, Solid
      <4> QED  BY <4>1, <4>2
    <3>4. level'[r] = Head => "0003" \in Sees(r)
      <4>1. ASSUME level'[r] = Head PROVE Revision[Head] \in Sees(r)
        <5>1. LevelOf(Sees(r)) = Head /\ Head # 0  BY <3>2, <4>1 DEF Head
        <5>2. Revision[LevelOf(Sees(r))] \in Sees(r)  BY <5>1, LevelOfRow
        <5> QED  BY <5>1, <5>2
      <4>2. Revision[Head] = "0003"  BY DEF Revision, Head
      <4> QED  BY <4>1, <4>2
    <3>5. RunGrows(r)'  BY <2>4, <2>r, <2>t, <3>1, <3>2, <3>3, <3>4 DEF Configure, RunGrows
    <3> QED  BY <1>a, <2>4, <2>t, <3>5, Statement DEF Configure, TypeOK
  <2>5. CASE EnsureVersionTable(r)
    <3>1. PICK D \in SUBSET {"version_table"} :
             /\ work'[r].add = work[r].add \cup D
             /\ work'[r].del = work[r].del \ D
             /\ \A q \in Runs \ {r} : work'[q] = work[q]
      <4>1. CASE UNCHANGED work
        <5> WITNESS {} \in SUBSET {"version_table"}
        <5> QED  BY <4>1
      <4>2. CASE Change(r, {"version_table"}, {}, {})
        <5>1. {"version_table"} \subseteq Facts  BY DEF Facts, Built, Head
        <5> WITNESS {"version_table"} \in SUBSET {"version_table"}
        <5> QED  BY <2>t, <4>2, <5>1, ChangeTyped
      <4> QED  BY <2>5, <4>1, <4>2 DEF EnsureVersionTable
    <3>2. D \cap Rows = {}  BY DEF Rows
    <3>3. db' = db /\ pc'[r] = "migrate"  BY <2>5, <2>t DEF EnsureVersionTable, TypeOK
    <3>4. Sees(r)' = Sees(r) \cup D  BY <2>r, <3>1, <3>2, <3>3 DEF Sees
    <3>5. Solid(Sees(r)')  BY <2>r, <3>2, <3>4, SolidGrows DEF RunGrows
    <3>6. RunGrows(r)'
      BY <2>5, <2>r, <2>t, <3>1, <3>3, <3>4, <3>5 DEF EnsureVersionTable, RunGrows
    <3> QED  BY <1>a, <2>5, <2>t, <3>1, <3>6, Statement DEF EnsureVersionTable, TypeOK
  <2>6. CASE Upgrade(r)
    <3> DEFINE k == level[r] + 1
               D == Made(k, Sees(r))
    <3>1. k \in 1..Head /\ k - 1 = level[r]  BY <2>6, <2>t DEF Upgrade, Upgrades, TypeOK, Head
    <3>2. D \subseteq Facts /\ D \cap Rows = {}  BY <3>1, MadeFacts
    <3>3. Change(r, D \ Sees(r), {}, D)  BY <2>6 DEF Upgrade
    <3> HIDE DEF D
    <3>4. /\ work'[r].add = work[r].add \cup (D \ Sees(r))
          /\ work'[r].del = work[r].del \ (D \ Sees(r))
          /\ \A q \in Runs \ {r} : work'[q] = work[q]
      BY <2>t, <3>2, <3>3, ChangeTyped
    <3>5. db' = db /\ pc'[r] = "stamp" /\ level' = level
      BY <2>6, <2>t DEF Upgrade, TypeOK
    <3>6. Sees(r)' = Sees(r) \cup D  BY <2>r, <3>2, <3>4, <3>5 DEF Sees
    <3>7. Solid(Sees(r)')  BY <2>r, <3>2, <3>6, SolidGrows DEF RunGrows
    <3>8. Owed(level[r]) \subseteq Sees(r) /\ (level[r] = Head => "0003" \in Sees(r))
      BY <2>6, <2>r DEF Upgrade, RunGrows
    <3>9. Owed(level[r] + 1) \subseteq Sees(r)'
      BY <3>1, <3>6, <3>8, OwedMade DEF D
    <3>10. RunGrows(r)'
      BY <2>6, <2>r, <2>t, <3>4, <3>5, <3>6, <3>7, <3>8, <3>9 DEF Upgrade, RunGrows
    <3> QED  BY <1>a, <2>6, <2>t, <3>4, <3>10, Statement DEF Upgrade, TypeOK
  <2>7. CASE Downgrade(r)
    BY <1>a, <2>7 DEF Downgrade, Downgrades, OnlyUpgrades
  <2>8. CASE Stamp(r)
    <3> DEFINE k == level[r] + 1
               old == Row(level[r])
               new == Row(k)
    <3>1. cmd[r] = "upgrade" /\ level[r] \in 0..Head - 1 /\ After(r) = k /\ k \in 1..Head
      BY <2>8, <2>t, <2>u DEF Stamp, RunInv, Upgrades, Downgrades, After, TypeOK, Head
    <3>2. new = {Revision[k]} /\ new \subseteq Facts /\ old \subseteq Facts
      BY <3>1, RowFacts DEF Row, Head
    <3>3. old \subseteq Rows \ {"0003"}
      <4>1. CASE level[r] = 0  BY <4>1 DEF Row
      <4>2. CASE level[r] \in 1..Head - 1
        <5>1. Revision[level[r]] \in Rows /\ Revision[level[r]] # "0003"
          BY <4>2, RevisionFacts DEF Head
        <5> QED  BY <5>1, <4>2 DEF Row
      <4> QED  BY <3>1, <4>1, <4>2 DEF Head
    <3>4. Change(r, new, old, {})  BY <2>8, <3>1 DEF Stamp
    <3> HIDE DEF new, old
    <3>5. /\ work'[r].add = (work[r].add \ old) \cup new
          /\ work'[r].del = (work[r].del \ new) \cup old
          /\ \A q \in Runs \ {r} : work'[q] = work[q]
      BY <2>t, <3>2, <3>4, ChangeTyped
    <3>6. db' = db /\ pc'[r] = "migrate" /\ level'[r] = k
      BY <2>8, <2>t, <3>1 DEF Stamp, TypeOK
    <3>7. Keeps(Sees(r), Sees(r)')  BY <2>r, <3>3, <3>5, <3>6 DEF Sees, Keeps
    <3>8. Owed(k) \subseteq Sees(r)  BY <2>8, <2>r DEF Stamp, RunGrows
    <3>9. \A j : Owed(j) \subseteq Sees(r) => Owed(j) \subseteq Sees(r)'
      BY <3>7 DEF Keeps, Owed
    <3>10. Solid(Sees(r)')
      <4> SUFFICES ASSUME NEW j \in 1..Head, Revision[j] \in Sees(r)'
                   PROVE  Owed(j) \subseteq Sees(r)
        BY <3>9 DEF Solid
      <4>1. CASE Revision[j] \in Sees(r)  BY <2>r, <4>1 DEF RunGrows, Solid
      <4>2. CASE Revision[j] = Revision[k]
        <5>1. j = k  BY <3>1, <4>2 DEF Revision, Head
        <5> QED  BY <3>8, <5>1
      <4>3. Sees(r)' \subseteq Sees(r) \cup new  BY <3>5, <3>6 DEF Sees
      <4> QED  BY <3>2, <4>1, <4>2, <4>3
    <3>11. level'[r] = Head => "0003" \in Sees(r)'
      <4>1. new \subseteq Sees(r)'  BY <3>5 DEF Sees
      <4>2. level'[r] = Head => Revision[k] = "0003"  BY <3>1, <3>6, RevisionFacts
      <4> QED  BY <3>2, <4>1, <4>2
    <3>12. work'[r].del \subseteq Rows \ {"0003"}  BY <2>r, <3>3, <3>5
    <3>13. outcome' = outcome /\ cmd' = cmd /\ target' = target /\ serving' = serving
      BY <2>8 DEF Stamp
    <3>14. RunGrows(r)'
      <4>1. Owed(level'[r]) \subseteq Sees(r)'  BY <3>6, <3>8, <3>9
      <4> QED  BY <2>r, <2>u, <2>8, <3>6, <3>10, <3>11, <3>12, <3>13, <4>1 DEF Stamp, RunGrows
    <3> QED  BY <1>a, <2>8, <2>t, <3>5, <3>6, <3>13, <3>14, Statement DEF Stamp, TypeOK
  <2>9. CASE Finish(r)
    <3>1. Install(r)  BY <2>9, <2>t DEF Finish, RunInv, TxnAt
    <3>2. level[r] = Head /\ pc[r] = "migrate" /\ cmd[r] = "upgrade" /\ target[r] = Head
      BY <2>9, <2>u DEF Finish
    <3>3. "0003" \in Sees(r)  BY <2>r, <3>2 DEF RunGrows
    <3>4. /\ pc'[r] = "ended"
          /\ \A q \in Runs \ {r} : pc'[q] = pc[q] /\ outcome'[q] = outcome[q]
      BY <2>9, <2>t DEF Finish, TypeOK
    <3>5. cmd' = cmd /\ target' = target /\ level' = level /\ serving' = serving
      BY <2>9 DEF Finish
    <3> QED  BY <1>a, <3>1, <3>2, <3>3, <3>4, <3>5, Committed
  <2>10. CASE Refuse(r) \/ Fail(r)
    <3>1. Discard(r)  BY <2>10 DEF Refuse, Fail
    <3>2. /\ pc'[r] = "ended" /\ outcome'[r] # "ok" /\ pc[r] # "new"
          /\ \A q \in Runs \ {r} : pc'[q] = pc[q] /\ outcome'[q] = outcome[q]
      BY <2>10, <2>t DEF Refuse, Refused, Fail, Running, TypeOK
    <3>3. cmd' = cmd /\ target' = target /\ level' = level /\ serving' = serving
      BY <2>10 DEF Refuse, Fail
    <3>4. db' = db /\ work' = [work EXCEPT ![r] = Nothing]  BY <3>1 DEF Discard
    <3>5. work'[r] = Nothing /\ \A q \in Runs \ {r} : work'[q] = work[q]
      BY <2>t, <3>4 DEF TypeOK
    <3>6. Sees(r)' = db /\ work'[r].del = {}  BY <3>4, <3>5 DEF Sees, Nothing
    <3>7. RunGrows(r)'  BY <1>b, <2>u, <3>2, <3>3, <3>4, <3>6 DEF RunGrows
    <3>8. Keeps(db, db') /\ Solid(db')  BY <1>b, <3>4 DEF Keeps
    <3>9. ASSUME NEW q \in Runs \ {r} PROVE RunGrows(q)'
      BY <1>b, <3>2, <3>3, <3>5, <3>8, <3>9, Undisturbed
    <3> QED  BY <1>a, <1>b, <3>3, <3>4, <3>7, <3>8, <3>9 DEF GrowInv
  <2>11. CASE Verify(r) \/ Deploy(r)
    <3>1. /\ outcome[r] = "ok" /\ pc[r] # "new" /\ pc'[r] \in {"verified", "deployed"}
          /\ \A q \in Runs \ {r} : pc'[q] = pc[q]
      BY <2>11, <2>r, <2>t DEF Verify, Deploy, RunGrows, TypeOK
    <3>2. UNCHANGED <<db, cmd, target, level, work, outcome>>  BY <2>11 DEF Verify, Deploy
    <3>3. "0003" \in db  BY <2>r, <3>1 DEF RunGrows
    <3>4. Keeps(db, db') /\ Solid(db')  BY <1>b, <3>2 DEF Keeps
    <3>5. Sees(r)' = Sees(r)  BY <3>2 DEF Sees
    <3>6. RunGrows(r)'  BY <2>r, <2>u, <3>1, <3>2, <3>5 DEF RunGrows
    <3>7. ASSUME NEW q \in Runs \ {r} PROVE RunGrows(q)'
      BY <1>b, <3>1, <3>2, <3>4, <3>7, Undisturbed
    <3> QED  BY <1>a, <3>2, <3>3, <3>4, <3>6, <3>7 DEF GrowInv
  <2> QED  BY <1>2, <2>1, <2>2, <2>3, <2>4, <2>5, <2>6, <2>7, <2>8, <2>9, <2>10, <2>11 DEF Step
<1> QED  BY <1>0, <1>1, <1>2 DEF Next

LEMMA GrowInvariance == Spec => [](TypeInv /\ GrowInv)
<1>1. Init => TypeInv /\ GrowInv  BY TypeInit, GrowInit
<1>2. TypeInv /\ GrowInv /\ [Next]_vars => (TypeInv /\ GrowInv)'  BY TypeStep, GrowStep
<1> QED  BY <1>1, <1>2, PTL DEF Spec

(* However many upgrades run at once, fail and are run again, one that has *)
(* exited with 0 has left the database at the head: what env.py's comment  *)
(* fears, an exit code 0 over a rolled back migration, does not happen.    *)
THEOREM ExitCode == Spec => []ExitZeroMeansAtHead
<1>1. GrowInv => ExitZeroMeansAtHead
  <2>1. Revision[Head] = "0003"  BY DEF Revision, Head
  <2> QED  BY <2>1 DEF GrowInv, RunGrows, ExitZeroMeansAtHead
<1> QED  BY <1>1, GrowInvariance, PTL

(* And the image that the deploy job then lets take requests finds the     *)
(* table of its credentials, and has its privileges on it.                 *)
THEOREM ServiceHasItsTable == Spec => []ServiceFindsItsTable
<1>1. GrowInv => ServiceFindsItsTable
  <2>1. Owed(3) = {"schema", "role", "schema_grants", "default_privileges", "host_grants",
                   "ha_credential", "credential_grants"}
    BY DEF Owed, Built, Rows
  <2>2. Revision[3] = "0003" /\ 3 \in 1..Head  BY DEF Revision, Head
  <2> QED  BY <2>1, <2>2 DEF GrowInv, Solid, ServiceFindsItsTable
<1> QED  BY <1>1, GrowInvariance, PTL
============================================================================
