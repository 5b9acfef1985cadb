---------------------- MODULE MigrationsVersionProofs ----------------------
(***************************************************************************)
(* Proofs about Migrations, downgrades included, for any number of runs:   *)
(* the version table always tells what the database holds, and a run that  *)
(* nobody raced is not refused.                                            *)
(*                                                                         *)
(* The argument: what a run has changed and not committed it has locked,   *)
(* and nobody else's commit touches it.  A run that has stamped a revision *)
(* holds its row, so of two such runs from the same database only one can  *)
(* be on course; the other has been overtaken, sits below the revision     *)
(* the database is at by now, and can not get to the head.                 *)
(***************************************************************************)
EXTENDS MigrationsProofs

----------------------------------------------------------------------------
(* A database that no revision has been applied to, and what a revision    *)
(* adds to the one before it.                                              *)
Ground == {"schema", "version_table", "role"}
Full(k) == CASE k = 1 -> {"schema", "role", "schema_grants", "default_privileges"}
             [] k = 2 -> {"host_grants"}
             [] OTHER -> {"ha_credential", "credential_grants"}
First == Full(1) \cup {"version_table"}

(* Uncommitted changes are locked, by one run each.                        *)
LockInv == /\ \A r \in Runs : work[r].add \cup work[r].del \subseteq work[r].locked
           /\ \A r, q \in Runs : r # q => work[r].locked \cap work[q].locked = {}

(* A run that has touched the version table's rows sees the revision it is *)
(* at, or the one that its next stamp completes;                           *)
OnCourse(r) ==
    IF pc[r] = "migrate" THEN Sees(r) = At(level[r])
    ELSE IF cmd[r] = "upgrade" THEN Sees(r) = At(level[r]) \cup Full(level[r] + 1)
    ELSE Sees(r) = At(level[r]) \ Full(level[r])

(* or it began from an old version, below the one there is now.            *)
Overtaken(r) ==
    /\ cmd[r] = "upgrade" /\ work[r].del \subseteq {Revision[j] : j \in 1..level[r] - 1}
    /\ \A j \in 1..level[r] : Revision[j] \in work[r].locked
    /\ \E k \in 1..Head : k > level[r] /\ db = At(k)

Fresh(r) == work[r].locked \cap Rows = {}

FreshInv(r) ==
    /\ "version_table" \in Sees(r)
    /\ pc[r] = "migrate" => /\ work[r].del = {} /\ work[r].add \subseteq {"version_table"}
                            /\ level[r] # 0 => work[r].add = {}
    /\ pc[r] = "stamp" /\ cmd[r] = "upgrade" =>
          /\ work[r].del = {}
          /\ work[r].add \subseteq {"version_table"} \cup Full(level[r] + 1)
          /\ Full(level[r] + 1) \subseteq Sees(r) \cap work[r].locked
    /\ pc[r] = "stamp" /\ cmd[r] = "downgrade" =>
          /\ level[r] >= 2 /\ work[r].add = {}
          /\ work[r].del \subseteq Full(level[r])
          /\ Full(level[r]) \subseteq work[r].locked \ Sees(r)

StampedInv(r) ==
    /\ level[r] >= 1 /\ Revision[level[r]] \in work[r].locked
    /\ pc[r] = "stamp" /\ cmd[r] = "downgrade" => level[r] >= 2
    /\ OnCourse(r) \/ Overtaken(r)

PathInv(r) ==
    /\ cmd[r] = "upgrade" => target[r] = Head
    /\ pc[r] = "ensure" => work[r] = Nothing
    /\ pc[r] = "handover" => /\ work[r].del = {} /\ work[r].add \subseteq {"schema"}
                             /\ "schema" \in Sees(r)
    /\ pc[r] \in {"configure", "ensure", "migrate", "stamp"} => "schema" \in db
    /\ pc[r] \in {"ensure", "migrate", "stamp"} /\ Fresh(r) /\ level[r] # 0 => First \subseteq db
    /\ pc[r] \in {"migrate", "stamp"} => IF Fresh(r) THEN FreshInv(r) ELSE StampedInv(r)

VersionInv == /\ LockInv
              /\ VersionTellsTheSchema
              /\ \A r \in Runs : PathInv(r)

(* A run knows the version there is, or has changed it itself; and so does *)
(* every run that no other has committed beside.                           *)
Current(r) ==
    /\ pc[r] \in {"ensure", "migrate", "stamp"} /\ Fresh(r) =>
          IF level[r] = 0 THEN db \subseteq Ground ELSE db = At(level[r])
    /\ pc[r] \in {"migrate", "stamp"} /\ ~Fresh(r) => OnCourse(r)

UnracedInv == \A r \in Runs : ~raced[r] => Current(r)

----------------------------------------------------------------------------
(* Facts about the databases there are.                                    *)
LEMMA AtFacts ==
    ASSUME NEW k \in 1..Head
    PROVE  /\ First \subseteq At(k) /\ Revision[k] \in At(k) /\ ~(At(k) \subseteq Ground)
           /\ At(k) \cap Rows = {Revision[k]}
<1>1. CASE k = 1  BY <1>1 DEF First, Full, At, Built, Ground, Rows, Revision
<1>2. CASE k = 2  BY <1>2 DEF First, Full, At, Built, Ground, Rows, Revision
<1>3. CASE k = 3  BY <1>3 DEF First, Full, At, Built, Ground, Rows, Revision
<1> QED  BY <1>1, <1>2, <1>3 DEF Head

LEMMA FullFacts ==
    ASSUME NEW k \in 1..Head
    PROVE  Full(k) \subseteq Facts /\ Full(k) \cap Rows = {}
BY DEF Full, Facts, Built, Rows, Head

LEMMA FirstFacts ==
    /\ First \cap Rows = {} /\ Ground \cap Rows = {} /\ Ground \subseteq First
    /\ "schema" \in First /\ "version_table" \in First /\ "schema_grants" \in First
    /\ "role" \in First /\ "default_privileges" \in First
    /\ "schema_grants" \notin Ground /\ "schema" \notin Rows /\ "version_table" \notin Rows
    /\ First \subseteq Facts
BY DEF First, Full, Ground, Rows, Facts, Built, Head

LEMMA RowsDiffer ==
    ASSUME NEW j \in 1..Head, NEW k \in 1..Head, Revision[j] = Revision[k]
    PROVE  j = k
BY DEF Revision, Head

(* What a revision makes, and what a stamp completes.                      *)
LEMMA MadeFull ==
    ASSUME NEW k \in 1..Head, NEW S, k = 3 => "default_privileges" \in S
    PROVE  Made(k, S) = Full(k)
BY DEF Made, Full, Head

LEMMA StampedUp ==
    ASSUME NEW l \in 1..Head - 1
    PROVE  ((At(l) \cup Full(l + 1)) \ Row(l)) \cup Row(l + 1) = At(l + 1)
<1>1. CASE l = 1  BY <1>1 DEF At, Built, Full, Row, Revision, Rows
<1>2. CASE l = 2  BY <1>2 DEF At, Built, Full, Row, Revision, Rows
<1> QED  BY <1>1, <1>2 DEF Head

LEMMA StampedDown ==
    ASSUME NEW l \in 2..Head
    PROVE  ((At(l) \ Full(l)) \ Row(l)) \cup Row(l - 1) = At(l - 1)
<1>1. CASE l = 2  BY <1>1 DEF At, Built, Full, Row, Revision, Rows
<1>2. CASE l = 3  BY <1>2 DEF At, Built, Full, Row, Revision, Rows
<1> QED  BY <1>1, <1>2 DEF Head

LEMMA StampedFirst == First \cup Row(1) = At(1)
BY DEF First, Full, At, Built, Row, Revision, Rows

(* A row in the database names the revision the database is at.            *)
LEMMA RowTells ==
    ASSUME VersionTellsTheSchema, NEW k \in 1..Head, Revision[k] \in db
    PROVE  db = At(k)
<1>1. Revision[k] \in Rows  BY RevisionFacts
<1>2. ~(db \subseteq Ground)  BY <1>1, FirstFacts
<1>3. PICK j \in 1..Head : db = At(j)  BY <1>2 DEF VersionTellsTheSchema, Ground
<1>4. Revision[k] = Revision[j]  BY <1>1, <1>3, AtFacts
<1> QED  BY <1>3, <1>4, RowsDiffer

----------------------------------------------------------------------------
(* A statement of r, and what it does to the locks.                        *)
LEMMA Changed ==
    ASSUME TypeOK, NEW r \in Runs, NEW add, NEW del, NEW locked, Change(r, add, del, locked),
           add \cap del = {}, db' = db
    PROVE  /\ Sees(r)' = (Sees(r) \ del) \cup add
           /\ work'[r].add = (work[r].add \ del) \cup add
           /\ work'[r].del = (work[r].del \ add) \cup del
           /\ work'[r].locked = work[r].locked \cup add \cup del \cup locked
           /\ \A q \in Runs \ {r} : work'[q] = work[q]
<1> DEFINE W == [add |-> (work[r].add \ del) \cup add,
                 del |-> (work[r].del \ add) \cup del,
                 locked |-> work[r].locked \cup add \cup del \cup locked]
<1>1. work' = [work EXCEPT ![r] = W]  BY DEF Change
<1>2. /\ W.add = (work[r].add \ del) \cup add /\ W.del = (work[r].del \ add) \cup del
      /\ W.locked = work[r].locked \cup add \cup del \cup locked
  OBVIOUS
<1> HIDE DEF W
<1>3. work'[r] = W /\ \A q \in Runs \ {r} : work'[q] = work[q]  BY <1>1 DEF TypeOK
<1>4. Sees(r)' = (db \ work'[r].del) \cup work'[r].add  BY DEF Sees
<1>5. Sees(r)' = (Sees(r) \ del) \cup add  BY <1>2, <1>3, <1>4 DEF Sees
<1> QED  BY <1>2, <1>3, <1>5

LEMMA LocksTaken ==
    ASSUME TypeOK, LockInv, NEW r \in Runs, NEW add, NEW del, NEW locked,
           Change(r, add, del, locked), add \cap del = {}, db' = db,
           Unlocked(r, add \cup del \cup locked)
    PROVE  LockInv'
<1>1. /\ work'[r].add \cup work'[r].del \subseteq work'[r].locked
      /\ work'[r].locked = work[r].locked \cup add \cup del \cup locked
      /\ \A q \in Runs \ {r} : work'[q] = work[q]
  BY Changed DEF LockInv
<1>2. ASSUME NEW q \in Runs \ {r}
      PROVE  work'[r].locked \cap work'[q].locked = {}
  BY <1>1, <1>2 DEF LockInv, Unlocked
<1> QED  BY <1>1, <1>2 DEF LockInv

LEMMA LocksDropped ==
    ASSUME TypeOK, LockInv, NEW r \in Runs, work' = [work EXCEPT ![r] = Nothing]
    PROVE  LockInv' /\ work'[r] = Nothing /\ \A q \in Runs \ {r} : work'[q] = work[q]
<1>1. work'[r] = Nothing /\ \A q \in Runs \ {r} : work'[q] = work[q]  BY DEF TypeOK
<1>2. work'[r].add = {} /\ work'[r].del = {} /\ work'[r].locked = {}  BY <1>1 DEF Nothing
<1> QED  BY <1>1, <1>2 DEF LockInv

----------------------------------------------------------------------------
(* Nobody else's commit touches what a run has locked.                     *)
LEMMA LockedStays ==
    ASSUME LockInv, NEW r \in Runs, NEW q \in Runs \ {r}, db' = Sees(r), NEW f,
           f \in work[q].locked
    PROVE  f \in db' <=> f \in db
BY DEF LockInv, Sees

(* Where r may take the database: it is left as it is, or still before the *)
(* first revision, or r is on course and has stamped revision t.           *)
Reaches(r, t) == /\ t \in 1..Head /\ Sees(r) = At(t)
                 /\ Revision[t] \in work[r].locked
Commits(r) == \/ Sees(r) = db
              \/ db \subseteq Sees(r) /\ Sees(r) \subseteq Ground
              \/ \E t : Reaches(r, t)

(* Then a run that is on course finds nothing changed at all: of two runs  *)
(* that have stamped from the same version, one waits for the other's row. *)
LEMMA OneOnCourse ==
    ASSUME TypeInv, VersionInv, NEW r \in Runs, NEW q \in Runs \ {r}, Commits(r), db' = Sees(r),
           pc[q] \in {"migrate", "stamp"}, ~Fresh(q), OnCourse(q)
    PROVE  db' = db
<1>0. StampedInv(q) /\ level[q] \in 1..Head /\ level[q] # 0
  BY DEF VersionInv, PathInv, StampedInv, TypeInv, TypeOK, Head
<1>1. /\ pc[q] = "stamp" /\ cmd[q] # "upgrade" => level[q] >= 2
      /\ pc[q] = "stamp" /\ cmd[q] = "upgrade" => level[q] + 1 \in 1..Head
  BY <1>0 DEF StampedInv, TypeInv, TypeOK, RunInv, Upgrades, Downgrades, Head
<1>2. First \subseteq Sees(q) /\ Sees(q) \cap Rows = {Revision[level[q]]}
  <2>1. First \subseteq At(level[q]) /\ At(level[q]) \cap Rows = {Revision[level[q]]}
    BY <1>0, AtFacts
  <2>2. CASE pc[q] = "migrate"  BY <2>1, <2>2 DEF OnCourse
  <2>3. CASE pc[q] = "stamp" /\ cmd[q] = "upgrade"
    <3>1. Full(level[q] + 1) \cap Rows = {}  BY <1>1, <2>3, FullFacts
    <3>2. Sees(q) = At(level[q]) \cup Full(level[q] + 1)  BY <2>3 DEF OnCourse
    <3> QED  BY <2>1, <3>1, <3>2
  <2>4. CASE pc[q] = "stamp" /\ cmd[q] # "upgrade"
    <3>1. Full(level[q]) \cap Rows = {}  BY <1>0, FullFacts
    <3>2. Full(level[q]) \cap First = {}
      BY <1>0, <1>1, <2>4 DEF Full, First, Head
    <3>3. Sees(q) = At(level[q]) \ Full(level[q])  BY <2>4 DEF OnCourse
    <3> QED  BY <2>1, <3>1, <3>2, <3>3
  <2> QED  BY <2>2, <2>3, <2>4
<1>3. ASSUME NEW f \in Sees(q), f \notin db PROVE f \notin db'
  <2>1. f \in work[q].locked  BY <1>3 DEF Sees, VersionInv, LockInv
  <2> QED  BY <1>3, <2>1, LockedStays DEF VersionInv
<1>4. CASE Sees(r) = db  BY <1>4
<1>5. CASE db \subseteq Sees(r) /\ Sees(r) \subseteq Ground
  BY <1>2, <1>3, <1>5, FirstFacts
<1>6. ASSUME NEW t, Reaches(r, t) PROVE db' = db
  <2>1. t \in 1..Head /\ db' = At(t) /\ First \subseteq db' /\ db' \cap Rows = {Revision[t]}
    BY <1>6, AtFacts DEF Reaches
  <2>2. CASE db \subseteq Ground  BY <1>2, <1>3, <2>1, <2>2, FirstFacts
  <2>3. CASE ~(db \subseteq Ground)
    <3>1. PICK d \in 1..Head : db = At(d)
      BY <2>3 DEF VersionInv, VersionTellsTheSchema, Ground
    <3>2. Revision[d] \in db /\ Revision[d] \in Rows  BY <3>1, AtFacts, RevisionFacts
    <3>3. CASE d = t  BY <2>1, <3>1, <3>3
    <3>4. CASE d # t
      <4>1. Revision[d] \notin db'  BY <2>1, <3>2, <3>4, RowsDiffer
      <4>2. Revision[d] \in work[q].locked
        <5>1. CASE d = level[q]  BY <1>0, <5>1 DEF StampedInv
        <5>2. CASE d # level[q]
          <6>1. Revision[d] \notin Sees(q)  BY <1>0, <1>2, <3>2, <5>2, RowsDiffer
          <6> QED  BY <3>2, <6>1 DEF Sees, VersionInv, LockInv
        <5> QED  BY <5>1, <5>2
      <4> QED  BY <3>2, <4>1, <4>2, LockedStays DEF VersionInv
    <3> QED  BY <3>3, <3>4
  <2> QED  BY <2>2, <2>3
<1> QED  BY <1>4, <1>5, <1>6 DEF Commits

(* A run that r leaves alone keeps to its path if the database does not    *)
(* change,                                                                 *)
LEMMA Unmoved ==
    ASSUME NEW q \in Runs, PathInv(q), db' = db,
           cmd'[q] = cmd[q], target'[q] = target[q], pc'[q] = pc[q],
           level'[q] = level[q], work'[q] = work[q]
    PROVE  PathInv(q)' /\ (Fresh(q)' <=> Fresh(q)) /\ (OnCourse(q)' <=> OnCourse(q))
<1>1. Sees(q)' = Sees(q) /\ (Fresh(q)' <=> Fresh(q))  BY DEF Sees, Fresh
<1>2. OnCourse(q)' <=> OnCourse(q)  BY <1>1 DEF OnCourse
<1>3. Overtaken(q)' <=> Overtaken(q)  BY DEF Overtaken
<1>4. FreshInv(q)' <=> FreshInv(q)  BY <1>1 DEF FreshInv
<1>5. StampedInv(q)' <=> StampedInv(q)  BY <1>2, <1>3 DEF StampedInv
<1> QED  BY <1>1, <1>2, <1>4, <1>5 DEF PathInv

(* and if r commits.                                                       *)
LEMMA Survives ==
    ASSUME TypeInv, VersionInv, NEW r \in Runs, NEW q \in Runs \ {r}, Commits(r), db' = Sees(r),
           cmd'[q] = cmd[q], target'[q] = target[q], pc'[q] = pc[q],
           level'[q] = level[q], work'[q] = work[q]
    PROVE  PathInv(q)'
<1>0. PathInv(q) /\ LockInv  BY DEF VersionInv
<1>1. CASE db' = db  BY <1>0, <1>1, Unmoved
<1>2. CASE db' # db
  <2>1. Sees(q)' = (db' \ work[q].del) \cup work[q].add  BY DEF Sees
  <2>2. Fresh(q)' <=> Fresh(q)  BY DEF Fresh
  <2>3. "schema" \in db => "schema" \in db'
    BY <1>2, AtFacts, FirstFacts DEF Commits, Reaches
  <2>4. "version_table" \in db => "version_table" \in db'
    BY <1>2, AtFacts, FirstFacts DEF Commits, Reaches
  <2>5. First \subseteq db => First \subseteq db'
    BY <1>2, AtFacts, FirstFacts DEF Commits, Reaches
  <2>6. \A f \in work[q].locked : f \in Sees(q)' <=> f \in Sees(q)
    BY <1>0, <2>1, LockedStays DEF Sees
  <2>7. pc[q] = "handover" => "schema" \in Sees(q)'
    BY <1>0, <2>1, <2>3 DEF PathInv, Sees
  <2>8. ASSUME pc[q] \in {"migrate", "stamp"}, Fresh(q) PROVE FreshInv(q)'
    <3>0. FreshInv(q)  BY <1>0, <2>8 DEF PathInv
    <3>1. "version_table" \in Sees(q)'  BY <2>1, <2>4, <3>0 DEF FreshInv, Sees
    <3>2. pc[q] = "stamp" /\ cmd[q] = "upgrade" =>
             Full(level[q] + 1) \subseteq Sees(q)' \cap work[q].locked
      BY <2>6, <3>0 DEF FreshInv
    <3>3. pc[q] = "stamp" /\ cmd[q] = "downgrade" =>
             Full(level[q]) \subseteq work[q].locked \ Sees(q)'
      BY <2>6, <3>0 DEF FreshInv
    <3> QED  BY <3>0, <3>1, <3>2, <3>3 DEF FreshInv
  <2>9. ASSUME pc[q] \in {"migrate", "stamp"}, ~Fresh(q) PROVE StampedInv(q)'
    <3>0. StampedInv(q)  BY <1>0, <2>9 DEF PathInv
    <3>1. ~OnCourse(q)  BY <1>2, <2>9, OneOnCourse
    <3>2. Overtaken(q)  BY <3>0, <3>1 DEF StampedInv
    <3>3. PICK k \in 1..Head : k > level[q] /\ db = At(k)  BY <3>2 DEF Overtaken
    <3>4. PICK t : Reaches(r, t)
      <4>1. ~(db \subseteq Ground)  BY <3>3, AtFacts
      <4> QED  BY <1>2, <4>1 DEF Commits
    <3>5. t \in 1..Head /\ db' = At(t) /\ Revision[t] \notin work[q].locked
      BY <1>0, <3>4 DEF Reaches, LockInv
    <3>6. t > level[q]
      BY <3>2, <3>5 DEF Overtaken, TypeInv, TypeOK, Head
    <3>7. Overtaken(q)'  BY <3>2, <3>5, <3>6 DEF Overtaken
    <3> QED  BY <3>0, <3>7 DEF StampedInv
  <2> QED  BY <1>0, <2>2, <2>3, <2>5, <2>7, <2>8, <2>9 DEF PathInv
<1> QED  BY <1>1, <1>2

----------------------------------------------------------------------------
(* The steps of a run in Alembic's transaction, one lemma each: it keeps   *)
(* to its path, and is current if it was.                                  *)
LEMMA OnConfigure ==
    ASSUME TypeInv, VersionInv, NEW r \in Runs, Configure(r)
    PROVE  PathInv(r)' /\ Current(r)'
<1>0. PathInv(r) /\ VersionTellsTheSchema  BY DEF VersionInv
<1>1. work[r] = Nothing /\ work' = work /\ db' = db
  BY DEF Configure, TypeInv, TypeOK, RunInv, TxnAt
<1>2. work[r].add = {} /\ work[r].del = {} /\ work[r].locked = {}  BY <1>1 DEF Nothing
<1>3. Sees(r) = db /\ Sees(r)' = db  BY <1>1, <1>2 DEF Sees
<1>4. pc'[r] = "ensure" /\ level'[r] = LevelOf(db) /\ level'[r] \in 0..Head
  BY <1>3, LevelOfRow DEF Configure, TypeInv, TypeOK, Goto
<1>5. level'[r] # 0 => level'[r] \in 1..Head /\ db = At(level'[r]) /\ First \subseteq db
  BY <1>0, <1>4, LevelOfRow, RowTells, AtFacts DEF Head
<1>6. level'[r] = 0 => db \subseteq Ground
  <2>1. SUFFICES ASSUME NEW k \in 1..Head, db = At(k) PROVE LevelOf(db) # 0
    BY <1>0, <1>4 DEF VersionTellsTheSchema, Ground
  <2>2. Revision[k] \in db \cap Rows  BY <2>1, AtFacts, RevisionFacts
  <2>3. LevelOf(db) = CHOOSE j \in 1..Head : Revision[j] \in db  BY <2>2 DEF LevelOf
  <2>4. LevelOf(db) \in 1..Head  BY <2>2, <2>3
  <2> QED  BY <2>4 DEF Head
<1>7. PathInv(r)'
  BY <1>0, <1>1, <1>4, <1>5 DEF PathInv, Configure, Goto
<1> QED  BY <1>1, <1>4, <1>5, <1>6, <1>7 DEF Current

LEMMA OnEnsure ==
    ASSUME TypeInv, VersionInv, NEW r \in Runs, EnsureVersionTable(r)
    PROVE  LockInv' /\ PathInv(r)' /\ (Current(r) => Current(r)')
<1>0. PathInv(r) /\ LockInv /\ TypeOK  BY DEF VersionInv, TypeInv
<1>1. /\ pc[r] = "ensure" /\ pc'[r] = "migrate" /\ level' = level /\ db' = db
      /\ cmd' = cmd /\ target' = target
  BY <1>0 DEF EnsureVersionTable, Goto, TypeOK
<1>2. work[r].add = {} /\ work[r].del = {} /\ work[r].locked = {} /\ Sees(r) = db
  BY <1>0, <1>1 DEF PathInv, Nothing, Sees
<1>3. Fresh(r)  BY <1>2 DEF Fresh
<1>4. CASE ~NeedsVersionTable(r) /\ UNCHANGED work
  <2>1. Sees(r)' = db /\ Fresh(r)'  BY <1>1, <1>2, <1>3, <1>4 DEF Sees, Fresh
  <2>2. "version_table" \in db
    BY <1>0, <1>1, <1>2, <1>3, <1>4, FirstFacts DEF NeedsVersionTable, PathInv
  <2>3. FreshInv(r)'  BY <1>1, <1>2, <1>4, <2>1, <2>2 DEF FreshInv
  <2>4. PathInv(r)'  BY <1>0, <1>1, <1>3, <2>1, <2>3 DEF PathInv
  <2>5. LockInv'  BY <1>0, <1>4 DEF LockInv
  <2> QED  BY <1>1, <1>3, <2>1, <2>4, <2>5 DEF Current
<1>5. CASE /\ NeedsVersionTable(r) /\ Unlocked(r, {"version_table"})
           /\ Change(r, {"version_table"}, {}, {})
  <2>1. /\ Sees(r)' = db \cup {"version_table"}
        /\ work'[r].add = {"version_table"} /\ work'[r].del = {}
        /\ work'[r].locked = {"version_table"}
    BY <1>0, <1>1, <1>2, <1>5, Changed
  <2>2. LockInv'  BY <1>0, <1>1, <1>5, LocksTaken
  <2>3. Fresh(r)'  BY <2>1, FirstFacts DEF Fresh
  <2>4. level[r] = 0  BY <1>5 DEF NeedsVersionTable
  <2>5. FreshInv(r)'  BY <1>1, <2>1, <2>4 DEF FreshInv
  <2>6. PathInv(r)'  BY <1>0, <1>1, <1>3, <2>3, <2>5 DEF PathInv
  <2> QED  BY <1>1, <1>3, <2>2, <2>3, <2>6 DEF Current
<1> QED  BY <1>4, <1>5 DEF EnsureVersionTable

LEMMA OnUpgrade ==
    ASSUME TypeInv, VersionInv, NEW r \in Runs, Upgrade(r)
    PROVE  LockInv' /\ PathInv(r)' /\ (Current(r) => Current(r)')
<1> DEFINE k == level[r] + 1
           M == Made(k, Sees(r))
<1>0. PathInv(r) /\ LockInv /\ TypeOK  BY DEF VersionInv, TypeInv
<1>1. /\ pc[r] = "migrate" /\ pc'[r] = "stamp" /\ cmd[r] = "upgrade"
      /\ level' = level /\ db' = db /\ cmd' = cmd /\ target' = target
      /\ Unlocked(r, M) /\ Change(r, M \ Sees(r), {}, M)
  BY <1>0 DEF Upgrade, Upgrades, Goto, TypeOK
<1>2. k \in 1..Head /\ level[r] \in 0..Head  BY <1>0 DEF Upgrade, Upgrades, TypeOK, Head
<1>3. level[r] # 0 => "default_privileges" \in Sees(r)
  <2>1. CASE Fresh(r)
    BY <1>0, <1>1, <2>1, FirstFacts DEF PathInv, FreshInv, Sees
  <2>2. CASE ~Fresh(r) /\ OnCourse(r) /\ level[r] # 0
    <3>1. level[r] \in 1..Head  BY <1>2, <2>2 DEF Head
    <3> QED  BY <1>1, <2>2, <3>1, AtFacts, FirstFacts DEF OnCourse
  <2>3. CASE ~Fresh(r) /\ Overtaken(r)
    <3>1. PICK j \in 1..Head : db = At(j)  BY <2>3 DEF Overtaken
    <3>2. "default_privileges" \in db  BY <3>1, AtFacts, FirstFacts
    <3>3. "default_privileges" \notin work[r].del
      <4>2. \A i \in 1..level[r] - 1 : i \in 1..Head  BY <1>2 DEF Head
      <4>3. work[r].del \subseteq Rows  BY <2>3, <4>2, RevisionFacts DEF Overtaken
      <4> QED  BY <4>3, FirstFacts
    <3> QED  BY <3>2, <3>3 DEF Sees
  <2> QED  BY <1>0, <1>1, <2>1, <2>2, <2>3 DEF PathInv, StampedInv
<1>4. M = Full(k) /\ M \cap Rows = {} /\ M \subseteq Facts
  BY <1>2, <1>3, MadeFull, FullFacts
<1> HIDE DEF M
<1>5. /\ Sees(r)' = Sees(r) \cup M
      /\ work'[r].add = work[r].add \cup (M \ Sees(r)) /\ work'[r].del = work[r].del \ (M \ Sees(r))
      /\ work'[r].locked = work[r].locked \cup M
  BY <1>0, <1>1, Changed
<1>6. LockInv'
  <2>1. Unlocked(r, (M \ Sees(r)) \cup {} \cup M)  BY <1>1 DEF Unlocked
  <2> QED  BY <1>0, <1>1, <2>1, LocksTaken
<1>7. Fresh(r)' <=> Fresh(r)  BY <1>4, <1>5 DEF Fresh
<1>8. Fresh(r) => FreshInv(r)'
  <2> SUFFICES ASSUME Fresh(r) PROVE FreshInv(r)'  OBVIOUS
  <2>1. FreshInv(r)  BY <1>0, <1>1 DEF PathInv
  <2> QED  BY <1>1, <1>4, <1>5, <2>1 DEF FreshInv
<1>9. OnCourse(r) => OnCourse(r)'
  BY <1>1, <1>4, <1>5 DEF OnCourse
<1>10. Overtaken(r) => Overtaken(r)'
  BY <1>1, <1>5 DEF Overtaken
<1>11. ~Fresh(r) => StampedInv(r)'
  <2> SUFFICES ASSUME ~Fresh(r) PROVE StampedInv(r)'  OBVIOUS
  <2>1. StampedInv(r)  BY <1>0, <1>1 DEF PathInv
  <2> QED  BY <1>1, <1>5, <1>9, <1>10, <2>1 DEF StampedInv
<1>12. PathInv(r)'
  BY <1>0, <1>1, <1>7, <1>8, <1>11 DEF PathInv
<1> QED  BY <1>1, <1>6, <1>7, <1>9, <1>12 DEF Current

LEMMA OnDowngrade ==
    ASSUME TypeInv, VersionInv, NEW r \in Runs, Downgrade(r)
    PROVE  LockInv' /\ PathInv(r)' /\ (Current(r) => Current(r)')
<1> DEFINE k == level[r]
           U == IF k = 3 THEN {"ha_credential", "credential_grants"} ELSE Made(k, Sees(r))
<1>0. PathInv(r) /\ LockInv /\ TypeOK  BY DEF VersionInv, TypeInv
<1>1. /\ pc[r] = "migrate" /\ pc'[r] = "stamp" /\ cmd[r] = "downgrade" /\ CanDowngrade(r, k)
      /\ level' = level /\ db' = db /\ cmd' = cmd /\ target' = target
      /\ Unlocked(r, U) /\ Change(r, {}, U \cap Sees(r), U)
  BY <1>0 DEF Downgrade, Downgrades, Goto, TypeOK
<1>2. k \in 1..Head  BY <1>0 DEF Downgrade, Downgrades, TypeOK, Head
<1>3. ~Fresh(r) => OnCourse(r)
  BY <1>0, <1>1 DEF PathInv, StampedInv, Overtaken
<1>4. "version_table" \in Sees(r)
  BY <1>0, <1>1, <1>2, <1>3, AtFacts, FirstFacts DEF PathInv, FreshInv, OnCourse
<1>5. k \in 2..Head  BY <1>1, <1>2, <1>4 DEF CanDowngrade, Head
<1>6. U = Full(k) /\ U \cap Rows = {} /\ U \subseteq Facts
  <2>1. CASE k = 3  BY <1>2, <2>1, FullFacts DEF Full
  <2>2. CASE k = 2  BY <1>2, <2>2, MadeFull, FullFacts DEF Full
  <2> QED  BY <1>5, <2>1, <2>2 DEF Head
<1> HIDE DEF U
<1>7. /\ Sees(r)' = Sees(r) \ U
      /\ work'[r].add = work[r].add \ (U \cap Sees(r))
      /\ work'[r].del = work[r].del \cup (U \cap Sees(r))
      /\ work'[r].locked = work[r].locked \cup U
  <2>1. /\ Sees(r)' = Sees(r) \ (U \cap Sees(r))
        /\ work'[r].add = work[r].add \ (U \cap Sees(r))
        /\ work'[r].del = work[r].del \cup (U \cap Sees(r))
        /\ work'[r].locked = work[r].locked \cup (U \cap Sees(r)) \cup U
    BY <1>0, <1>1, Changed
  <2> QED  BY <2>1
<1>8. LockInv'
  <2>1. Unlocked(r, {} \cup (U \cap Sees(r)) \cup U)  BY <1>1 DEF Unlocked
  <2> QED  BY <1>0, <1>1, <2>1, LocksTaken
<1>9. Fresh(r)' <=> Fresh(r)  BY <1>6, <1>7 DEF Fresh
<1>10. Fresh(r) => FreshInv(r)'
  <2> SUFFICES ASSUME Fresh(r) PROVE FreshInv(r)'  OBVIOUS
  <2>1. work[r].add = {} /\ work[r].del = {}
    BY <1>0, <1>1, <1>2 DEF PathInv, FreshInv, Head
  <2>2. "version_table" \notin U  BY <1>5, <1>6 DEF Full, Head
  <2>3. level'[r] >= 2  BY <1>1, <1>5 DEF Head
  <2> QED  BY <1>1, <1>4, <1>6, <1>7, <2>1, <2>2, <2>3 DEF FreshInv
<1>11. ~Fresh(r) => OnCourse(r)'
  BY <1>1, <1>3, <1>6, <1>7 DEF OnCourse
<1>12. ~Fresh(r) => StampedInv(r)'
  <2> SUFFICES ASSUME ~Fresh(r) PROVE StampedInv(r)'  OBVIOUS
  <2>1. StampedInv(r)  BY <1>0, <1>1 DEF PathInv
  <2>2. level'[r] >= 2  BY <1>1, <1>5 DEF Head
  <2> QED  BY <1>1, <1>7, <1>11, <2>1, <2>2 DEF StampedInv
<1>13. PathInv(r)'
  BY <1>0, <1>1, <1>9, <1>10, <1>12 DEF PathInv
<1> QED  BY <1>1, <1>8, <1>9, <1>11, <1>13 DEF Current

LEMMA OnStamp ==
    ASSUME TypeInv, VersionInv, NEW r \in Runs, Stamp(r)
    PROVE  LockInv' /\ PathInv(r)' /\ (Current(r) => Current(r)')
<1> DEFINE l == level[r]
           a == After(r)
<1>0. PathInv(r) /\ LockInv /\ TypeOK /\ VersionTellsTheSchema  BY DEF VersionInv, TypeInv
<1>1. /\ pc[r] = "stamp" /\ pc'[r] = "migrate" /\ level'[r] = a
      /\ db' = db /\ cmd' = cmd /\ target' = target /\ CanStamp(r)
      /\ Unlocked(r, Row(l) \cup Row(a)) /\ Change(r, Row(a), Row(l), {})
  BY <1>0 DEF Stamp, Goto, TypeOK
<1>2. \/ cmd[r] = "upgrade" /\ a = l + 1 /\ l \in 0..Head - 1
      \/ cmd[r] = "downgrade" /\ a = l - 1 /\ l \in 2..Head
  <2>1. Upgrades(r) \/ Downgrades(r)  BY <1>1 DEF TypeInv, RunInv
  <2>2. CASE Upgrades(r)
    BY <1>0, <2>2 DEF Upgrades, After, TypeOK, Head
  <2>3. CASE Downgrades(r)
    <3>1. cmd[r] = "downgrade" /\ l \in 0..Head  BY <1>0, <2>3 DEF Downgrades, TypeOK
    <3>2. l >= 2  BY <1>0, <1>1, <3>1 DEF PathInv, FreshInv, StampedInv
    <3> QED  BY <3>1, <3>2 DEF After, Head
  <2> QED  BY <2>1, <2>2, <2>3
<1>3. a \in 1..Head /\ l \in 0..Head /\ a # l  BY <1>2 DEF Head
<1>4. /\ Row(a) = {Revision[a]} /\ Revision[a] \in Rows /\ Row(l) \subseteq Rows
      /\ Row(a) \cap Row(l) = {}
      /\ l # 0 => l \in 1..Head /\ Row(l) = {Revision[l]}
  <2>1. Row(a) = {Revision[a]} /\ Revision[a] \in Rows /\ Row(l) \subseteq Rows
    BY <1>3, RowFacts, RevisionFacts DEF Row, Head
  <2>2. l # 0 => l \in 1..Head /\ Row(l) = {Revision[l]}  BY <1>3 DEF Row, Head
  <2>3. Row(a) \cap Row(l) = {}
    <3>1. CASE l = 0  BY <3>1 DEF Row
    <3>2. CASE l # 0  BY <1>3, <2>1, <2>2, <3>2, RowsDiffer
    <3> QED  BY <3>1, <3>2
  <2> QED  BY <2>1, <2>2, <2>3
<1>5. /\ Sees(r)' = (Sees(r) \ Row(l)) \cup Row(a)
      /\ work'[r].add = (work[r].add \ Row(l)) \cup Row(a)
      /\ work'[r].del = (work[r].del \ Row(a)) \cup Row(l)
      /\ work'[r].locked = work[r].locked \cup Row(a) \cup Row(l)
  BY <1>0, <1>1, <1>4, Changed
<1>6. LockInv'
  <2>1. Unlocked(r, Row(a) \cup Row(l) \cup {})  BY <1>1 DEF Unlocked
  <2> QED  BY <1>0, <1>1, <1>4, <2>1, LocksTaken
<1>7. ~Fresh(r)' /\ Revision[a] \in work'[r].locked  BY <1>4, <1>5 DEF Fresh
<1>8. Row(l) \subseteq Sees(r) /\ Revision[a] \notin Sees(r)  BY <1>1, <1>4 DEF CanStamp
<1>9. ASSUME l # 0, Fresh(r) PROVE OnCourse(r)
  <2>1. FreshInv(r)  BY <1>0, <1>1, <1>9 DEF PathInv
  <2>2. Revision[l] \in Sees(r) /\ Revision[l] \in Rows
    BY <1>4, <1>8, <1>9, RevisionFacts
  <2>3. work[r].add \cap Rows = {}  BY <1>0, <1>9 DEF Fresh, LockInv
  <2>4. db = At(l) /\ First \subseteq db
    <3>1. Revision[l] \in db  BY <2>2, <2>3 DEF Sees
    <3> QED  BY <1>0, <1>4, <1>9, <3>1, RowTells, AtFacts
  <2>5. CASE cmd[r] = "upgrade"
    <3>1. work[r].del = {} /\ work[r].add \subseteq {"version_table"} \cup Full(l + 1)
          /\ Full(l + 1) \subseteq Sees(r)
      BY <1>1, <2>1, <2>5 DEF FreshInv
    <3>2. Sees(r) = At(l) \cup Full(l + 1)  BY <2>4, <3>1, FirstFacts DEF Sees
    <3> QED  BY <1>1, <2>5, <3>2 DEF OnCourse
  <2>6. CASE cmd[r] = "downgrade"
    <3>1. work[r].add = {} /\ work[r].del \subseteq Full(l) /\ Full(l) \cap Sees(r) = {}
      BY <1>1, <2>1, <2>6 DEF FreshInv
    <3>2. Sees(r) = At(l) \ Full(l)  BY <2>4, <3>1 DEF Sees
    <3> QED  BY <1>1, <2>6, <3>2 DEF OnCourse
  <2> QED  BY <1>2, <2>5, <2>6
<1>10. ASSUME l # 0, OnCourse(r) PROVE OnCourse(r)'
  <2>1. CASE cmd[r] = "upgrade"
    <3>1. Sees(r) = At(l) \cup Full(l + 1)  BY <1>1, <1>10, <2>1 DEF OnCourse
    <3>2. l \in 1..Head - 1 /\ a = l + 1  BY <1>2, <1>10, <2>1 DEF Head
    <3>3. Sees(r)' = At(a)  BY <1>5, <3>1, <3>2, StampedUp
    <3> QED  BY <1>1, <3>3 DEF OnCourse
  <2>2. CASE cmd[r] = "downgrade"
    <3>1. Sees(r) = At(l) \ Full(l)  BY <1>1, <1>10, <2>2 DEF OnCourse
    <3>2. l \in 2..Head /\ a = l - 1  BY <1>2, <2>2
    <3>3. Sees(r)' = At(a)  BY <1>5, <3>1, <3>2, StampedDown
    <3> QED  BY <1>1, <3>3 DEF OnCourse
  <2> QED  BY <1>2, <2>1, <2>2
<1>11. ASSUME l = 0 PROVE Fresh(r) /\ FreshInv(r) /\ cmd[r] = "upgrade" /\ a = 1
  BY <1>0, <1>1, <1>2, <1>11 DEF PathInv, StampedInv
<1>12. ASSUME l = 0, db \subseteq Ground PROVE OnCourse(r)'
  <2>1. /\ work[r].del = {} /\ work[r].add \subseteq {"version_table"} \cup Full(1)
        /\ Full(1) \subseteq Sees(r) /\ "version_table" \in Sees(r)
    BY <1>1, <1>11, <1>12 DEF FreshInv
  <2>2. Sees(r) = First  BY <1>12, <2>1, FirstFacts DEF Sees, First
  <2>3. Row(l) = {}  BY <1>12 DEF Row
  <2>4. Sees(r)' = At(1)  BY <1>5, <1>11, <1>12, <2>2, <2>3, StampedFirst
  <2> QED  BY <1>1, <1>11, <1>12, <2>4 DEF OnCourse
<1>13. ASSUME l = 0, NEW k \in 1..Head, db = At(k) PROVE Overtaken(r)'
  <2>1. work[r].del = {} /\ Revision[k] \in db
    BY <1>1, <1>11, <1>13, AtFacts DEF FreshInv
  <2>2. k # 1  BY <1>8, <1>11, <1>13, <2>1 DEF Sees
  <2>3. k > level'[r] /\ level'[r] = 1  BY <1>1, <1>11, <1>13, <2>2 DEF Head
  <2>4. work'[r].del = {}  BY <1>5, <1>13, <2>1 DEF Row
  <2>5. \A j \in 1..level'[r] : Revision[j] \in work'[r].locked
    BY <1>7, <1>11, <1>13, <2>3
  <2> QED  BY <1>1, <1>11, <1>13, <2>3, <2>4, <2>5 DEF Overtaken
<1>14. ASSUME Overtaken(r), l # 0 PROVE Overtaken(r)'
  <2>1. cmd[r] = "upgrade" /\ a = l + 1 /\ l \in 1..Head - 1
    BY <1>2, <1>14 DEF Overtaken, Head
  <2>2. PICK k \in 1..Head : k > l /\ db = At(k)  BY <1>14 DEF Overtaken
  <2>3. work[r].del \subseteq {Revision[j] : j \in 1..l - 1}  BY <1>14 DEF Overtaken
  <2>4. Revision[k] \in Sees(r)
    <3>1. Revision[k] \in db  BY <2>2, AtFacts
    <3>2. ASSUME NEW j \in 1..l - 1 PROVE Revision[j] # Revision[k]
      <4>1. j \in 1..Head /\ j < k  BY <2>1, <2>2 DEF Head
      <4> QED  BY <4>1, RowsDiffer
    <3> QED  BY <2>3, <3>1, <3>2 DEF Sees
  <2>5. k > a  BY <1>8, <2>1, <2>2, <2>4 DEF Head
  <2>6. work'[r].del \subseteq {Revision[j] : j \in 1..a - 1}
    <3>1. \A j \in 1..l - 1 : j \in 1..a - 1  BY <2>1 DEF Head
    <3>2. l \in 1..a - 1  BY <2>1 DEF Head
    <3> QED  BY <1>4, <1>5, <1>14, <2>3, <3>1, <3>2
  <2>7. ASSUME NEW j \in 1..a PROVE Revision[j] \in work'[r].locked
    <3>1. j = a \/ j \in 1..l  BY <2>1 DEF Head
    <3> QED  BY <1>5, <1>7, <1>14, <3>1 DEF Overtaken
  <2> QED  BY <1>1, <2>1, <2>2, <2>5, <2>6, <2>7 DEF Overtaken
<1>15. OnCourse(r)' \/ Overtaken(r)'
  <2>1. CASE l = 0
    BY <1>0, <1>12, <1>13, <2>1 DEF VersionTellsTheSchema, Ground
  <2>2. CASE l # 0
    BY <1>0, <1>1, <1>9, <1>10, <1>14, <2>2 DEF PathInv, StampedInv
  <2> QED  BY <2>1, <2>2
<1>16. PathInv(r)'
  <2>1. StampedInv(r)'  BY <1>1, <1>3, <1>7, <1>15 DEF StampedInv, Head
  <2>2. "schema" \in db'  BY <1>0, <1>1 DEF PathInv
  <2> QED  BY <1>0, <1>1, <1>7, <2>1, <2>2 DEF PathInv
<1>17. Current(r) => OnCourse(r)'
  <2> SUFFICES ASSUME Current(r) PROVE OnCourse(r)'  OBVIOUS
  <2>1. CASE l = 0  BY <1>1, <1>11, <1>12, <2>1 DEF Current
  <2>2. CASE l # 0  BY <1>1, <1>9, <1>10, <2>2 DEF Current
  <2> QED  BY <2>1, <2>2
<1> QED  BY <1>1, <1>6, <1>7, <1>16, <1>17 DEF Current

(* Both commits of a run leave a database that is at some revision.        *)
LEMMA OnHandover ==
    ASSUME TypeInv, VersionInv, NEW r \in Runs, Handover(r)
    PROVE  Commits(r) /\ "schema" \in Sees(r) /\ (Sees(r) # db => Sees(r) \subseteq Ground)
<1>1. /\ work[r].del = {} /\ work[r].add \subseteq {"schema"} /\ "schema" \in Sees(r)
      /\ VersionTellsTheSchema
  BY DEF VersionInv, PathInv, Handover
<1>2. Sees(r) = db \cup work[r].add  BY <1>1 DEF Sees
<1>3. CASE "schema" \in db  BY <1>1, <1>2, <1>3 DEF Commits
<1>4. CASE "schema" \notin db
  <2>1. db \subseteq Ground
    BY <1>1, <1>4, AtFacts, FirstFacts DEF VersionTellsTheSchema, Ground
  <2> QED  BY <1>1, <1>2, <2>1 DEF Commits, Ground
<1> QED  BY <1>3, <1>4

LEMMA OnFinish ==
    ASSUME TypeInv, VersionInv, NEW r \in Runs, Finish(r)
    PROVE  Commits(r)
<1>0. PathInv(r) /\ VersionTellsTheSchema /\ pc[r] = "migrate" /\ level[r] = target[r]
  BY DEF VersionInv, Finish
<1>1. CASE Fresh(r)
  <2>1. /\ work[r].del = {} /\ work[r].add \subseteq {"version_table"}
        /\ "version_table" \in Sees(r)
    BY <1>0, <1>1 DEF PathInv, FreshInv
  <2>2. Sees(r) = db \cup work[r].add  BY <2>1 DEF Sees
  <2>3. CASE "version_table" \in db  BY <2>1, <2>2, <2>3 DEF Commits
  <2>4. CASE "version_table" \notin db
    <3>1. db \subseteq Ground
      BY <1>0, <2>4, AtFacts, FirstFacts DEF VersionTellsTheSchema, Ground
    <3> QED  BY <2>1, <2>2, <3>1 DEF Commits, Ground
  <2> QED  BY <2>3, <2>4
<1>2. CASE ~Fresh(r)
  <2>1. StampedInv(r)  BY <1>0, <1>2 DEF PathInv
  <2>2. ~Overtaken(r)
    BY <1>0 DEF PathInv, Overtaken, Head
  <2>3. Sees(r) = At(level[r]) /\ level[r] \in 1..Head
    BY <1>0, <2>1, <2>2 DEF StampedInv, OnCourse, TypeInv, TypeOK, Head
  <2> QED  BY <2>1, <2>3 DEF Commits, Reaches, StampedInv
<1> QED  BY <1>1, <1>2

----------------------------------------------------------------------------
(* A step of r that does not commit, and one that does.                    *)
LEMMA Alone ==
    ASSUME TypeInv, VersionInv, UnracedInv, NEW r \in Runs, db' = db,
           \A q \in Runs \ {r} : /\ cmd'[q] = cmd[q] /\ target'[q] = target[q] /\ pc'[q] = pc[q]
                                 /\ level'[q] = level[q] /\ work'[q] = work[q]
                                 /\ raced'[q] = raced[q],
           LockInv', PathInv(r)', ~raced'[r] => Current(r)'
    PROVE  VersionInv' /\ UnracedInv'
<1>1. ASSUME NEW q \in Runs \ {r} PROVE PathInv(q)' /\ (~raced'[q] => Current(q)')
  <2>1. PathInv(q) /\ (~raced[q] => Current(q))  BY DEF VersionInv, UnracedInv
  <2>2. PathInv(q)' /\ (Fresh(q)' <=> Fresh(q)) /\ (OnCourse(q)' <=> OnCourse(q))
    BY <2>1, Unmoved
  <2> QED  BY <2>1, <2>2 DEF Current
<1>2. VersionTellsTheSchema'  BY DEF VersionInv, VersionTellsTheSchema
<1> QED  BY <1>1, <1>2 DEF VersionInv, UnracedInv

LEMMA Together ==
    ASSUME TypeInv, VersionInv, UnracedInv, NEW r \in Runs, Install(r), Commits(r),
           \A q \in Runs \ {r} : /\ cmd'[q] = cmd[q] /\ target'[q] = target[q] /\ pc'[q] = pc[q]
                                 /\ level'[q] = level[q],
           pc'[r] \in {"configure", "ended"}, cmd'[r] = cmd[r], target'[r] = target[r],
           pc'[r] = "configure" => "schema" \in Sees(r)
    PROVE  VersionInv' /\ UnracedInv'
<1>1. /\ db' = Sees(r) /\ work' = [work EXCEPT ![r] = Nothing]
      /\ \A q \in Runs \ {r} : raced'[q] = (raced[q] \/ db' # db)
  BY DEF Install
<1>2. LockInv' /\ work'[r] = Nothing /\ \A q \in Runs \ {r} : work'[q] = work[q]
  BY <1>1, LocksDropped DEF TypeInv, VersionInv
<1>3. ASSUME NEW q \in Runs \ {r} PROVE PathInv(q)' /\ (~raced'[q] => Current(q)')
  <2>1. PathInv(q)'  BY <1>1, <1>2, Survives
  <2>2. ASSUME ~raced'[q] PROVE Current(q)'
    <3>1. db' = db /\ ~raced[q]  BY <1>1, <2>2
    <3>2. PathInv(q) /\ Current(q)  BY <3>1 DEF VersionInv, UnracedInv
    <3>3. (Fresh(q)' <=> Fresh(q)) /\ (OnCourse(q)' <=> OnCourse(q))
      BY <1>2, <3>1, <3>2, Unmoved
    <3> QED  BY <3>1, <3>2, <3>3 DEF Current
  <2> QED  BY <2>1, <2>2
<1>4. PathInv(r)'  BY <1>1 DEF VersionInv, PathInv
<1>5. Current(r)'  BY DEF Current
<1>6. VersionTellsTheSchema'
  BY <1>1 DEF Commits, Reaches, VersionInv, VersionTellsTheSchema, Ground
<1> QED  BY <1>2, <1>3, <1>4, <1>5, <1>6 DEF VersionInv, UnracedInv

LEMMA VersionInit == Init => VersionInv /\ UnracedInv
<1> SUFFICES ASSUME Init PROVE VersionInv /\ UnracedInv  OBVIOUS
<1>1. LockInv
  <2>1. \A r \in Runs : work[r] = Nothing  BY DEF Init
  <2> QED  BY <2>1 DEF LockInv, Nothing
<1>2. VersionTellsTheSchema
  <2>1. At(0) = {}  BY DEF At, Built, Rows
  <2>2. \A k \in 0..Head : k = 0 \/ k \in 1..Head  BY DEF Head
  <2> QED  BY <2>1, <2>2 DEF Init, VersionTellsTheSchema
<1>3. \A r \in Runs : PathInv(r) /\ Current(r)  BY DEF Init, PathInv, Current
<1> QED  BY <1>1, <1>2, <1>3 DEF VersionInv, UnracedInv

LEMMA VersionStep == TypeInv /\ VersionInv /\ UnracedInv /\ [Next]_vars => VersionInv' /\ UnracedInv'
<1> SUFFICES ASSUME TypeInv, VersionInv, UnracedInv, [Next]_vars PROVE VersionInv' /\ UnracedInv'
  OBVIOUS
<1>0. CASE UNCHANGED <<db, run, raced>>
  <2>1. LockInv' /\ VersionTellsTheSchema'
    BY <1>0 DEF run, VersionInv, LockInv, VersionTellsTheSchema
  <2>2. ASSUME NEW q \in Runs PROVE PathInv(q)' /\ (~raced'[q] => Current(q)')
    <3>1. PathInv(q) /\ (~raced[q] => Current(q))  BY DEF VersionInv, UnracedInv
    <3>2. PathInv(q)' /\ (Fresh(q)' <=> Fresh(q)) /\ (OnCourse(q)' <=> OnCourse(q))
      BY <1>0, <3>1, Unmoved DEF run
    <3> QED  BY <1>0, <3>1, <3>2 DEF Current, run
  <2> QED  BY <2>1, <2>2 DEF VersionInv, UnracedInv
<1>1. ASSUME NEW r \in Runs, Step(r) PROVE VersionInv' /\ UnracedInv'
  <2>0. TypeOK /\ LockInv /\ PathInv(r) /\ (~raced[r] => Current(r))
    BY DEF TypeInv, VersionInv, UnracedInv
  <2>1. CASE Begin(r)
    <3>1. work' = work /\ db' = db /\ pc'[r] = "bootstrap" /\ pc[r] = "new"
      BY <2>0, <2>1 DEF Begin, Goto, TypeOK
    <3>2. LockInv' /\ Current(r)'  BY <2>0, <3>1 DEF LockInv, Current
    <3>3. PathInv(r)'  BY <2>0, <2>1, <3>1 DEF Begin, PathInv, TypeOK
    <3> QED  BY <2>0, <2>1, <3>1, <3>2, <3>3, Alone DEF Begin, Goto, TypeOK
  <2>2. CASE Bootstrap(r)
    <3>1. /\ Change(r, {"schema"} \ db, {}, {}) /\ db' = db /\ pc'[r] = "handover"
          /\ work[r] = Nothing
      BY <2>0, <2>2 DEF Bootstrap, Goto, TypeOK, TypeInv, RunInv, TxnAt
    <3>2. work[r].add = {} /\ work[r].del = {} /\ Sees(r) = db
      BY <3>1 DEF Nothing, Sees
    <3>3. /\ Sees(r)' = Sees(r) \cup ({"schema"} \ db)
          /\ work'[r].add = {"schema"} \ db /\ work'[r].del = {}
      BY <2>0, <3>1, <3>2, Changed
    <3>4. LockInv'
      <4>1. Unlocked(r, ({"schema"} \ db) \cup {} \cup {})  BY <2>2 DEF Bootstrap, Unlocked
      <4> QED  BY <2>0, <3>1, <4>1, LocksTaken
    <3>5. PathInv(r)' /\ Current(r)'
      BY <2>0, <2>2, <3>1, <3>2, <3>3 DEF Bootstrap, PathInv, Current
    <3>6. \A q \in Runs \ {r} : work'[q] = work[q]  BY <2>0, <3>1, Changed
    <3> QED  BY <2>0, <2>2, <3>1, <3>4, <3>5, <3>6, Alone DEF Bootstrap, Goto, TypeOK
  <2>3. CASE Handover(r)
    BY <2>0, <2>3, OnHandover, Together DEF Handover, Goto, TypeOK
  <2>4. CASE Configure(r)
    <3>1. LockInv'  BY <2>0, <2>4 DEF Configure, LockInv
    <3> QED  BY <2>0, <2>4, <3>1, OnConfigure, Alone DEF Configure, Goto, TypeOK
  <2>5. CASE EnsureVersionTable(r)
    <3>1. \A q \in Runs \ {r} : work'[q] = work[q]
      BY <2>0, <2>5, Changed DEF EnsureVersionTable
    <3> QED  BY <2>0, <2>5, <3>1, OnEnsure, Alone DEF EnsureVersionTable, Goto, TypeOK
  <2>6. CASE Upgrade(r)
    <3>1. \A q \in Runs \ {r} : work'[q] = work[q]  BY <2>0, <2>6 DEF Upgrade, Change, TypeOK
    <3> QED  BY <2>0, <2>6, <3>1, OnUpgrade, Alone DEF Upgrade, Goto, TypeOK
  <2>7. CASE Downgrade(r)
    <3>1. \A q \in Runs \ {r} : work'[q] = work[q]  BY <2>0, <2>7 DEF Downgrade, Change, TypeOK
    <3> QED  BY <2>0, <2>7, <3>1, OnDowngrade, Alone DEF Downgrade, Goto, TypeOK
  <2>8. CASE Stamp(r)
    <3>1. \A q \in Runs \ {r} : work'[q] = work[q]  BY <2>0, <2>8 DEF Stamp, Change, TypeOK
    <3> QED  BY <2>0, <2>8, <3>1, OnStamp, Alone DEF Stamp, Goto, TypeOK
  <2>9. CASE Finish(r)
    <3>1. Install(r)
      BY <2>9 DEF Finish, TypeInv, RunInv, TxnAt
    <3> QED  BY <2>0, <2>9, <3>1, OnFinish, Together DEF Finish, End, Goto, TypeOK
  <2>10. CASE Refuse(r) \/ Fail(r)
    <3>1. /\ Discard(r) /\ pc'[r] = "ended" /\ cmd' = cmd /\ target' = target /\ level' = level
          /\ \A q \in Runs \ {r} : pc'[q] = pc[q]
      BY <2>0, <2>10 DEF Refuse, Fail, End, Goto, TypeOK
    <3>2. db' = db /\ raced' = raced /\ work' = [work EXCEPT ![r] = Nothing]  BY <3>1 DEF Discard
    <3>3. LockInv' /\ \A q \in Runs \ {r} : work'[q] = work[q]  BY <2>0, <3>2, LocksDropped
    <3>4. PathInv(r)' /\ Current(r)'  BY <2>0, <3>1 DEF PathInv, Current
    <3> QED  BY <3>1, <3>2, <3>3, <3>4, Alone
  <2>11. CASE Verify(r) \/ Deploy(r)
    <3>1. /\ work' = work /\ db' = db /\ raced' = raced /\ pc'[r] \in {"verified", "deployed"}
          /\ cmd' = cmd /\ target' = target /\ level' = level
          /\ \A q \in Runs \ {r} : pc'[q] = pc[q]
      BY <2>0, <2>11 DEF Verify, Deploy, Goto, TypeOK
    <3>2. LockInv' /\ PathInv(r)' /\ Current(r)'
      BY <2>0, <3>1 DEF LockInv, PathInv, Current
    <3> QED  BY <3>1, <3>2, Alone
  <2> QED
    BY <1>1, <2>1, <2>2, <2>3, <2>4, <2>5, <2>6, <2>7, <2>8, <2>9, <2>10, <2>11 DEF Step
<1> QED  BY <1>0, <1>1 DEF Next, vars, HostMigrates

LEMMA VersionInvariance == Spec => [](TypeInv /\ VersionInv /\ UnracedInv)
<1>1. Init => TypeInv /\ VersionInv /\ UnracedInv  BY TypeInit, VersionInit
<1>2. TypeInv /\ VersionInv /\ UnracedInv /\ [Next]_vars
        => (TypeInv /\ VersionInv /\ UnracedInv)'
  BY TypeStep, VersionStep
<1> QED  BY <1>1, <1>2, PTL DEF Spec

(* However upgrades and downgrades interleave, fail and are run again, the *)
(* version table tells exactly what the database holds: env.py commits the *)
(* objects of a revision and its row together or not at all.               *)
THEOREM VersionIsTrue == Spec => []VersionTellsTheSchema
<1>1. VersionInv => VersionTellsTheSchema  BY DEF VersionInv
<1> QED  BY <1>1, VersionInvariance, PTL

(* What a run that knows its version is refused.                           *)
LEMMA CurrentIsNotRefused ==
    ASSUME TypeInv, VersionInv, NEW r \in Runs, Current(r), host, Refused(r)
    PROVE  cmd[r] = "downgrade" /\ (target[r] = 0 \/ level[r] < target[r])
<1>0. TypeOK /\ PathInv(r) /\ level[r] \in 0..Head /\ target[r] \in 0..Head
  BY DEF TypeInv, TypeOK, VersionInv
<1>1. ASSUME pc[r] \in {"migrate", "stamp"}, level[r] # 0, pc[r] = "migrate" \/ Fresh(r)
      PROVE  /\ level[r] \in 1..Head
             /\ pc[r] = "migrate" => Sees(r) = At(level[r])
             /\ Fresh(r) => db = At(level[r])
  <2>1. level[r] \in 1..Head  BY <1>0, <1>1 DEF Head
  <2>2. CASE Fresh(r)
    <3>1. db = At(level[r]) /\ FreshInv(r)  BY <1>0, <1>1, <2>2 DEF Current, PathInv
    <3>2. pc[r] = "migrate" => Sees(r) = db  BY <1>1, <3>1 DEF FreshInv, Sees
    <3> QED  BY <2>1, <3>1, <3>2
  <2>3. CASE ~Fresh(r)  BY <1>1, <2>1, <2>3 DEF Current, OnCourse
  <2> QED  BY <2>2, <2>3
<1>2. CASE pc[r] = "ensure" /\ "schema" \notin Sees(r)
  <2>1. work[r].add = {} /\ work[r].del = {} /\ "schema" \in db
    BY <1>0, <1>2 DEF PathInv, Nothing
  <2> QED  BY <1>2, <2>1 DEF Sees
<1>3. CASE pc[r] = "migrate" /\ Upgrades(r) /\ ~CanUpgrade(r, level[r] + 1)
  <2>1. level[r] = 1 \/ level[r] = 2
    BY <1>0, <1>3 DEF Upgrades, CanUpgrade, Head
  <2>2. Sees(r) = At(level[r])  BY <1>1, <1>3, <2>1
  <2>3. CASE level[r] = 1
    <3>1. "role" \in Sees(r)  BY <2>2, <2>3, AtFacts, FirstFacts DEF Head
    <3> QED  BY <1>3, <2>3, <3>1 DEF CanUpgrade
  <2>4. CASE level[r] = 2
    <3>1. "schema" \in Sees(r) /\ "ha_credential" \notin Sees(r)
      BY <2>2, <2>4 DEF At, Built, Rows, Revision
    <3> QED  BY <1>3, <2>4, <3>1 DEF CanUpgrade
  <2> QED  BY <2>1, <2>3, <2>4
<1>4. CASE pc[r] = "migrate" /\ Downgrades(r) /\ ~CanDowngrade(r, level[r])
  <2>1. cmd[r] = "downgrade" /\ level[r] \in 1..Head /\ level[r] > target[r]
    BY <1>0, <1>4 DEF Downgrades, Head
  <2>2. Sees(r) = At(level[r])  BY <1>1, <1>4, <2>1 DEF Head
  <2>3. CASE level[r] = 1  BY <1>0, <2>1, <2>3 DEF Head
  <2>4. CASE level[r] = 2
    <3>1. "role" \in Sees(r)  BY <2>2, <2>4, AtFacts, FirstFacts DEF Head
    <3> QED  BY <1>4, <2>4, <3>1 DEF CanDowngrade
  <2>5. CASE level[r] = 3
    <3>1. "ha_credential" \in Sees(r)  BY <2>2, <2>5 DEF At, Built, Rows, Revision
    <3> QED  BY <1>4, <2>5, <3>1 DEF CanDowngrade
  <2> QED  BY <2>1, <2>3, <2>4, <2>5 DEF Head
<1>5. CASE pc[r] = "stamp" /\ ~CanStamp(r)
  <2> DEFINE l == level[r]
  <2>1. PICK a \in 1..Head : /\ a = After(r) /\ a # l
                             /\ \/ cmd[r] = "upgrade" /\ a = l + 1
                                \/ cmd[r] = "downgrade" /\ a = l - 1 /\ l >= 2
    <3>1. CASE Upgrades(r)
      BY <1>0, <3>1 DEF Upgrades, After, Head
    <3>2. CASE Downgrades(r)
      <4>1. l >= 2 /\ cmd[r] = "downgrade"
        BY <1>0, <1>5, <3>2 DEF Downgrades, PathInv, FreshInv, StampedInv
      <4> QED  BY <1>0, <4>1 DEF After, Head
    <3> QED  BY <1>5, <3>1, <3>2 DEF TypeInv, RunInv
  <2>2. Row(a) = {Revision[a]} /\ Revision[a] \in Rows /\ Row(l) \subseteq Rows
    BY <1>0, <2>1, RowFacts, RevisionFacts DEF Row, Head
  <2>3. Sees(r) \cap Rows = Row(l)
    <3>1. CASE l = 0
      <4>1. Fresh(r) /\ FreshInv(r) /\ cmd[r] = "upgrade" /\ db \subseteq Ground
        BY <1>0, <1>5, <2>1, <3>1 DEF PathInv, StampedInv, Current
      <4>2. work[r].add \cap Rows = {}  BY <4>1 DEF Fresh, VersionInv, LockInv
      <4> QED  BY <3>1, <4>1, <4>2, FirstFacts DEF Sees, Row
    <3>2. CASE l # 0
      <4>0. l \in 1..Head /\ Row(l) = {Revision[l]}  BY <1>0, <3>2 DEF Row, Head
      <4>1. At(l) \cap Rows = Row(l)  BY <4>0, AtFacts
      <4>2. CASE Fresh(r)
        <5>1. db = At(l)  BY <1>1, <1>5, <3>2, <4>2
        <5>2. work[r].add \cap Rows = {}  BY <4>2 DEF Fresh, VersionInv, LockInv
        <5>3. work[r].del \cap Rows = {}  BY <4>2 DEF Fresh, VersionInv, LockInv
        <5> QED  BY <4>1, <5>1, <5>2, <5>3 DEF Sees
      <4>3. CASE ~Fresh(r)
        <5>1. OnCourse(r)  BY <1>5, <4>3 DEF Current
        <5>2. CASE cmd[r] = "upgrade"
          <6>1. Sees(r) = At(l) \cup Full(l + 1)  BY <1>5, <5>1, <5>2 DEF OnCourse
          <6>2. Full(l + 1) \cap Rows = {}  BY <2>1, <5>2, FullFacts
          <6> QED  BY <4>1, <6>1, <6>2
        <5>3. CASE cmd[r] # "upgrade"
          <6>1. Sees(r) = At(l) \ Full(l)  BY <1>5, <5>1, <5>3 DEF OnCourse
          <6>2. Full(l) \cap Rows = {}  BY <4>0, FullFacts
          <6> QED  BY <4>1, <6>1, <6>2
        <5> QED  BY <5>2, <5>3
      <4> QED  BY <4>2, <4>3
    <3> QED  BY <3>1, <3>2
  <2>4. Revision[a] \notin Sees(r)
    <3>1. CASE l = 0  BY <2>2, <2>3, <3>1 DEF Row
    <3>2. CASE l # 0
      <4>1. l \in 1..Head /\ Row(l) = {Revision[l]}  BY <1>0, <3>2 DEF Row, Head
      <4> QED  BY <2>1, <2>2, <2>3, <4>1, RowsDiffer
    <3> QED  BY <3>1, <3>2
  <2>5. CanStamp(r)  BY <2>1, <2>2, <2>3, <2>4 DEF CanStamp
  <2> QED  BY <1>5, <2>5
<1>6. CASE cmd[r] = "downgrade" /\ level[r] < target[r]  BY <1>6
<1> QED  BY <1>2, <1>3, <1>4, <1>5, <1>6 DEF Refused

(* Wherever an earlier run failed, a run that no other commits beside is   *)
(* not refused, unless the Host's table is missing or it was asked to go   *)
(* below 0001 or up: running the deploy job again is always worth it.      *)
THEOREM RerunsWork == Spec => RerunIsNotRefused
<1> DEFINE A == \A r \in Runs : outcome[r] = "none" /\ outcome'[r] = "refused" =>
                   \/ raced[r] \/ ~host
                   \/ cmd[r] = "downgrade" /\ (target[r] = 0 \/ level[r] < target[r])
<1>1. TypeInv /\ VersionInv /\ UnracedInv /\ [Next]_vars => [A]_vars
  <2> SUFFICES ASSUME TypeInv, VersionInv, UnracedInv, Next, NEW r \in Runs,
                      outcome[r] = "none", outcome'[r] = "refused", ~raced[r], host
               PROVE  cmd[r] = "downgrade" /\ (target[r] = 0 \/ level[r] < target[r])
    OBVIOUS
  <2>1. Refused(r)
    <3>1. PICK q \in Runs : Step(q)
      BY DEF Next, HostMigrates, run
    <3>2. CASE ~Refuse(q)
      BY <3>1, <3>2 DEF Step, Begin, Bootstrap, Handover, Configure, EnsureVersionTable, Upgrade,
                       Downgrade, Stamp, Finish, Fail, Verify, Deploy, End, TypeInv, TypeOK
    <3>3. CASE Refuse(q)
      <4>1. q = r  BY <3>3 DEF Refuse, End, TypeInv, TypeOK
      <4> QED  BY <3>3, <4>1 DEF Refuse
    <3> QED  BY <3>2, <3>3
  <2> QED  BY <2>1, CurrentIsNotRefused DEF UnracedInv
<1>2. RerunIsNotRefused <=> [][A]_vars  BY PTL DEF RerunIsNotRefused
<1> QED  BY <1>1, <1>2, VersionInvariance, PTL DEF Spec
============================================================================
