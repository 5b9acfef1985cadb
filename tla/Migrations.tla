----------------------------- MODULE Migrations ----------------------------
(***************************************************************************)
(* Runs of `alembic upgrade head' and `alembic downgrade' on one database: *)
(* migrations/env.py and the three revisions of migrations/versions, by    *)
(* the statements after which another run can be noticed; then, for an     *)
(* upgrade, the rest of the deploy job (.github/workflows/deploy.yml),     *)
(* which nothing keeps from running twice at once.                         *)
(*                                                                         *)
(* A run is one connection: the bootstrap of the schema, committed, and    *)
(* then Alembic's transaction, which reads the version, creates the        *)
(* version table if there was none, and applies and stamps one revision    *)
(* after the other.  The database is a set of facts: the objects and       *)
(* privileges there are, and the rows of the version table.                *)
(*                                                                         *)
(* External: Alembic's bookkeeping, and PostgreSQL, whose DDL is           *)
(* transactional: a statement sees what is committed and what its own      *)
(* transaction did, waits for another's uncommitted change of the same     *)
(* fact, and may always fail, of a lost race among other reasons, which    *)
(* takes the whole transaction back.                                       *)
(***************************************************************************)
EXTENDS Naturals, FiniteSets

CONSTANTS Runs   \* runs, each made once

VARIABLES
    host,     \* host.users exists: the Host's own migrations create it
    db,       \* the facts that are committed
    cmd,      \* what each run was asked
    target,   \* the revision a run goes to, 0 for base
    pc,       \* its next statement
    txn,      \* whose the open transaction of its connection is
    level,    \* the revision it believes the database is at
    work,     \* what its transaction has added, deleted and locked
    outcome,  \* how it ended
    raced,    \* history: another run has committed since it began
    serving   \* an image of this revision of the code takes requests

run == <<cmd, target, pc, txn, level, work, outcome>>
vars == <<host, db, run, raced, serving>>

----------------------------------------------------------------------------
Head == 3
Revision == <<"0001", "0002", "0003">>
Rows == {"0001", "0002", "0003"}

(* What a revision's upgrade makes, once its transaction is committed.     *)
(* 0003's table is the app role's through the default privileges of 0001.  *)
(* Mutant: 0001 without ALTER DEFAULT PRIVILEGES.                          *)
MadeWithoutDefaults(k, facts) ==
    CASE k = 1 -> {"schema", "role", "schema_grants"}
      [] k = 2 -> {"host_grants"}
      [] OTHER -> {"ha_credential"} \cup
                  (IF "default_privileges" \in facts THEN {"credential_grants"} ELSE {})

Made(k, facts) ==
    CASE k = 1 -> {"schema", "role", "schema_grants", "default_privileges"}
      [] k = 2 -> {"host_grants"}
      [] OTHER -> {"ha_credential"} \cup
                  (IF "default_privileges" \in facts THEN {"credential_grants"} ELSE {})

(* Everything a database at revision k consists of.                        *)
Built(k) ==
    (IF k >= 1 THEN {"0001", "schema", "version_table", "role", "schema_grants",
                     "default_privileges"} ELSE {})
    \cup (IF k >= 2 THEN {"0002", "host_grants"} ELSE {})
    \cup (IF k >= 3 THEN {"0003", "ha_credential", "credential_grants"} ELSE {})

At(k) == (Built(k) \ Rows) \cup (IF k = 0 THEN {} ELSE {Revision[k]})
Facts == Built(Head)

Nothing == [add |-> {}, del |-> {}, locked |-> {}]

(* A new database, in whose cluster the role may exist, or one that an     *)
(* earlier deployment has migrated.                                        *)
Init == /\ db \in {At(k) : k \in 0..Head} \cup {{"role"}}
        /\ host \in {h \in BOOLEAN : db \cap {"host_grants"} # {} => h}
        /\ cmd = [r \in Runs |-> "none"]
        /\ target = [r \in Runs |-> 0]
        /\ pc = [r \in Runs |-> "new"]
        /\ txn = [r \in Runs |-> "none"]
        /\ level = [r \in Runs |-> 0]
        /\ work = [r \in Runs |-> Nothing]
        /\ outcome = [r \in Runs |-> "none"]
        /\ raced = [r \in Runs |-> FALSE]
        /\ serving = FALSE

----------------------------------------------------------------------------
Goto(r, l) == pc' = [pc EXCEPT ![r] = l]

(* What a statement of r sees, and what it must wait for.                  *)
Sees(r) == (db \ work[r].del) \cup work[r].add
Unlocked(r, facts) == \A q \in Runs \ {r} : facts \cap work[q].locked = {}

(* r's transaction adds, deletes and locks facts; commits; is rolled back. *)
Change(r, add, del, locked) ==
    work' = [work EXCEPT ![r] = [add |-> (work[r].add \ del) \cup add,
                                 del |-> (work[r].del \ add) \cup del,
                                 locked |-> work[r].locked \cup add \cup del \cup locked]]

Install(r) ==
    /\ db' = Sees(r)
    /\ raced' = [q \in Runs |-> raced[q] \/ (q # r /\ db' # db)]
    /\ work' = [work EXCEPT ![r] = Nothing]
    /\ txn' = [txn EXCEPT ![r] = "none"]

Discard(r) ==
    /\ UNCHANGED <<db, raced>>
    /\ work' = [work EXCEPT ![r] = Nothing]
    /\ txn' = [txn EXCEPT ![r] = "none"]

End(r, how) == Goto(r, "ended") /\ outcome' = [outcome EXCEPT ![r] = how]

Begin(r) ==
    /\ pc[r] = "new"
    /\ \/ /\ cmd' = [cmd EXCEPT ![r] = "upgrade"]
          /\ target' = [target EXCEPT ![r] = Head]
       \/ /\ cmd' = [cmd EXCEPT ![r] = "downgrade"]
          /\ \E t \in 0..Head - 1 : target' = [target EXCEPT ![r] = t]
    /\ raced' = [raced EXCEPT ![r] = FALSE]
    /\ Goto(r, "bootstrap")
    /\ UNCHANGED <<host, db, txn, level, work, outcome, serving>>

(* CREATE SCHEMA IF NOT EXISTS, in the transaction that SQLAlchemy begins  *)
(* by itself.  Mutant: env.py without the bootstrap.                       *)
NoBootstrap(r) ==
    /\ pc[r] = "bootstrap"
    /\ Goto(r, "handover")
    /\ UNCHANGED <<host, db, cmd, target, txn, level, work, outcome, raced, serving>>

Bootstrap(r) ==
    /\ pc[r] = "bootstrap" /\ ("schema" \in db \/ Unlocked(r, {"schema"}))
    /\ Change(r, {"schema"} \ db, {}, {})
    /\ txn' = [txn EXCEPT ![r] = "caller's"]
    /\ Goto(r, "handover")
    /\ UNCHANGED <<host, db, cmd, target, level, outcome, raced, serving>>

(* connection.commit(), before Alembic gets the connection.  Mutant: a     *)
(* bare execute, which leaves the transaction open.                        *)
HandoverUncommitted(r) ==
    /\ pc[r] = "handover"
    /\ Goto(r, "configure")
    /\ UNCHANGED <<host, db, cmd, target, txn, level, work, outcome, raced, serving>>

Handover(r) ==
    /\ pc[r] = "handover"
    /\ Install(r)
    /\ Goto(r, "configure")
    /\ UNCHANGED <<host, cmd, target, level, outcome, serving>>

(* context.configure and begin_transaction: Alembic manages a transaction  *)
(* of its own unless one is open already; then it reads the version.       *)
LevelOf(facts) ==
    IF facts \cap Rows = {} THEN 0 ELSE CHOOSE k \in 1..Head : Revision[k] \in facts

Configure(r) ==
    /\ pc[r] = "configure"
    /\ txn' = [txn EXCEPT ![r] = IF txn[r] = "none" THEN "alembic's" ELSE txn[r]]
    /\ level' = [level EXCEPT ![r] = LevelOf(Sees(r))]
    /\ Goto(r, "ensure")
    /\ UNCHANGED <<host, db, cmd, target, work, outcome, raced, serving>>

(* The version table is created, in its schema, if no version was found    *)
(* and it does not exist.                                                  *)
NeedsVersionTable(r) == level[r] = 0 /\ "version_table" \notin Sees(r)

EnsureVersionTable(r) ==
    /\ pc[r] = "ensure"
    /\ \/ ~NeedsVersionTable(r) /\ UNCHANGED work
       \/ /\ NeedsVersionTable(r) /\ "schema" \in Sees(r)
          /\ Unlocked(r, {"version_table"})
          /\ Change(r, {"version_table"}, {}, {})
    /\ Goto(r, "migrate")
    /\ UNCHANGED <<host, db, cmd, target, txn, level, outcome, raced, serving>>

Upgrades(r) == cmd[r] = "upgrade" /\ level[r] < Head
Downgrades(r) == cmd[r] = "downgrade" /\ level[r] > target[r]

(* The next revision up: 0001 runs again over what exists; 0002 refers to  *)
(* host.users and the role; 0003 refers to host.users and creates a table. *)
CanUpgrade(r, k) ==
    CASE k = 1 -> TRUE
      [] k = 2 -> host /\ "role" \in Sees(r)
      [] OTHER -> host /\ "schema" \in Sees(r) /\ "ha_credential" \notin Sees(r)

(* The next revision down.  DROP SCHEMA has no CASCADE, and the version    *)
(* table is in the schema: 0001 can not be taken back.                     *)
CanDowngrade(r, k) ==
    CASE k = 1 -> Sees(r) \cap {"version_table", "ha_credential"} = {}
      [] k = 2 -> host /\ "role" \in Sees(r)
      [] OTHER -> "ha_credential" \in Sees(r)

(* Mutant of Upgrade: the engine is in autocommit.                         *)
UpgradeAutocommits(r) ==
    LET k == level[r] + 1 IN
    /\ pc[r] = "migrate" /\ Upgrades(r) /\ CanUpgrade(r, k)
    /\ db' = Sees(r) \cup Made(k, Sees(r))
    /\ Goto(r, "stamp")
    /\ UNCHANGED <<host, cmd, target, txn, level, work, outcome, raced, serving>>

Upgrade(r) ==
    LET k == level[r] + 1 IN
    /\ pc[r] = "migrate" /\ Upgrades(r) /\ CanUpgrade(r, k)
    /\ Unlocked(r, Made(k, Sees(r)))
    /\ Change(r, Made(k, Sees(r)) \ Sees(r), {}, Made(k, Sees(r)))
    /\ Goto(r, "stamp")
    /\ UNCHANGED <<host, db, cmd, target, txn, level, outcome, raced, serving>>

Downgrade(r) ==
    LET k == level[r]
        undone == IF k = 3 THEN {"ha_credential", "credential_grants"} ELSE Made(k, Sees(r)) IN
    /\ pc[r] = "migrate" /\ Downgrades(r) /\ CanDowngrade(r, k)
    /\ Unlocked(r, undone)
    /\ Change(r, {}, undone \cap Sees(r), undone)
    /\ Goto(r, "stamp")
    /\ UNCHANGED <<host, db, cmd, target, txn, level, outcome, raced, serving>>

(* HeadMaintainer: the first revision is inserted; otherwise the row is    *)
(* updated where it has the old version, and that must find one row.       *)
Row(k) == IF k = 0 THEN {} ELSE {Revision[k]}
After(r) == IF cmd[r] = "upgrade" THEN level[r] + 1 ELSE level[r] - 1
CanStamp(r) == Row(level[r]) \subseteq Sees(r) /\ Row(After(r)) \cap Sees(r) = {}

Stamp(r) ==
    /\ pc[r] = "stamp" /\ CanStamp(r)
    /\ Unlocked(r, Row(level[r]) \cup Row(After(r)))
    /\ Change(r, Row(After(r)), Row(level[r]), {})
    /\ level' = [level EXCEPT ![r] = After(r)]
    /\ Goto(r, "migrate")
    /\ UNCHANGED <<host, db, cmd, target, txn, outcome, raced, serving>>

(* Nothing is left to do.  Alembic commits what is its own; the caller's   *)
(* transaction is rolled back with the connection.  The process exits with *)
(* 0, unless it loses the connection before it hears of the commit.        *)
Finish(r) ==
    /\ pc[r] = "migrate"
    /\ level[r] = target[r]
    /\ IF txn[r] = "alembic's" THEN Install(r) ELSE Discard(r)
    /\ \E how \in {"ok", "failed"} : End(r, how)
    /\ UNCHANGED <<host, cmd, target, level, serving>>

(* What the database or Alembic refuses whenever it is tried.              *)
Refused(r) ==
    \/ pc[r] = "ensure" /\ NeedsVersionTable(r) /\ "schema" \notin Sees(r)
    \/ pc[r] = "migrate" /\ Upgrades(r) /\ ~CanUpgrade(r, level[r] + 1)
    \/ pc[r] = "migrate" /\ Downgrades(r) /\ ~CanDowngrade(r, level[r])
    \/ pc[r] = "migrate" /\ cmd[r] = "downgrade" /\ level[r] < target[r]
    \/ pc[r] = "stamp" /\ ~CanStamp(r)

Refuse(r) ==
    /\ Refused(r)
    /\ Discard(r) /\ End(r, "refused")
    /\ UNCHANGED <<host, cmd, target, level, serving>>

(* A statement fails, the connection or the process is lost.  Mutant: what *)
(* was done so far stays in the connection.                                *)
Running(r) == pc[r] \notin {"new", "ended", "verified", "deployed"}

FailKeepsWork(r) ==
    /\ Running(r)
    /\ txn' = [txn EXCEPT ![r] = "none"]
    /\ End(r, "failed")
    /\ UNCHANGED <<host, db, cmd, target, level, work, raced, serving>>

Fail(r) ==
    /\ Running(r)
    /\ Discard(r) /\ End(r, "failed")
    /\ UNCHANGED <<host, cmd, target, level, serving>>

(* The deploy job goes on after exit code 0: it wants some row in the      *)
(* version table, then builds, pushes and deploys the image.  Each of its  *)
(* steps may fail, and the job then stops where it is.                     *)
Verify(r) ==
    /\ pc[r] = "ended" /\ cmd[r] = "upgrade" /\ outcome[r] = "ok"
    /\ db \cap Rows # {}
    /\ Goto(r, "verified")
    /\ UNCHANGED <<host, db, cmd, target, txn, level, work, outcome, raced, serving>>

Deploy(r) ==
    /\ pc[r] = "verified"
    /\ serving' = TRUE
    /\ Goto(r, "deployed")
    /\ UNCHANGED <<host, db, cmd, target, txn, level, work, outcome, raced>>

HostMigrates == ~host /\ host' = TRUE /\ UNCHANGED <<db, run, raced, serving>>

Step(r) == \/ Begin(r) \/ Bootstrap(r) \/ Handover(r) \/ Configure(r) \/ EnsureVersionTable(r)
           \/ Upgrade(r) \/ Downgrade(r) \/ Stamp(r) \/ Finish(r) \/ Refuse(r) \/ Fail(r)
           \/ Verify(r) \/ Deploy(r)

Next == HostMigrates \/ \E r \in Runs : Step(r)

Spec == Init /\ [][Next]_vars

----------------------------------------------------------------------------
(* The variables stay in their ranges, and whatever a connection has not   *)
(* committed belongs to a transaction that is open.                        *)
TypeOK ==
    /\ host \in BOOLEAN /\ serving \in BOOLEAN
    /\ db \subseteq Facts
    /\ cmd \in [Runs -> {"none", "upgrade", "downgrade"}]
    /\ target \in [Runs -> 0..Head]
    /\ pc \in [Runs -> {"new", "bootstrap", "handover", "configure", "ensure", "migrate",
                        "stamp", "ended", "verified", "deployed"}]
    /\ txn \in [Runs -> {"none", "caller's", "alembic's"}]
    /\ level \in [Runs -> 0..Head]
    /\ work \in [Runs -> [add : SUBSET Facts, del : SUBSET Facts, locked : SUBSET Facts]]
    /\ outcome \in [Runs -> {"none", "ok", "refused", "failed"}]
    /\ raced \in [Runs -> BOOLEAN]
    /\ \A r \in Runs : txn[r] = "none" => work[r] = Nothing

(* However runs interleave, fail and are run again, the version table has  *)
(* at most one row, and the objects and privileges are exactly those of    *)
(* the revision it names; before the first, at most the empty schema, the  *)
(* empty version table and the cluster's role are there.                   *)
VersionTellsTheSchema ==
    \/ \E k \in 1..Head : db = At(k)
    \/ db \subseteq {"schema", "version_table", "role"}

(* When nothing is downgraded, an upgrade that has exited with 0 has left  *)
(* the database at the head: it never reports what it then rolls back.     *)
OnlyUpgrades == \A r \in Runs : cmd[r] # "downgrade"

ExitZeroMeansAtHead ==
    OnlyUpgrades => \A r \in Runs : outcome[r] = "ok" => Revision[Head] \in db

(* When nothing is downgraded, the service runs on a database that has its *)
(* table, its references and the role's privileges on both.                *)
ServiceFindsItsTable ==
    OnlyUpgrades /\ serving =>
        {"ha_credential", "credential_grants", "host_grants"} \subseteq db

(* What a run leaves behind, wherever it failed, never stands in the way   *)
(* of the next: a run is refused only if another committed meanwhile, if   *)
(* the Host's table is missing, or if it was asked to go below 0001 or up. *)
RerunIsNotRefused ==
    [][\A r \in Runs : outcome[r] = "none" /\ outcome'[r] = "refused" =>
          \/ raced[r] \/ ~host
          \/ cmd[r] = "downgrade" /\ (target[r] = 0 \/ level[r] < target[r])]_vars
============================================================================
