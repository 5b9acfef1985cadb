------------------------- MODULE CredentialRequests ------------------------
(***************************************************************************)
(* The handlers that use a user's Home Assistant credential, running       *)
(* concurrently over the ha_credential table: Settings' GET, Test          *)
(* Connection and Save (app/pages/settings_fragments.py) and the tiles     *)
(* fragment (app/pages/ha_dashboard_tiles.py), with the table's two        *)
(* operations (app/models/ha_credential.py) and the credential cipher      *)
(* (app/core/security.py).                                                 *)
(*                                                                         *)
(* A handler runs between awaits without interruption; an action is what   *)
(* it does from one await to the next.  Its awaits are a fetch from Home   *)
(* Assistant (whose outcomes are those of FetchContract), a statement and  *)
(* a commit.  The database is PostgreSQL at READ COMMITTED: a statement    *)
(* sees what is committed when it runs, an uncommitted write of a user's   *)
(* row makes another write of it, and the deletion of the user, wait.      *)
(*                                                                         *)
(* External: Home Assistant, which may revoke a token; the Host, which     *)
(* owns host.users and may delete a user (the foreign key cascades); and   *)
(* the platform, which restarts an instance, perhaps with another          *)
(* ENCRYPTION_KEY.                                                         *)
(***************************************************************************)
EXTENDS Naturals, Sequences

CONSTANTS
    Requests,   \* requests, each made once
    Asked,      \* bound: the kinds of request that are made
    Users,      \* user ids a verified cookie can carry
    Hosts, Tokens,
    Forms,      \* the pairs that users enter: a token with its own host
    Instances,  \* processes serving requests
    Keys,       \* values of ENCRYPTION_KEY; NoKey when it is unset
    NoKey,
    None,
    MaxClock    \* bound on the clock

Kinds == {"settings", "test", "save", "tiles"}
Pairs == [host : Hosts, token : Tokens]
Jobs == [kind : Asked, user : Users, inst : Instances]

ASSUME AskedAssumption == Asked \subseteq Kinds
ASSUME FormsAssumption == Forms \subseteq Pairs
ASSUME NoneAssumption == None \notin Pairs \cup Jobs
ASSUME NoKeyAssumption == NoKey \notin Keys
ASSUME MaxClockAssumption == MaxClock \in Nat

VARIABLES
    job,       \* what each request asks, of which instance, for which user
    pc,        \* the await its handler is suspended on
    pair,      \* the host and token it submitted, or read and decrypted
    verdict,   \* what Home Assistant said of that pair to its fetch
    stamp,     \* tested_at: when its fetch ended
    pending,   \* its uncommitted write
    seen,      \* the rows its last read returned
    reply,     \* what it renders
    table,     \* the committed rows of ha_dashboard.ha_credential
    hostUsers, \* the ids in host.users
    accepts,   \* the pairs Home Assistant accepts
    key,       \* the key each instance's cipher was built from
    clock,
    log        \* history: the requests whose write was committed, in order

handler == <<job, pc, pair, verdict, stamp, pending, seen, reply>>
world == <<hostUsers, accepts, key, clock>>
vars == <<handler, table, world, log>>

----------------------------------------------------------------------------
FetchOutcomes == {"success", "auth_failure", "generic_failure"}
Replies == FetchOutcomes \cup
    {"none", "reauth_required", "not_configured", "invalid", "settings", "save_error",
     "save_success", "internal_error", "lost"}

(* A row; `by' is the request that wrote it, which the distinct ciphertext *)
(* that every encryption produces stands for.                              *)
Rows == [user : Users, host : Hosts, token : Tokens, key : Keys,
         tested_at : Nat, updated_at : Nat, by : Requests]
NoWrite == [old |-> {}, new |-> None]

RowsOf(u) == {row \in table : row.user = u}
PairOf(row) == [host |-> row.host, token |-> row.token]

(* The writers whose uncommitted row version others wait for.              *)
Writers(u) == {r \in Requests : pc[r] = "written" /\ job[r].user = u}

Init == /\ job = [r \in Requests |-> None]
        /\ pc = [r \in Requests |-> "new"]
        /\ pair = [r \in Requests |-> None]
        /\ verdict = [r \in Requests |-> "none"]
        /\ stamp = [r \in Requests |-> 0]
        /\ pending = [r \in Requests |-> NoWrite]
        /\ seen = [r \in Requests |-> {}]
        /\ reply = [r \in Requests |-> "none"]
        /\ table = {}
        /\ hostUsers = Users
        /\ accepts \in SUBSET Forms
        /\ key \in [Instances -> Keys \cup {NoKey}]
        /\ clock = 0
        /\ log = <<>>

----------------------------------------------------------------------------
(* Steps of a handler                                                      *)

Goto(r, l) == pc' = [pc EXCEPT ![r] = l]
Render(r, what) == Goto(r, "done") /\ reply' = [reply EXCEPT ![r] = what]

(* The reply is chosen; _read_model is still to run for its template.      *)
RenderModel(r, what) == Goto(r, "rendering") /\ reply' = [reply EXCEPT ![r] = what]

(* No user in the cookie: nothing is read or fetched.                      *)
Unauthenticated(r) ==
    /\ pc[r] = "new"
    /\ Render(r, "reauth_required")
    /\ UNCHANGED <<job, pair, verdict, stamp, pending, seen, table, world, log>>

Accept(r, j) == pc[r] = "new" /\ job' = [job EXCEPT ![r] = j]

BeginSettings(r, j) ==
    /\ j.kind = "settings" /\ Accept(r, j)
    /\ RenderModel(r, "settings")
    /\ UNCHANGED <<pair, verdict, stamp, pending, seen, table, world, log>>

BeginTiles(r, j) ==
    /\ j.kind = "tiles" /\ Accept(r, j)
    /\ Goto(r, "reading")
    /\ UNCHANGED <<pair, verdict, stamp, pending, seen, reply, table, world, log>>

(* A form that does not validate is answered without a fetch.              *)
BeginInvalid(r, j) ==
    /\ Accept(r, j)
    /\ \/ j.kind = "test" /\ Render(r, "invalid")
       \/ j.kind = "save" /\ RenderModel(r, "save_error")
    /\ UNCHANGED <<pair, verdict, stamp, pending, seen, table, world, log>>

(* Test Connection and Save fetch with what was submitted, before and      *)
(* without any use of the database.                                        *)
BeginFetch(r, j, form) ==
    /\ j.kind \in {"test", "save"} /\ Accept(r, j)
    /\ pair' = [pair EXCEPT ![r] = form]
    /\ Goto(r, "fetching")
    /\ UNCHANGED <<verdict, stamp, pending, seen, reply, table, world, log>>

(* The row a user's handlers see.  Mutant: not restricted to the user.     *)
SelectAnyone(u) == table
Select(u) == RowsOf(u)

(* The tiles route reads the row, builds the cipher, decrypts, and fetches.*)
TilesRead(r) ==
    LET k == key[job[r].inst] IN
    /\ pc[r] = "reading"
    /\ seen' = [seen EXCEPT ![r] = Select(job[r].user)]
    /\ \/ /\ seen'[r] = {}
          /\ Render(r, "not_configured") /\ UNCHANGED pair
       \/ \E row \in seen'[r] :
            \/ k = NoKey /\ Render(r, "internal_error") /\ UNCHANGED pair
            \/ /\ k # NoKey /\ row.key # k
               /\ Render(r, "generic_failure") /\ UNCHANGED pair
            \/ /\ row.key = k
               /\ pair' = [pair EXCEPT ![r] = PairOf(row)]
               /\ Goto(r, "fetching") /\ UNCHANGED reply
    /\ UNCHANGED <<job, verdict, stamp, pending, table, world, log>>

(* Home Assistant decides on the token it was sent.                        *)
HADecides(r) ==
    /\ pc[r] = "fetching" /\ verdict[r] = "none"
    /\ verdict' = [verdict EXCEPT ![r] =
                      IF pair[r] \in accepts THEN "accepted" ELSE "rejected"]
    /\ UNCHANGED <<job, pc, pair, stamp, pending, seen, reply, table, world, log>>

(* FetchContract!Justified: the fetch may always fail, and otherwise says  *)
(* what Home Assistant said.  Mutant: no timeout, a silent Home Assistant  *)
(* is waited for.                                                          *)
OutcomesOnceDecided(r) ==
    CASE verdict[r] = "accepted" -> {"success", "generic_failure"}
      [] verdict[r] = "rejected" -> {"auth_failure", "generic_failure"}
      [] OTHER -> {}

Outcomes(r) ==
    {"generic_failure"} \cup (IF verdict[r] = "accepted" THEN {"success"} ELSE {})
                        \cup (IF verdict[r] = "rejected" THEN {"auth_failure"} ELSE {})

(* The tiles and Test Connection render the outcome, and write nothing.    *)
ShowOutcome(r) ==
    /\ pc[r] = "fetching" /\ job[r].kind \in {"tiles", "test"}
    /\ \E o \in Outcomes(r) : Render(r, o)
    /\ stamp' = [stamp EXCEPT ![r] = clock]
    /\ UNCHANGED <<job, pair, verdict, pending, seen, table, world, log>>

(* Save goes on only if its own fetch succeeded (its mutant: unless the    *)
(* token was rejected).                                                    *)
SavableUnlessRejected(o) == o # "auth_failure"
Savable(o) == o = "success"

SaveRefused(r) ==
    /\ pc[r] = "fetching" /\ job[r].kind = "save"
    /\ \E o \in Outcomes(r) : ~Savable(o)
    /\ RenderModel(r, "save_error")
    /\ UNCHANGED <<job, pair, verdict, stamp, pending, seen, table, world, log>>

(* get_credential_cipher raises when ENCRYPTION_KEY is unset (mutant: no). *)
CipherAlwaysReady(i) == TRUE
CipherReady(i) == key[i] # NoKey

(* The cipher is built and tested_at is read before the statement is sent. *)
SaveFetched(r) ==
    /\ pc[r] = "fetching" /\ job[r].kind = "save"
    /\ \E o \in Outcomes(r) : Savable(o)
    /\ stamp' = [stamp EXCEPT ![r] = clock]
    /\ IF CipherReady(job[r].inst)
       THEN Goto(r, "writing") /\ UNCHANGED reply
       ELSE Render(r, "internal_error")
    /\ UNCHANGED <<job, pair, verdict, pending, seen, table, world, log>>

(* The row that INSERT ... ON CONFLICT (user_id) DO UPDATE leaves: new, or *)
(* the old one with the four columns of set_ replaced.  updated_at is the  *)
(* database's clock_timestamp().                                           *)
(* Mutants: set_ without ha_host_url; updated_at from the application.     *)
NewRow(r) ==
    [user |-> job[r].user, host |-> pair[r].host, token |-> pair[r].token,
     key |-> key[job[r].inst], tested_at |-> stamp[r], updated_at |-> clock, by |-> r]

UpsertKeepsHost(r, old) ==
    IF old = {} THEN NewRow(r)
    ELSE [NewRow(r) EXCEPT !.host = (CHOOSE row \in old : TRUE).host]

UpsertStampsInApp(r, old) == [NewRow(r) EXCEPT !.updated_at = stamp[r]]

Upserted(r, old) == NewRow(r)

(* The foreign key on user_id (mutant: none).                              *)
AnyUser(u) == TRUE
UserExists(u) == u \in hostUsers

(* The rows the statement conflicts with (mutant: a plain INSERT).         *)
NoConflict(u) == {}
Conflicting(u) == RowsOf(u)

(* The statement waits for an uncommitted write of the same user's row,    *)
(* then inserts, updates, or fails on the foreign key.                     *)
Write(r) ==
    LET u == job[r].user IN
    /\ pc[r] = "writing" /\ Writers(u) = {} /\ UserExists(u)
    /\ pending' = [pending EXCEPT ![r] =
                      [old |-> Conflicting(u), new |-> Upserted(r, Conflicting(u))]]
    /\ Goto(r, "written")
    /\ UNCHANGED <<job, pair, verdict, stamp, seen, reply, table, world, log>>

WriteFails(r) ==
    /\ pc[r] = "writing" /\ ~UserExists(job[r].user)
    /\ Render(r, "internal_error")
    /\ UNCHANGED <<job, pair, verdict, stamp, pending, seen, table, world, log>>

(* db.commit(), then _read_model in a transaction of its own.  Mutant: the *)
(* commit is forgotten and the session's close rolls the write back.       *)
CommitForgotten(r) ==
    /\ pc[r] = "written"
    /\ pending' = [pending EXCEPT ![r] = NoWrite]
    /\ RenderModel(r, "save_success")
    /\ UNCHANGED <<job, pair, verdict, stamp, seen, table, world, log>>

Commit(r) ==
    /\ pc[r] = "written"
    /\ table' = (table \ pending[r].old) \cup {pending[r].new}
    /\ pending' = [pending EXCEPT ![r] = NoWrite]
    /\ log' = Append(log, r)
    /\ RenderModel(r, "save_success")
    /\ UNCHANGED <<job, pair, verdict, stamp, seen, world>>

ReadModel(r) ==
    /\ pc[r] = "rendering"
    /\ seen' = [seen EXCEPT ![r] = Select(job[r].user)]
    /\ Goto(r, "done")
    /\ UNCHANGED <<job, pair, verdict, stamp, pending, reply, table, world, log>>

(* A statement or the commit fails: the pool has no connection in time     *)
(* (CheckoutFails of DbPool), or the connection is lost.  Nothing catches  *)
(* it: get_db's session rolls back and the answer is a 500, also when only *)
(* the re-read after the commit failed.                                    *)
DatabaseFails(r) ==
    /\ pc[r] \in {"reading", "writing", "written", "rendering"}
    /\ pending' = [pending EXCEPT ![r] = NoWrite]
    /\ Render(r, "internal_error")
    /\ UNCHANGED <<job, pair, verdict, stamp, seen, table, world, log>>

----------------------------------------------------------------------------
(* The world                                                               *)

Revoke(p) ==
    /\ p \in accepts
    /\ accepts' = accepts \ {p}
    /\ UNCHANGED <<handler, table, hostUsers, key, clock, log>>

(* The Host deletes a user; the rows that refer to it go in the same       *)
(* transaction, which waits for whoever is writing them.                   *)
DeleteUser(u) ==
    /\ u \in hostUsers /\ Writers(u) = {}
    /\ hostUsers' = hostUsers \ {u}
    /\ table' = table \ RowsOf(u)
    /\ UNCHANGED <<handler, accepts, key, clock, log>>

(* An instance goes away with the requests it serves, their transactions   *)
(* are rolled back, and another takes its place.                           *)
Restart(i, k) ==
    LET lost == {r \in Requests : pc[r] \notin {"new", "done"} /\ job[r].inst = i} IN
    /\ pc' = [r \in Requests |-> IF r \in lost THEN "done" ELSE pc[r]]
    /\ reply' = [r \in Requests |-> IF r \in lost THEN "lost" ELSE reply[r]]
    /\ pending' = [r \in Requests |-> IF r \in lost THEN NoWrite ELSE pending[r]]
    /\ key' = [key EXCEPT ![i] = k]
    /\ UNCHANGED <<job, pair, verdict, stamp, seen, table, hostUsers, accepts, clock, log>>

Tick ==
    /\ clock < MaxClock
    /\ clock' = clock + 1
    /\ UNCHANGED <<handler, table, hostUsers, accepts, key, log>>

----------------------------------------------------------------------------
Begin(r) ==
    \/ Unauthenticated(r)
    \/ \E j \in Jobs : \/ BeginSettings(r, j) \/ BeginTiles(r, j) \/ BeginInvalid(r, j)
                       \/ \E form \in Forms : BeginFetch(r, j, form)

Handle(r) ==
    \/ TilesRead(r) \/ ShowOutcome(r) \/ SaveRefused(r) \/ SaveFetched(r)
    \/ Write(r) \/ WriteFails(r) \/ Commit(r) \/ ReadModel(r)

World ==
    \/ \E p \in Forms : Revoke(p)
    \/ \E u \in Users : DeleteUser(u)
    \/ \E i \in Instances, k \in Keys \cup {NoKey} : Restart(i, k)
    \/ Tick

Next ==
    \/ World
    \/ \E r \in Requests : Begin(r) \/ Handle(r) \/ HADecides(r) \/ DatabaseFails(r)

Spec == Init /\ [][Next]_vars

(* A handler that can go on does: the event loop is fair, a fetch returns  *)
(* (FetchContract), the database answers.  Nothing is asked of users, of   *)
(* Home Assistant or of the platform.                                      *)
Fair(r) == WF_vars(Handle(r))
FairSpec == Spec /\ \A r \in Requests : Fair(r)

----------------------------------------------------------------------------
(* The variables stay in their ranges.                                     *)
TypeOK ==
    /\ job \in [Requests -> Jobs \cup {None}]
    /\ pc \in [Requests -> {"new", "reading", "fetching", "writing", "written",
                            "rendering", "done"}]
    /\ pair \in [Requests -> Pairs \cup {None}]
    /\ verdict \in [Requests -> {"none", "accepted", "rejected"}]
    /\ stamp \in [Requests -> Nat]
    /\ pending \in [Requests -> [old : SUBSET Rows, new : Rows \cup {None}]]
    /\ seen \in [Requests -> SUBSET Rows]
    /\ reply \in [Requests -> Replies]
    /\ table \subseteq Rows
    /\ hostUsers \subseteq Users
    /\ accepts \subseteq Forms
    /\ key \in [Instances -> Keys \cup {NoKey}]
    /\ clock \in Nat
    /\ log \in Seq(Requests)

(* Two saves of one user, from two tabs, do not leave two rows.            *)
OneRowPerUser == \A x, y \in table : x.user = y.user => x = y

(* No row outlives its user: a save that meets the user's deletion leaves  *)
(* nothing behind.                                                         *)
NoOrphanRow == \A row \in table : row.user \in hostUsers

(* What is stored for a user is, whole, what one of that user's saves      *)
(* submitted and Home Assistant accepted in that save's own fetch, stamped *)
(* with that fetch's time: never a mix of two saves, a pair that was only  *)
(* tested, or a pair whose fetch failed.                                   *)
StoredPairWasVerified ==
    \A row \in table :
        /\ job[row.by].kind = "save" /\ job[row.by].user = row.user
        /\ pair[row.by] = PairOf(row)
        /\ verdict[row.by] = "accepted"
        /\ stamp[row.by] = row.tested_at

(* A token is sent only to the host it was entered with, on behalf of the  *)
(* user who entered it, whatever saves and tiles interleave.               *)
TokenStaysWithItsHostAndUser ==
    \A r \in Requests : pair[r] # None =>
        /\ pair[r] \in Forms
        /\ \E q \in Requests : /\ job[q] # None /\ job[q].kind \in {"save", "test"}
                               /\ job[q].user = job[r].user /\ pair[q] = pair[r]

(* "Saved" means durable, and the form that says so shows the pair just    *)
(* saved or a later one of the same user, or none if the user is gone.     *)
(* Conversely a save that says it was refused has not been committed: only *)
(* a failure of the re-read, or of the instance, keeps a stored save from  *)
(* being reported as one.                                                  *)
Position(r) == CHOOSE n \in DOMAIN log : log[n] = r
SavedMeansStored ==
    /\ \A r \in Requests : pc[r] = "done" /\ reply[r] = "save_success" =>
        /\ \E n \in DOMAIN log : log[n] = r
        /\ seen[r] = {} => job[r].user \notin hostUsers
        /\ \A row \in seen[r] : /\ row.user = job[r].user
                                /\ Position(row.by) >= Position(r)
    /\ \A n \in DOMAIN log : reply[log[n]] \in {"save_success", "internal_error", "lost"}

(* Replacing a row never moves updated_at back, though tested_at may.      *)
UpdatedAtNeverGoesBack ==
    [][\A x \in table, y \in table' : x.user = y.user => y.updated_at >= x.updated_at]_vars

(* What a handler waits for is only a writer of the same user's row; with  *)
(* that out of its way nothing keeps it from its next step, or it is stuck.*)
WaitsForRow(r) ==
    pc[r] = "writing" /\ Writers(job[r].user) # {} /\ UserExists(job[r].user)
AHandlerIsStuck ==
    \E r \in Requests : /\ pc[r] \notin {"new", "done"} /\ ~WaitsForRow(r)
                        /\ ~ENABLED <<Handle(r)>>_vars

(* A request under way is answered (or lost with its instance).            *)
EveryRequestEnds ==
    /\ []~AHandlerIsStuck
    /\ \A r \in Requests : pc[r] # "new" ~> pc[r] = "done"

(* The table is a register per user.                                       *)
Register == INSTANCE CredentialRegister WITH
    stored <- [u \in Users |-> {PairOf(row) : row \in RowsOf(u)}],
    verified <- {<<job[r].user, pair[r]>> : r \in {q \in Requests : verdict[q] = "accepted"}}
ImplementsRegister == Register!Spec

----------------------------------------------------------------------------
(* What the documents say and the code does not do.                        *)

(* ha_credential.py:73-74 and TDD.md:78: last_tested_at is set by a        *)
(* successful Test Connection too, so a stored pair that Test Connection   *)
(* has just tried is stamped no earlier than that test.                    *)
TestConnectionIsRecorded ==
    \A r \in Requests : \A row \in table :
        pc[r] = "done" /\ reply[r] = "success" /\ job[r].kind = "test"
            /\ row.user = job[r].user /\ PairOf(row) = pair[r]
        => row.tested_at >= stamp[r]
============================================================================
