---------------------- MODULE CredentialRequestsProofs ---------------------
(***************************************************************************)
(* Proofs about CredentialRequests, for every set of requests, users,      *)
(* forms, instances and keys, and every MaxClock.                          *)
(***************************************************************************)
EXTENDS CredentialRequests, TLAPS

(* What the handler that is about to write, or is writing, knows.          *)
SavingInv ==
    \A r \in Requests :
        /\ pc[r] \in {"reading", "fetching", "writing", "written", "rendering"}
             => job[r] \in Jobs
        /\ pc[r] \in {"new", "reading"} => verdict[r] = "none"
        /\ pc[r] = "fetching" => pair[r] \in Pairs
        /\ pc[r] \in {"writing", "written"} =>
             /\ job[r].kind = "save" /\ pair[r] \in Pairs /\ verdict[r] = "accepted"
             /\ stamp[r] <= clock
             /\ key[job[r].inst] \in Keys

(* An uncommitted write is the only one of its user's row, replaces what   *)
(* is committed, and holds the user against deletion.                      *)
WrittenInv ==
    \A r \in Requests : pc[r] = "written" =>
        LET new == pending[r].new IN
        /\ pending[r].old = RowsOf(job[r].user)
        /\ new \in Rows
        /\ new.user = job[r].user /\ new.by = r /\ PairOf(new) = pair[r]
        /\ new.tested_at = stamp[r] /\ new.updated_at <= clock
        /\ \A row \in RowsOf(job[r].user) : row.updated_at <= new.updated_at
        /\ job[r].user \in hostUsers
        /\ \A q \in Writers(job[r].user) : q = r

(* The writer of a row is past its write, so what the row was made from no *)
(* longer changes.                                                         *)
TableInv ==
    /\ \A row \in table :
         /\ pc[row.by] \in {"rendering", "done"}
         /\ row.updated_at <= clock
    /\ StoredPairWasVerified
    /\ OneRowPerUser
    /\ NoOrphanRow

IInv == TypeOK /\ SavingInv /\ WrittenInv /\ TableInv
----------------------------------------------------------------------------
USE AskedAssumption, FormsAssumption, NoneAssumption, NoKeyAssumption, MaxClockAssumption

(* Types.                                                                  *)
LEMMA InitType == Init => TypeOK
<1> SUFFICES ASSUME Init PROVE TypeOK
  OBVIOUS
<1>1. /\ job \in [Requests -> Jobs \cup {None}]
      /\ pair \in [Requests -> Pairs \cup {None}]
      /\ seen \in [Requests -> SUBSET Rows]
      /\ stamp \in [Requests -> Nat]
  BY DEF Init
<1>2. /\ pc \in [Requests -> {"new"}] /\ verdict \in [Requests -> {"none"}]
      /\ reply \in [Requests -> Replies]
  BY DEF Init, Replies
<1>3. pending \in [Requests -> [old : SUBSET Rows, new : Rows \cup {None}]]
  BY DEF Init, NoWrite
<1>4. table \subseteq Rows /\ hostUsers \subseteq Users /\ accepts \subseteq Forms
  BY DEF Init
<1>5. key \in [Instances -> Keys \cup {NoKey}] /\ clock \in Nat /\ log \in Seq(Requests)
  BY DEF Init
<1> QED
  BY <1>1, <1>2, <1>3, <1>4, <1>5 DEF TypeOK

(* The row a save writes is a row, and the user's own.                     *)
LEMMA NewRowType ==
    ASSUME TypeOK, SavingInv, NEW r \in Requests, pc[r] = "writing"
    PROVE  /\ NewRow(r) \in Rows
           /\ NewRow(r).user = job[r].user /\ NewRow(r).by = r
           /\ PairOf(NewRow(r)) = pair[r]
           /\ NewRow(r).tested_at = stamp[r] /\ NewRow(r).updated_at = clock
<1>1. /\ job[r] \in Jobs /\ pair[r] \in Pairs /\ key[job[r].inst] \in Keys
  BY DEF SavingInv
<1>2. stamp[r] \in Nat /\ clock \in Nat
  BY DEF TypeOK
<1> QED
  BY <1>1, <1>2 DEF NewRow, Rows, Jobs, Pairs, PairOf

(* Every action keeps the variables in their ranges; a commit needs to know *)
(* that what it writes is a row.                                           *)
LEMMA TypeStep == TypeOK /\ SavingInv /\ WrittenInv /\ [Next]_vars => TypeOK'
<1> SUFFICES ASSUME TypeOK, SavingInv, WrittenInv, [Next]_vars PROVE TypeOK'
  OBVIOUS
<1> USE DEF TypeOK, vars, handler, world
<1>1. ASSUME NEW r \in Requests, Begin(r) PROVE TypeOK'
  <2>1. CASE Unauthenticated(r)
    BY <2>1 DEF Unauthenticated, Render, Goto, Replies
  <2>2. ASSUME NEW j \in Jobs, BeginSettings(r, j) PROVE TypeOK'
    BY <2>2 DEF BeginSettings, Accept, RenderModel, Goto, Replies
  <2>3. ASSUME NEW j \in Jobs, BeginTiles(r, j) PROVE TypeOK'
    BY <2>3 DEF BeginTiles, Accept, Goto
  <2>4. ASSUME NEW j \in Jobs, BeginInvalid(r, j) PROVE TypeOK'
    BY <2>4 DEF BeginInvalid, Accept, Render, RenderModel, Goto, Replies
  <2>5. ASSUME NEW j \in Jobs, NEW form \in Forms, BeginFetch(r, j, form) PROVE TypeOK'
    BY <2>5 DEF BeginFetch, Accept, Goto
  <2> QED
    BY <1>1, <2>1, <2>2, <2>3, <2>4, <2>5 DEF Begin
<1>2. ASSUME NEW r \in Requests, TilesRead(r) PROVE TypeOK'
  <2>1. /\ RowsOf(job[r].user) \subseteq Rows
        /\ \A row \in Rows : PairOf(row) \in Pairs
    BY DEF RowsOf, PairOf, Rows, Pairs
  <2>2. seen' \in [Requests -> SUBSET Rows]
    BY <1>2, <2>1 DEF TilesRead, Select
  <2>3. seen'[r] = RowsOf(job[r].user)
    BY <1>2 DEF TilesRead, Select
  <2>4. \/ \E what \in Replies : Render(r, what)
        \/ UNCHANGED reply /\ Goto(r, "fetching")
    BY <1>2 DEF TilesRead, Replies, FetchOutcomes
  <2>5. /\ reply' \in [Requests -> Replies]
        /\ pc' \in [Requests -> {"new", "reading", "fetching", "writing", "written",
                                 "rendering", "done"}]
    <3>1. ASSUME NEW what \in Replies, Render(r, what)
          PROVE  /\ reply' \in [Requests -> Replies]
                 /\ pc' \in [Requests -> {"new", "reading", "fetching", "writing",
                                          "written", "rendering", "done"}]
      BY <3>1 DEF Render, Goto
    <3>2. CASE UNCHANGED reply /\ Goto(r, "fetching")
      BY <3>2 DEF Goto
    <3> QED
      BY <2>4, <3>1, <3>2
  <2>6. pair' \in [Requests -> Pairs \cup {None}]
    <3>1. \/ UNCHANGED pair
          \/ \E row \in RowsOf(job[r].user) : pair' = [pair EXCEPT ![r] = PairOf(row)]
      BY <1>2, <2>3 DEF TilesRead
    <3>2. ASSUME NEW row \in RowsOf(job[r].user), pair' = [pair EXCEPT ![r] = PairOf(row)]
          PROVE  pair' \in [Requests -> Pairs \cup {None}]
      <4>1. PairOf(row) \in Pairs \cup {None}
        BY <2>1
      <4> QED
        BY <3>2, <4>1
    <3> QED
      BY <3>1, <3>2
  <2> QED
    BY <1>2, <2>2, <2>5, <2>6 DEF TilesRead
<1>3. ASSUME NEW r \in Requests, HADecides(r) PROVE TypeOK'
  BY <1>3 DEF HADecides
<1>4. ASSUME NEW r \in Requests, ShowOutcome(r) PROVE TypeOK'
  BY <1>4 DEF ShowOutcome, Outcomes, Render, Goto, Replies, FetchOutcomes
<1>5. ASSUME NEW r \in Requests, SaveRefused(r) \/ SaveFetched(r) PROVE TypeOK'
  <2>1. CASE SaveRefused(r)
    BY <2>1 DEF SaveRefused, RenderModel, Goto, Replies
  <2>2. CASE SaveFetched(r)
    <3>1. stamp' \in [Requests -> Nat]
      BY <2>2 DEF SaveFetched
    <3>2. \/ Goto(r, "writing") /\ UNCHANGED reply
          \/ Render(r, "internal_error")
      BY <2>2 DEF SaveFetched
    <3>3. reply' \in [Requests -> Replies]
      BY <3>2 DEF Render, Replies
    <3> QED
      BY <2>2, <3>1, <3>2, <3>3 DEF SaveFetched, Render, Goto
  <2> QED
    BY <1>5, <2>1, <2>2
<1>6. ASSUME NEW r \in Requests, Write(r) PROVE TypeOK'
  <2>1. /\ Conflicting(job[r].user) \subseteq Rows
        /\ Upserted(r, Conflicting(job[r].user)) \in Rows
    BY <1>6, NewRowType DEF Write, Conflicting, RowsOf, Upserted
  <2>2. pending' \in [Requests -> [old : SUBSET Rows, new : Rows \cup {None}]]
    BY <1>6, <2>1 DEF Write
  <2> QED
    BY <1>6, <2>2 DEF Write, Goto
<1>7. ASSUME NEW r \in Requests, WriteFails(r) PROVE TypeOK'
  BY <1>7 DEF WriteFails, Render, Goto, Replies
<1>7a. ASSUME NEW r \in Requests, DatabaseFails(r) PROVE TypeOK'
  <2>1. NoWrite \in [old : SUBSET Rows, new : Rows \cup {None}]
    BY DEF NoWrite
  <2>2. pending' \in [Requests -> [old : SUBSET Rows, new : Rows \cup {None}]]
    BY <1>7a, <2>1 DEF DatabaseFails
  <2> QED
    BY <1>7a, <2>2 DEF DatabaseFails, Render, Goto, Replies
<1>8. ASSUME NEW r \in Requests, Commit(r) PROVE TypeOK'
  <2>1. table' \subseteq Rows
    BY <1>8 DEF Commit, WrittenInv
  <2>2. NoWrite \in [old : SUBSET Rows, new : Rows \cup {None}]
    BY DEF NoWrite
  <2>3. log' \in Seq(Requests)
    BY <1>8 DEF Commit
  <2> QED
    BY <1>8, <2>1, <2>2, <2>3 DEF Commit, RenderModel, Goto, Replies
<1>9. ASSUME NEW r \in Requests, ReadModel(r) PROVE TypeOK'
  BY <1>9 DEF ReadModel, Select, RowsOf, Goto
<1>10. ASSUME NEW p \in Forms, Revoke(p) PROVE TypeOK'
  BY <1>10 DEF Revoke
<1>11. ASSUME NEW u \in Users, DeleteUser(u) PROVE TypeOK'
  BY <1>11 DEF DeleteUser
<1>12. ASSUME NEW i \in Instances, NEW k \in Keys \cup {NoKey}, Restart(i, k) PROVE TypeOK'
  <2>1. NoWrite \in [old : SUBSET Rows, new : Rows \cup {None}]
    BY DEF NoWrite
  <2>2. pending' \in [Requests -> [old : SUBSET Rows, new : Rows \cup {None}]]
    BY <1>12, <2>1 DEF Restart
  <2>3. key' \in [Instances -> Keys \cup {NoKey}]
    BY <1>12 DEF Restart
  <2> QED
    BY <1>12, <2>2, <2>3 DEF Restart, Replies
<1>13. CASE Tick
  BY <1>13 DEF Tick
<1>14. CASE UNCHANGED vars
  BY <1>14
<1> QED
  BY <1>1, <1>2, <1>3, <1>4, <1>5, <1>6, <1>7, <1>7a, <1>8, <1>9, <1>10, <1>11, <1>12,
     <1>13, <1>14 DEF Next, World, Handle
----------------------------------------------------------------------------
(* A step that leaves the table, the users and the pending writes alone    *)
(* keeps what is known of those writes.                                    *)
LEMMA WrittenKept ==
    ASSUME TypeOK, TypeOK', WrittenInv, UNCHANGED <<table, hostUsers>>, clock' >= clock,
           \A q \in Requests : pc'[q] = "written" =>
               /\ pc[q] = "written" /\ pending'[q] = pending[q]
               /\ job'[q] = job[q] /\ pair'[q] = pair[q] /\ stamp'[q] = stamp[q]
    PROVE  WrittenInv'
<1>1. \A u : RowsOf(u)' = RowsOf(u)
  BY DEF RowsOf
<1>2. ASSUME NEW q \in Requests, pc'[q] = "written", NEW p \in Writers(job[q].user)' PROVE p = q
  BY <1>2 DEF Writers, WrittenInv
<1>3. ASSUME NEW q \in Requests, pc'[q] = "written"
      PROVE  pending'[q].new.updated_at <= clock'
  BY <1>3 DEF TypeOK, WrittenInv, Rows
<1> QED
  BY <1>1, <1>2, <1>3 DEF WrittenInv, PairOf

(* A step that leaves the table, the users and the requests that are past  *)
(* their write alone keeps what is known of the table.                     *)
LEMMA TableKept ==
    ASSUME TypeOK, TypeOK', TableInv, UNCHANGED <<table, hostUsers>>, clock' >= clock,
           \A q \in Requests : pc[q] \in {"rendering", "done"} =>
               /\ pc'[q] \in {"rendering", "done"} /\ job'[q] = job[q]
               /\ pair'[q] = pair[q] /\ verdict'[q] = verdict[q] /\ stamp'[q] = stamp[q]
    PROVE  TableInv'
<1>1. \A row \in table : row.by \in Requests /\ row.updated_at <= clock'
  BY DEF TypeOK, TableInv, Rows
<1> QED
  BY <1>1 DEF TableInv, StoredPairWasVerified, OneRowPerUser, NoOrphanRow, PairOf

(* The inductive invariant.  A step of one request's handler changes that  *)
(* request's entries and nobody else's.                                    *)
LEMMA InvStep == IInv /\ [Next]_vars => IInv'
<1> SUFFICES ASSUME IInv, [Next]_vars PROVE SavingInv' /\ WrittenInv' /\ TableInv'
  BY TypeStep DEF IInv
<1>0. /\ TypeOK /\ TypeOK' /\ SavingInv /\ WrittenInv /\ TableInv
  BY TypeStep DEF IInv
<1> USE DEF vars, handler, world
<1>1. ASSUME NEW r \in Requests, Unauthenticated(r)
      PROVE  SavingInv' /\ WrittenInv' /\ TableInv'
  <2>1. SavingInv'
    BY <1>1, <1>0 DEF Unauthenticated, Render, Goto, TypeOK, SavingInv
  <2>2. WrittenInv'
    BY <1>1, <1>0, WrittenKept DEF Unauthenticated, Render, Goto, TypeOK
  <2>3. TableInv'
    BY <1>1, <1>0, TableKept DEF Unauthenticated, Render, Goto, TypeOK
  <2> QED BY <2>1, <2>2, <2>3
<1>2. ASSUME NEW r \in Requests, NEW j \in Jobs, BeginSettings(r, j)
      PROVE  SavingInv' /\ WrittenInv' /\ TableInv'
  <2>1. SavingInv'
    BY <1>2, <1>0 DEF BeginSettings, Accept, RenderModel, Goto, TypeOK, SavingInv
  <2>2. WrittenInv'
    BY <1>2, <1>0, WrittenKept DEF BeginSettings, Accept, RenderModel, Goto, TypeOK
  <2>3. TableInv'
    BY <1>2, <1>0, TableKept DEF BeginSettings, Accept, RenderModel, Goto, TypeOK
  <2> QED BY <2>1, <2>2, <2>3
<1>3. ASSUME NEW r \in Requests, NEW j \in Jobs, BeginTiles(r, j)
      PROVE  SavingInv' /\ WrittenInv' /\ TableInv'
  <2>1. SavingInv'
    BY <1>3, <1>0 DEF BeginTiles, Accept, Goto, TypeOK, SavingInv
  <2>2. WrittenInv'
    BY <1>3, <1>0, WrittenKept DEF BeginTiles, Accept, Goto, TypeOK
  <2>3. TableInv'
    BY <1>3, <1>0, TableKept DEF BeginTiles, Accept, Goto, TypeOK
  <2> QED BY <2>1, <2>2, <2>3
<1>4. ASSUME NEW r \in Requests, NEW j \in Jobs, BeginInvalid(r, j)
      PROVE  SavingInv' /\ WrittenInv' /\ TableInv'
  <2>1. SavingInv'
    BY <1>4, <1>0 DEF BeginInvalid, Accept, Render, RenderModel, Goto, TypeOK, SavingInv
  <2>2. WrittenInv'
    BY <1>4, <1>0, WrittenKept DEF BeginInvalid, Accept, Render, RenderModel, Goto, TypeOK
  <2>3. TableInv'
    BY <1>4, <1>0, TableKept DEF BeginInvalid, Accept, Render, RenderModel, Goto, TypeOK
  <2> QED BY <2>1, <2>2, <2>3
<1>5. ASSUME NEW r \in Requests, NEW j \in Jobs, NEW form \in Forms, BeginFetch(r, j, form)
      PROVE  SavingInv' /\ WrittenInv' /\ TableInv'
  <2>1. SavingInv'
    BY <1>5, <1>0 DEF BeginFetch, Accept, Goto, TypeOK, SavingInv
  <2>2. WrittenInv'
    BY <1>5, <1>0, WrittenKept DEF BeginFetch, Accept, Goto, TypeOK
  <2>3. TableInv'
    BY <1>5, <1>0, TableKept DEF BeginFetch, Accept, Goto, TypeOK
  <2> QED BY <2>1, <2>2, <2>3
<1>6. ASSUME NEW r \in Requests, TilesRead(r)
      PROVE  SavingInv' /\ WrittenInv' /\ TableInv'
  <2>a. /\ pc[r] = "reading" /\ job[r] \in Jobs
        /\ \/ UNCHANGED pair /\ \E what \in Replies : Render(r, what)
           \/ \E row \in RowsOf(job[r].user) :
                pair' = [pair EXCEPT ![r] = PairOf(row)] /\ Goto(r, "fetching")
        /\ UNCHANGED <<job, verdict, stamp, pending, table, world, log>>
    <3>1. seen'[r] = RowsOf(job[r].user)
      BY <1>6, <1>0 DEF TilesRead, Select, TypeOK
    <3> QED
      BY <1>6, <1>0, <3>1 DEF TilesRead, SavingInv, Replies, FetchOutcomes
  <2>b. /\ \A q \in Requests \ {r} : pc'[q] = pc[q] /\ pair'[q] = pair[q]
        /\ pc'[r] \in {"done", "fetching"}
        /\ pc'[r] = "fetching" => pair'[r] \in Pairs
    <3>1. CASE UNCHANGED pair /\ \E what \in Replies : Render(r, what)
      BY <3>1, <1>0 DEF Render, Goto, TypeOK
    <3>2. ASSUME NEW row \in RowsOf(job[r].user),
                 pair' = [pair EXCEPT ![r] = PairOf(row)], Goto(r, "fetching")
          PROVE  /\ \A q \in Requests \ {r} : pc'[q] = pc[q] /\ pair'[q] = pair[q]
                 /\ pc'[r] = "fetching" /\ pair'[r] \in Pairs
      BY <3>2, <1>0 DEF Goto, TypeOK, RowsOf, Rows, PairOf, Pairs
    <3> QED
      BY <2>a, <3>1, <3>2
  <2>1. SavingInv'
    BY <2>a, <2>b, <1>0 DEF TypeOK, SavingInv
  <2>2. WrittenInv'
    BY <2>a, <2>b, <1>0, WrittenKept DEF TypeOK
  <2>3. TableInv'
    BY <2>a, <2>b, <1>0, TableKept DEF TypeOK
  <2> QED BY <2>1, <2>2, <2>3
<1>7. ASSUME NEW r \in Requests, HADecides(r)
      PROVE  SavingInv' /\ WrittenInv' /\ TableInv'
  <2>1. SavingInv'
    BY <1>7, <1>0 DEF HADecides, TypeOK, SavingInv
  <2>2. WrittenInv'
    BY <1>7, <1>0, WrittenKept DEF HADecides, TypeOK
  <2>3. TableInv'
    BY <1>7, <1>0, TableKept DEF HADecides, TypeOK
  <2> QED BY <2>1, <2>2, <2>3
<1>8. ASSUME NEW r \in Requests, ShowOutcome(r)
      PROVE  SavingInv' /\ WrittenInv' /\ TableInv'
  <2>1. SavingInv'
    BY <1>8, <1>0 DEF ShowOutcome, Render, Goto, TypeOK, SavingInv
  <2>2. WrittenInv'
    BY <1>8, <1>0, WrittenKept DEF ShowOutcome, Render, Goto, TypeOK
  <2>3. TableInv'
    BY <1>8, <1>0, TableKept DEF ShowOutcome, Render, Goto, TypeOK
  <2> QED BY <2>1, <2>2, <2>3
<1>9. ASSUME NEW r \in Requests, SaveRefused(r)
      PROVE  SavingInv' /\ WrittenInv' /\ TableInv'
  <2>1. SavingInv'
    BY <1>9, <1>0 DEF SaveRefused, RenderModel, Goto, TypeOK, SavingInv
  <2>2. WrittenInv'
    BY <1>9, <1>0, WrittenKept DEF SaveRefused, RenderModel, Goto, TypeOK
  <2>3. TableInv'
    BY <1>9, <1>0, TableKept DEF SaveRefused, RenderModel, Goto, TypeOK
  <2> QED BY <2>1, <2>2, <2>3
<1>10. ASSUME NEW r \in Requests, SaveFetched(r)
      PROVE  SavingInv' /\ WrittenInv' /\ TableInv'
  <2>a. /\ pc[r] = "fetching" /\ job[r].kind = "save" /\ verdict[r] = "accepted"
        /\ stamp' = [stamp EXCEPT ![r] = clock]
        /\ \/ Goto(r, "writing") /\ CipherReady(job[r].inst)
           \/ Goto(r, "done")
        /\ UNCHANGED <<job, pair, verdict, pending, seen, table, world, log>>
    BY <1>10 DEF SaveFetched, Render, Outcomes, Savable
  <2>b. /\ job[r] \in Jobs /\ pair[r] \in Pairs
        /\ pc'[r] = "writing" => key[job[r].inst] \in Keys
        /\ pc'[r] \in {"writing", "done"} /\ stamp'[r] = clock
        /\ \A q \in Requests \ {r} : pc'[q] = pc[q] /\ stamp'[q] = stamp[q]
    <3>1. job[r] \in Jobs /\ pair[r] \in Pairs
      BY <2>a, <1>0 DEF SavingInv
    <3>2. CipherReady(job[r].inst) => key[job[r].inst] \in Keys
      BY <3>1, <1>0 DEF CipherReady, Jobs, TypeOK
    <3> QED
      BY <2>a, <3>1, <3>2, <1>0 DEF Goto, TypeOK
  <2>1. SavingInv'
    BY <2>a, <2>b, <1>0 DEF TypeOK, SavingInv
  <2>2. WrittenInv'
    BY <2>a, <2>b, <1>0, WrittenKept DEF TypeOK
  <2>3. TableInv'
    BY <2>a, <2>b, <1>0, TableKept DEF TypeOK
  <2> QED BY <2>1, <2>2, <2>3
<1>11. ASSUME NEW r \in Requests, Write(r)
      PROVE  SavingInv' /\ WrittenInv' /\ TableInv'
  <2>a. /\ pc[r] = "writing" /\ Writers(job[r].user) = {} /\ job[r].user \in hostUsers
        /\ pending' = [pending EXCEPT ![r] = [old |-> RowsOf(job[r].user), new |-> NewRow(r)]]
        /\ pc' = [pc EXCEPT ![r] = "written"]
        /\ UNCHANGED <<job, pair, verdict, stamp, seen, reply, table, world, log>>
    BY <1>11 DEF Write, Goto, UserExists, Conflicting, Upserted
  <2>1. SavingInv'
    BY <1>11, <1>0 DEF Write, Goto, TypeOK, SavingInv
  <2>2. WrittenInv'
    <3>1. /\ pending'[r] = [old |-> RowsOf(job[r].user), new |-> NewRow(r)]
          /\ \A q \in Requests \ {r} : pending'[q] = pending[q] /\ pc'[q] = pc[q]
          /\ \A u \in Users : RowsOf(u)' = RowsOf(u)
      BY <2>a, <1>0 DEF TypeOK, RowsOf
    <3>2. /\ NewRow(r) \in Rows
          /\ NewRow(r).user = job[r].user /\ NewRow(r).by = r
          /\ PairOf(NewRow(r)) = pair[r]
          /\ NewRow(r).tested_at = stamp[r] /\ NewRow(r).updated_at = clock
      BY <2>a, <1>0, NewRowType
    <3>3. \A row \in RowsOf(job[r].user) : row.updated_at <= clock
      BY <1>0 DEF RowsOf, TableInv
    <3>4. \A q \in Requests : pc[q] = "written" => job[q].user # job[r].user
      BY <2>a DEF Writers
    <3>5. \A q \in Requests : pc[q] = "written" => job[q].user \in Users
      BY <1>0 DEF SavingInv, Jobs
    <3>6. job[r].user \in Users
      BY <2>a, <1>0 DEF SavingInv, Jobs
    <3> SUFFICES ASSUME NEW q \in Requests, pc'[q] = "written"
                 PROVE  LET new == pending'[q].new IN
                        /\ pending'[q].old = RowsOf(job[q].user)
                        /\ new \in Rows
                        /\ new.user = job[q].user /\ new.by = q /\ PairOf(new) = pair[q]
                        /\ new.tested_at = stamp[q] /\ new.updated_at <= clock
                        /\ \A row \in RowsOf(job[q].user) : row.updated_at <= new.updated_at
                        /\ job[q].user \in hostUsers
                        /\ \A p \in Requests : pc'[p] = "written" /\ job[p].user = job[q].user
                             => p = q
      BY <2>a DEF WrittenInv, Writers, PairOf, RowsOf
    <3>7. CASE q = r
      <4>1. \A p \in Requests : pc'[p] = "written" /\ job[p].user = job[r].user => p = r
        BY <3>1, <3>4
      <4>2. clock <= clock
        BY <1>0 DEF TypeOK
      <4> QED
        BY <3>7, <4>1, <4>2, <3>1, <3>2, <3>3, <2>a
    <3>8. CASE q # r
      <4>1. pc[q] = "written" /\ pending'[q] = pending[q]
        BY <3>8, <3>1
      <4>2. \A p \in Requests : pc'[p] = "written" /\ job[p].user = job[q].user => p = q
        BY <4>1, <3>1, <3>4, <1>0 DEF WrittenInv, Writers
      <4> QED
        BY <4>1, <4>2, <1>0 DEF WrittenInv
    <3> QED
      BY <3>7, <3>8
  <2>3. TableInv'
    BY <1>11, <1>0, TableKept DEF Write, Goto, TypeOK
  <2> QED BY <2>1, <2>2, <2>3
<1>12. ASSUME NEW r \in Requests, WriteFails(r)
      PROVE  SavingInv' /\ WrittenInv' /\ TableInv'
  <2>1. SavingInv'
    BY <1>12, <1>0 DEF WriteFails, Render, Goto, TypeOK, SavingInv
  <2>2. WrittenInv'
    BY <1>12, <1>0, WrittenKept DEF WriteFails, Render, Goto, TypeOK
  <2>3. TableInv'
    BY <1>12, <1>0, TableKept DEF WriteFails, Render, Goto, TypeOK
  <2> QED BY <2>1, <2>2, <2>3
<1>12a. ASSUME NEW r \in Requests, DatabaseFails(r)
        PROVE  SavingInv' /\ WrittenInv' /\ TableInv'
  <2>1. SavingInv'
    BY <1>12a, <1>0 DEF DatabaseFails, Render, Goto, TypeOK, SavingInv
  <2>2. WrittenInv'
    BY <1>12a, <1>0, WrittenKept DEF DatabaseFails, Render, Goto, TypeOK
  <2>3. TableInv'
    BY <1>12a, <1>0, TableKept DEF DatabaseFails, Render, Goto, TypeOK
  <2> QED BY <2>1, <2>2, <2>3
<1>13. ASSUME NEW r \in Requests, Commit(r)
      PROVE  SavingInv' /\ WrittenInv' /\ TableInv'
  <2>1. SavingInv'
    BY <1>13, <1>0 DEF Commit, RenderModel, Goto, TypeOK, SavingInv
  <2>2. WrittenInv'
    BY <1>13, <1>0 DEF Commit, RenderModel, Goto, TypeOK, WrittenInv, RowsOf, Writers, SavingInv
  <2>3. TableInv'
    <3> DEFINE new == pending[r].new
    <3>1. /\ pc[r] = "written" /\ pending[r].old = RowsOf(job[r].user)
          /\ table' = (table \ RowsOf(job[r].user)) \cup {new}
          /\ pc' = [pc EXCEPT ![r] = "rendering"]
          /\ UNCHANGED <<job, pair, verdict, stamp, world>>
      BY <1>13, <1>0 DEF Commit, RenderModel, Goto, WrittenInv
    <3>2. /\ new \in Rows /\ new.user = job[r].user /\ new.by = r /\ PairOf(new) = pair[r]
          /\ new.tested_at = stamp[r] /\ new.updated_at <= clock /\ job[r].user \in hostUsers
      BY <3>1, <1>0 DEF WrittenInv
    <3>3. job[r].kind = "save" /\ verdict[r] = "accepted"
      BY <3>1, <1>0 DEF SavingInv
    <3>4. \A row \in table' : \/ row = new
                              \/ row \in table /\ row.user # job[r].user /\ row.by # r
      BY <3>1, <1>0 DEF RowsOf, TableInv
    <3>5. \A row \in table' : pc'[row.by] \in {"rendering", "done"} /\ row.updated_at <= clock
      BY <3>1, <3>2, <3>4, <1>0 DEF TableInv, TypeOK, Rows
    <3>6. StoredPairWasVerified' /\ NoOrphanRow'
      BY <3>1, <3>2, <3>3, <3>4, <1>0 DEF TableInv, StoredPairWasVerified, NoOrphanRow, PairOf
    <3>7. OneRowPerUser'
      BY <3>2, <3>4, <1>0 DEF TableInv, OneRowPerUser
    <3> QED
      BY <3>1, <3>5, <3>6, <3>7 DEF TableInv
  <2> QED BY <2>1, <2>2, <2>3
<1>14. ASSUME NEW r \in Requests, ReadModel(r)
      PROVE  SavingInv' /\ WrittenInv' /\ TableInv'
  <2>1. SavingInv'
    BY <1>14, <1>0 DEF ReadModel, Goto, TypeOK, SavingInv
  <2>2. WrittenInv'
    BY <1>14, <1>0, WrittenKept DEF ReadModel, Goto, TypeOK
  <2>3. TableInv'
    BY <1>14, <1>0, TableKept DEF ReadModel, Goto, TypeOK
  <2> QED BY <2>1, <2>2, <2>3
<1>15. ASSUME NEW p \in Forms, Revoke(p)
      PROVE  SavingInv' /\ WrittenInv' /\ TableInv'
  <2>1. SavingInv'
    BY <1>15, <1>0 DEF Revoke, TypeOK, SavingInv
  <2>2. WrittenInv'
    BY <1>15, <1>0, WrittenKept DEF Revoke, TypeOK
  <2>3. TableInv'
    <3>1. UNCHANGED <<handler, table, hostUsers, clock>> /\ clock \in Nat
      BY <1>15, <1>0 DEF Revoke, TypeOK
    <3> QED
      BY <3>1, <1>0, TableKept
  <2> QED BY <2>1, <2>2, <2>3
<1>16. ASSUME NEW u \in Users, DeleteUser(u)
      PROVE  SavingInv' /\ WrittenInv' /\ TableInv'
  <2>1. SavingInv'
    BY <1>16, <1>0 DEF DeleteUser, TypeOK, SavingInv
  <2>2. WrittenInv'
    BY <1>16, <1>0 DEF DeleteUser, TypeOK, WrittenInv, RowsOf, Writers, SavingInv
  <2>3. TableInv'
    <3>1. /\ \A row \in table' : row \in table /\ row.user # u
          /\ hostUsers' = hostUsers \ {u}
          /\ UNCHANGED <<job, pc, pair, verdict, stamp, clock>>
      BY <1>16 DEF DeleteUser, RowsOf
    <3>2. StoredPairWasVerified' /\ OneRowPerUser' /\ NoOrphanRow'
      BY <3>1, <1>0 DEF TableInv, StoredPairWasVerified, OneRowPerUser, NoOrphanRow, PairOf
    <3> QED
      BY <3>1, <3>2, <1>0 DEF TableInv
  <2> QED BY <2>1, <2>2, <2>3
<1>17. ASSUME NEW i \in Instances, NEW k \in Keys \cup {NoKey}, Restart(i, k)
      PROVE  SavingInv' /\ WrittenInv' /\ TableInv'
  <2>1. SavingInv'
    BY <1>17, <1>0 DEF Restart, TypeOK, SavingInv
  <2>2. WrittenInv'
    BY <1>17, <1>0, WrittenKept DEF Restart, TypeOK
  <2>3. TableInv'
    BY <1>17, <1>0, TableKept DEF Restart, TypeOK
  <2> QED BY <2>1, <2>2, <2>3
<1>18. CASE Tick
  <2>1. SavingInv'
    BY <1>18, <1>0 DEF Tick, TypeOK, SavingInv
  <2>2. WrittenInv'
    BY <1>18, <1>0, WrittenKept DEF Tick, TypeOK
  <2>3. TableInv'
    BY <1>18, <1>0, TableKept DEF Tick, TypeOK
  <2> QED BY <2>1, <2>2, <2>3
<1>19. CASE UNCHANGED vars
  <2>1. SavingInv'
    BY <1>19, <1>0 DEF TypeOK, SavingInv
  <2>2. WrittenInv'
    BY <1>19, <1>0, WrittenKept DEF TypeOK
  <2>3. TableInv'
    BY <1>19, <1>0, TableKept DEF TypeOK
  <2> QED BY <2>1, <2>2, <2>3
<1> QED
  BY <1>1, <1>2, <1>3, <1>4, <1>5, <1>6, <1>7, <1>8, <1>9, <1>10, <1>11, <1>12, <1>12a,
     <1>13, <1>14, <1>15, <1>16, <1>17, <1>18, <1>19
     DEF Next, World, Begin, Handle

(* The inductive invariant holds in every behaviour.                       *)
THEOREM Invariance == Spec => []IInv
<1>1. Init => IInv
  <2> SUFFICES ASSUME Init PROVE IInv
    OBVIOUS
  <2>1. TypeOK
    BY InitType
  <2>2. SavingInv /\ WrittenInv
    BY DEF Init, SavingInv, WrittenInv
  <2>3. TableInv
    BY DEF Init, TableInv, StoredPairWasVerified, OneRowPerUser, NoOrphanRow
  <2> QED
    BY <2>1, <2>2, <2>3 DEF IInv
<1> QED
  BY <1>1, InvStep, PTL DEF Spec

(* The variables stay in their ranges.                                     *)
THEOREM TypeCorrect == Spec => []TypeOK
<1>1. IInv => TypeOK
  BY DEF IInv
<1> QED
  BY <1>1, Invariance, PTL

(* However many saves of a user run at once, the user has one row.         *)
THEOREM SingleRow == Spec => []OneRowPerUser
<1>1. IInv => OneRowPerUser
  BY DEF IInv, TableInv
<1> QED
  BY <1>1, Invariance, PTL

(* No save leaves a row behind for a user who was deleted meanwhile.       *)
THEOREM NoOrphan == Spec => []NoOrphanRow
<1>1. IInv => NoOrphanRow
  BY DEF IInv, TableInv
<1> QED
  BY <1>1, Invariance, PTL

(* What is stored was submitted together by that user and accepted by Home *)
(* Assistant in the fetch of the save that stored it.                      *)
THEOREM VerifiedPairs == Spec => []StoredPairWasVerified
<1>1. IInv => StoredPairWasVerified
  BY DEF IInv, TableInv
<1> QED
  BY <1>1, Invariance, PTL

(* Steps that touch the table: only a commit and a deletion do.            *)
LEMMA TableChanges ==
    ASSUME [Next]_vars
    PROVE  \/ UNCHANGED table
           \/ \E r \in Requests : Commit(r)
           \/ \E u \in Users : DeleteUser(u)
BY DEF Next, World, Begin, Handle, vars, handler, world, Unauthenticated, BeginSettings,
       BeginTiles, BeginInvalid, BeginFetch, TilesRead, HADecides, ShowOutcome,
       SaveRefused, SaveFetched, Write, WriteFails, ReadModel, DatabaseFails, Revoke, Restart, Tick

(* updated_at is read by the database under the row's lock, so a save that *)
(* is applied after another carries a later time.                          *)
THEOREM UpdatedAtMonotone == Spec => UpdatedAtNeverGoesBack
<1>1. IInv /\ [Next]_vars
      => \A x \in table, y \in table' : x.user = y.user => y.updated_at >= x.updated_at
  <2> SUFFICES ASSUME IInv, [Next]_vars, NEW x \in table, NEW y \in table', x.user = y.user
               PROVE  y.updated_at >= x.updated_at
    OBVIOUS
  <2>0. TypeOK /\ WrittenInv /\ TableInv
    BY DEF IInv
  <2>1. x \in Rows /\ x.updated_at \in Nat
    BY <2>0 DEF TypeOK, Rows
  <2>2. CASE y \in table
    BY <2>0, <2>1, <2>2 DEF TableInv, OneRowPerUser
  <2>3. CASE y \notin table
    <3>1. PICK r \in Requests : Commit(r)
      BY <2>3, TableChanges DEF DeleteUser
    <3>2. pc[r] = "written" /\ y = pending[r].new /\ y.user = job[r].user
      BY <3>1, <2>0, <2>3 DEF Commit, WrittenInv
    <3>3. x \in RowsOf(job[r].user) /\ y.updated_at \in Nat
      BY <3>2, <2>0 DEF RowsOf, WrittenInv, Rows
    <3> QED
      BY <3>2, <3>3, <2>0, <2>1 DEF WrittenInv
  <2> QED
    BY <2>2, <2>3
<1> QED
  BY <1>1, Invariance, PTL DEF Spec, UpdatedAtNeverGoesBack

----------------------------------------------------------------------------
(* The register.  `stored' and `verified' are what the refinement mapping  *)
(* of ImplementsRegister substitutes.                                      *)
Stored == [u \in Users |-> {PairOf(row) : row \in RowsOf(u)}]
Verified == {<<job[r].user, pair[r]>> : r \in {q \in Requests : verdict[q] = "accepted"}}

(* What a fetch was accepted for does not change afterwards.               *)
LEMMA VerifiedGrows ==
    ASSUME IInv, [Next]_vars
    PROVE  \/ UNCHANGED Verified
           \/ \E r \in Requests : HADecides(r)
<1> SUFFICES ASSUME ~\E r \in Requests : HADecides(r) PROVE UNCHANGED Verified
  OBVIOUS
<1>0. TypeOK /\ SavingInv
  BY DEF IInv
<1>1. UNCHANGED verdict
  BY DEF Next, World, Begin, Handle, vars, handler, world, Unauthenticated, BeginSettings,
       BeginTiles, BeginInvalid, BeginFetch, TilesRead, ShowOutcome, Commit, DeleteUser,
       SaveRefused, SaveFetched, Write, WriteFails, ReadModel, DatabaseFails, Revoke, Restart, Tick
<1>2. \A q \in Requests : verdict[q] = "accepted" => job'[q] = job[q] /\ pair'[q] = pair[q]
  <2> SUFFICES ASSUME NEW q \in Requests, verdict[q] = "accepted"
               PROVE  job'[q] = job[q] /\ pair'[q] = pair[q]
    OBVIOUS
  <2>1. pc[q] \notin {"new", "reading"}
    BY <1>0 DEF SavingInv
  <2>2. ASSUME NEW r \in Requests, Begin(r) PROVE job'[q] = job[q] /\ pair'[q] = pair[q]
    BY <2>1, <2>2, <1>0 DEF Begin, Unauthenticated, BeginSettings, BeginTiles,
       BeginInvalid, BeginFetch, Accept, TypeOK
  <2>3. ASSUME NEW r \in Requests, TilesRead(r) PROVE job'[q] = job[q] /\ pair'[q] = pair[q]
    BY <2>1, <2>3, <1>0 DEF TilesRead, TypeOK
  <2> QED
    BY <2>2, <2>3 DEF Next, World, Handle, vars, handler, world, ShowOutcome, Commit,
       DeleteUser, SaveRefused, SaveFetched, Write, WriteFails, ReadModel, DatabaseFails, Revoke, Restart, Tick
<1> QED
  BY <1>1, <1>2 DEF Verified

(* Every step is a step of the register or leaves it alone: a verdict is a *)
(* Verify, a commit is a Put, a deletion is a Forget.                      *)
LEMMA RegisterStep == IInv /\ [Next]_vars => [Register!Next]_(Register!vars)
<1> SUFFICES ASSUME IInv, [Next]_vars
             PROVE  Register!Next \/ UNCHANGED <<Stored, Verified>>
  BY DEF Register!vars, Stored, Verified
<1> USE DEF Register!Next
<1>0. TypeOK /\ SavingInv /\ WrittenInv /\ TableInv
  BY DEF IInv
<1>1. ASSUME NEW r \in Requests, HADecides(r)
      PROVE  Register!Next \/ UNCHANGED <<Stored, Verified>>
  <2>1. /\ UNCHANGED <<job, pair, table>> /\ UNCHANGED Stored
        /\ pc[r] = "fetching" /\ verdict[r] = "none"
        /\ \A q \in Requests \ {r} : verdict'[q] = verdict[q]
    BY <1>1, <1>0 DEF HADecides, Stored, RowsOf, TypeOK
  <2>2. job[r].user \in Users /\ pair[r] \in Pairs
    BY <2>1, <1>0 DEF SavingInv, Jobs
  <2>3. CASE verdict'[r] = "accepted"
    <3>1. Verified' = Verified \cup {<<job[r].user, pair[r]>>}
      BY <2>1, <2>3 DEF Verified
    <3>2. \E u \in Users, p \in Pairs : Register!Verify(u, p)
      BY <3>1, <2>1, <2>2 DEF Register!Verify, Stored, Verified
    <3> QED
      BY <3>2
  <2>4. CASE verdict'[r] # "accepted"
    <3>1. UNCHANGED Verified
      BY <2>1, <2>4 DEF Verified
    <3> QED
      BY <3>1, <2>1
  <2> QED
    BY <2>3, <2>4
<1>2. ASSUME NEW r \in Requests, Commit(r)
      PROVE  Register!Next \/ UNCHANGED <<Stored, Verified>>
  <2> DEFINE u == job[r].user
             new == pending[r].new
  <2>1. /\ pc[r] = "written" /\ UNCHANGED <<job, pair, verdict>>
        /\ table' = (table \ RowsOf(u)) \cup {new}
        /\ new.user = u /\ PairOf(new) = pair[r]
    BY <1>2, <1>0 DEF Commit, WrittenInv
  <2>2. u \in Users /\ pair[r] \in Pairs /\ <<u, pair[r]>> \in Verified
    BY <2>1, <1>0 DEF SavingInv, Jobs, Verified
  <2>3. \A v \in Users : RowsOf(v)' = IF v = u THEN {new} ELSE RowsOf(v)
    BY <2>1 DEF RowsOf
  <2>4. Stored' = [Stored EXCEPT ![u] = {pair[r]}]
    <3>1. \A v \in Users : Stored'[v] = IF v = u THEN {pair[r]} ELSE Stored[v]
      BY <2>1, <2>3 DEF Stored, PairOf
    <3> QED
      BY <3>1, <2>2 DEF Stored
  <2>5. Register!Put(u, pair[r])
    BY <2>1, <2>2, <2>4 DEF Register!Put, Stored, Verified
  <2> QED
    BY <2>2, <2>5
<1>3. ASSUME NEW u \in Users, DeleteUser(u)
      PROVE  Register!Next \/ UNCHANGED <<Stored, Verified>>
  <2>1. /\ UNCHANGED <<job, pair, verdict>> /\ UNCHANGED Verified
        /\ table' = table \ RowsOf(u)
    BY <1>3 DEF DeleteUser, handler, Verified
  <2>2. \A v \in Users : RowsOf(v)' = IF v = u THEN {} ELSE RowsOf(v)
    BY <2>1 DEF RowsOf
  <2>3. Stored' = [Stored EXCEPT ![u] = {}]
    <3>1. \A v \in Users : Stored'[v] = IF v = u THEN {} ELSE Stored[v]
      BY <2>2 DEF Stored, PairOf
    <3> QED
      BY <3>1 DEF Stored
  <2>4. Register!Forget(u)
    BY <2>1, <2>3 DEF Register!Forget, Stored, Verified
  <2> QED
    BY <2>4
<1>4. CASE UNCHANGED table /\ UNCHANGED Verified
  BY <1>4 DEF Stored, RowsOf
<1> QED
  BY <1>1, <1>2, <1>3, <1>4, TableChanges, VerifiedGrows

(* Whatever requests, deletions, revocations, restarts and key changes     *)
(* interleave, the table is a register: per user one pair, replaced whole  *)
(* by a pair Home Assistant accepted for that user.                        *)
THEOREM RegisterRefinement == Spec => ImplementsRegister
<1>1. Init => Register!Init
  <2> SUFFICES ASSUME Init PROVE Stored = [u \in Users |-> {}] /\ Verified = {}
    BY DEF Register!Init, Stored, Verified
  <2> QED
    BY DEF Init, Stored, Verified, RowsOf
<1> QED
  BY <1>1, RegisterStep, Invariance, PTL DEF Spec, Register!Spec, ImplementsRegister

----------------------------------------------------------------------------
(* Where a token goes.  A request has no pair before it submits one or     *)
(* reads its user's, and keeps it from then on.                            *)
TokenInv == /\ \A r \in Requests : pc[r] \in {"new", "reading"} => pair[r] = None
            /\ TokenStaysWithItsHostAndUser

LEMMA PairStays ==
    ASSUME IInv, [Next]_vars, NEW q \in Requests, pc[q] \notin {"new", "reading"}
    PROVE  job'[q] = job[q] /\ pair'[q] = pair[q] /\ pc'[q] \notin {"new", "reading"}
<1>0. TypeOK
  BY DEF IInv
<1>1. ASSUME NEW r \in Requests, Begin(r)
      PROVE  job'[q] = job[q] /\ pair'[q] = pair[q] /\ pc'[q] \notin {"new", "reading"}
  BY <1>1, <1>0 DEF Begin, Unauthenticated, BeginSettings, BeginTiles, BeginInvalid, BeginFetch,
     Accept, Render, RenderModel, Goto, TypeOK
<1>2. ASSUME NEW r \in Requests, TilesRead(r)
      PROVE  job'[q] = job[q] /\ pair'[q] = pair[q] /\ pc'[q] \notin {"new", "reading"}
  BY <1>2, <1>0 DEF TilesRead, Render, Goto, TypeOK
<1>3. CASE UNCHANGED <<job, pair>>
  <2>1. pc'[q] \notin {"new", "reading"}
    BY <1>1, <1>2, <1>0 DEF Next, World, Handle, vars, handler, world, ShowOutcome, Commit,
       DeleteUser, SaveRefused, SaveFetched, Write, WriteFails, ReadModel, DatabaseFails, Revoke, Restart, Tick,
       HADecides, Render, RenderModel, Goto, TypeOK
  <2> QED
    BY <1>3, <2>1
<1> QED
  BY <1>1, <1>2, <1>3 DEF Next, World, Handle, vars, handler, world, ShowOutcome, Commit,
     DeleteUser, SaveRefused, SaveFetched, Write, WriteFails, ReadModel, DatabaseFails, Revoke, Restart, Tick,
     HADecides

LEMMA PairIsSet ==
    ASSUME IInv, [Next]_vars, NEW q \in Requests, pair'[q] # pair[q]
    PROVE  \/ \E j \in Jobs, form \in Forms : BeginFetch(q, j, form)
           \/ TilesRead(q)
<1>0. TypeOK
  BY DEF IInv
<1>1. ASSUME NEW r \in Requests, Begin(r)
      PROVE  \E j \in Jobs, form \in Forms : BeginFetch(q, j, form)
  <2>1. PICK j \in Jobs, form \in Forms : BeginFetch(r, j, form)
    BY <1>1 DEF Begin, Unauthenticated, BeginSettings, BeginTiles, BeginInvalid
  <2>2. q = r
    BY <2>1, <1>0 DEF BeginFetch, TypeOK
  <2> QED
    BY <2>1, <2>2
<1>2. ASSUME NEW r \in Requests, TilesRead(r) PROVE TilesRead(q)
  <2>1. q = r
    BY <1>2, <1>0 DEF TilesRead, TypeOK
  <2> QED
    BY <1>2, <2>1
<1> QED
  BY <1>1, <1>2 DEF Next, World, Handle, vars, handler, world, ShowOutcome, Commit,
     DeleteUser, SaveRefused, SaveFetched, Write, WriteFails, ReadModel, DatabaseFails, Revoke, Restart, Tick,
     HADecides

LEMMA TokenStep == IInv /\ TokenInv /\ [Next]_vars => TokenInv'
<1> SUFFICES ASSUME IInv, TokenInv, [Next]_vars PROVE TokenInv'
  OBVIOUS
<1>0. TypeOK /\ TableInv
  BY DEF IInv
<1>1. ASSUME NEW r \in Requests, pc'[r] \in {"new", "reading"} PROVE pair'[r] = None
  <2>1. pc[r] \in {"new", "reading"} /\ pair[r] = None
    BY <1>1, PairStays DEF TokenInv
  <2>2. CASE pair'[r] # pair[r]
    <3>1. ASSUME NEW j \in Jobs, NEW form \in Forms, BeginFetch(r, j, form) PROVE FALSE
      BY <1>1, <3>1, <1>0 DEF BeginFetch, Goto, TypeOK
    <3>2. ASSUME TilesRead(r) PROVE FALSE
      BY <1>1, <2>2, <3>2, <1>0 DEF TilesRead, Goto, Render, TypeOK
    <3> QED
      BY <2>2, <3>1, <3>2, PairIsSet
  <2> QED
    BY <2>1, <2>2
(* Whoever had a pair still has it, for the same user.                     *)
<1>2. ASSUME NEW q \in Requests, pair[q] # None PROVE job'[q] = job[q] /\ pair'[q] = pair[q]
  BY <1>2, PairStays DEF TokenInv
<1>3. ASSUME NEW r \in Requests, pair'[r] # None
      PROVE  /\ pair'[r] \in Forms
             /\ \E q \in Requests : /\ job'[q] # None /\ job'[q].kind \in {"save", "test"}
                                    /\ job'[q].user = job'[r].user /\ pair'[q] = pair'[r]
  <2>1. CASE pair[r] # None
    <3>1. PICK q \in Requests : /\ job[q] # None /\ job[q].kind \in {"save", "test"}
                                /\ job[q].user = job[r].user /\ pair[q] = pair[r]
      BY <2>1 DEF TokenInv, TokenStaysWithItsHostAndUser
    <3>2. pair[r] \in Forms
      BY <2>1 DEF TokenInv, TokenStaysWithItsHostAndUser
    <3> QED
      BY <2>1, <3>1, <3>2, <1>2
  <2>2. ASSUME NEW j \in Jobs, NEW form \in Forms, BeginFetch(r, j, form)
        PROVE  /\ pair'[r] \in Forms
               /\ job'[r] # None /\ job'[r].kind \in {"save", "test"}
    <3>1. job'[r] = j /\ pair'[r] = form /\ j.kind \in {"test", "save"}
      BY <2>2, <1>0 DEF BeginFetch, Accept, TypeOK
    <3>2. j # None
      BY NoneAssumption
    <3> QED
      BY <3>1, <3>2
  <2>3. CASE TilesRead(r) /\ pair[r] = None
    <3>1. PICK row \in RowsOf(job[r].user) : pair'[r] = PairOf(row)
      BY <1>3, <2>3, <1>0 DEF TilesRead, Select, TypeOK
    <3>2. /\ row.by \in Requests /\ job[row.by].kind = "save" /\ job[row.by].user = job[r].user
          /\ pair[row.by] = PairOf(row)
      BY <3>1, <1>0 DEF RowsOf, TableInv, StoredPairWasVerified, TypeOK, Rows
    <3>3. pair[row.by] # None
      BY <1>3, <3>1, <3>2
    <3>4. PICK q \in Requests : /\ job[q] # None /\ job[q].kind \in {"save", "test"}
                                /\ job[q].user = job[row.by].user /\ pair[q] = pair[row.by]
      BY <3>2, <3>3 DEF TokenInv, TokenStaysWithItsHostAndUser
    <3>5. pair[row.by] \in Forms
      BY <3>2, <3>3 DEF TokenInv, TokenStaysWithItsHostAndUser
    <3>6. pair'[q] = pair'[r] /\ job'[q] = job[q] /\ job'[r] = job[r]
      BY <2>3, <3>1, <3>2, <3>3, <3>4, <1>2 DEF TilesRead
    <3> QED
      BY <3>1, <3>2, <3>4, <3>5, <3>6
  <2> QED
    BY <1>3, <2>1, <2>2, <2>3, PairIsSet
<1> QED
  BY <1>1, <1>3 DEF TokenInv, TokenStaysWithItsHostAndUser

(* No interleaving of saves, tests, tiles, revocations, deletions and      *)
(* restarts sends a token to another host than the one it was entered      *)
(* with, or on behalf of another user than the one who entered it.         *)
THEOREM TokensStay == Spec => []TokenStaysWithItsHostAndUser
<1>1. Init => TokenInv
  BY DEF Init, TokenInv, TokenStaysWithItsHostAndUser
<1>2. IInv /\ TokenInv /\ [Next]_vars => TokenInv'
  BY TokenStep
<1>3. TokenInv => TokenStaysWithItsHostAndUser
  BY DEF TokenInv
<1> QED
  BY <1>1, <1>2, <1>3, Invariance, PTL DEF Spec

----------------------------------------------------------------------------
(* What "saved" means.  The log has every save that committed, once, in    *)
(* the order in which they replaced the user's row.                        *)
Saved(r) == pc[r] \in {"rendering", "done"} /\ reply[r] = "save_success"
InLog(r) == \E n \in DOMAIN log : log[n] = r

(* Every row of u among rows is the last save of u's, no earlier than r.   *)
Latest(rows, r) ==
    \A row \in rows : /\ row.user = job[r].user /\ row.by \in Requests
                      /\ \E n \in DOMAIN log : log[n] = row.by
                      /\ \A m, n \in DOMAIN log : log[m] = r /\ log[n] = row.by => n >= m

(* What a committed save may answer.                                       *)
StoredReplies == {"save_success", "internal_error", "lost"}

LogInv ==
    /\ \A m, n \in DOMAIN log : log[m] = log[n] => m = n
    /\ \A r \in Requests : InLog(r) => /\ pc[r] \in {"rendering", "done"}
                                       /\ reply[r] \in StoredReplies
                                       /\ RowsOf(job[r].user) = {} => job[r].user \notin hostUsers
                                       /\ Latest(RowsOf(job[r].user), r)
    /\ \A r \in Requests : Saved(r) => InLog(r)
    /\ \A r \in Requests : Saved(r) /\ pc[r] = "done" =>
          /\ seen[r] = {} => job[r].user \notin hostUsers
          /\ Latest(seen[r], r)

(* A step that neither commits, deletes nor reads for a reply.             *)
LEMMA LogKept ==
    ASSUME IInv, LogInv, UNCHANGED <<log, table, hostUsers>>,
           \A q \in Requests : pc[q] \in {"rendering", "done"} =>
               /\ pc'[q] \in {"rendering", "done"} /\ job'[q] = job[q]
               /\ reply'[q] \in {reply[q]} \cup StoredReplies,
           \A q \in Requests : pc'[q] \in {"rendering", "done"} /\ reply'[q] = "save_success" =>
               pc[q] = pc'[q] /\ reply[q] = "save_success" /\ seen'[q] = seen[q]
    PROVE  LogInv'
<1>1. \A q \in Requests : Saved(q)' => Saved(q) /\ pc'[q] = pc[q] /\ seen'[q] = seen[q]
  BY DEF Saved
<1>2. \A q \in Requests : InLog(q)' = InLog(q)
  BY DEF InLog
<1>3. \A q \in Requests : InLog(q) => job'[q] = job[q]
  BY DEF LogInv
<1>4. \A u : RowsOf(u)' = RowsOf(u)
  BY DEF RowsOf
<1>5. \A q \in Requests : \A rows : job'[q] = job[q] => Latest(rows, q)' = Latest(rows, q)
  BY DEF Latest
<1> QED
  BY <1>1, <1>2, <1>3, <1>4, <1>5 DEF LogInv

LEMMA Logged == TypeOK => \A n \in DOMAIN log : log[n] \in Requests
BY DEF TypeOK

(* A commit puts its row, and its request, last.                           *)
LEMMA LogCommit ==
    ASSUME IInv, LogInv, NEW r \in Requests, Commit(r)
    PROVE  LogInv'
<1>0. TypeOK /\ SavingInv /\ WrittenInv
  BY DEF IInv
<1> DEFINE u == job[r].user
           L == Len(log)
<1>n. PICK new : new = pending[r].new
  OBVIOUS
<1>1. /\ log \in Seq(Requests) /\ L \in Nat /\ DOMAIN log = 1..L
      /\ log' = Append(log, r) /\ DOMAIN log' = 1..(L + 1)
      /\ log'[L + 1] = r /\ \A n \in 1..L : log'[n] = log[n]
  BY <1>0 DEF Commit, TypeOK
<1>2. /\ pc[r] = "written" /\ UNCHANGED <<job, seen, hostUsers>>
      /\ pc' = [pc EXCEPT ![r] = "rendering"] /\ reply' = [reply EXCEPT ![r] = "save_success"]
      /\ table' = (table \ RowsOf(u)) \cup {new}
      /\ new.user = u /\ new.by = r
  <2>1. /\ pc[r] = "written" /\ UNCHANGED <<job, seen, hostUsers>>
        /\ pc' = [pc EXCEPT ![r] = "rendering"] /\ reply' = [reply EXCEPT ![r] = "save_success"]
        /\ table' = (table \ pending[r].old) \cup {pending[r].new}
    BY DEF Commit, RenderModel, Goto, world
  <2>2. pending[r].old = RowsOf(u) /\ new.user = u /\ new.by = r
    BY <1>0, <1>n, <2>1 DEF WrittenInv
  <2> QED
    BY <1>n, <2>1, <2>2
<1>3. \A v : RowsOf(v)' = IF v = u THEN {new} ELSE RowsOf(v)
  BY <1>2 DEF RowsOf
<1>4. ~InLog(r)
  BY <1>2 DEF LogInv
<1>5. \A q \in Requests : InLog(q)' <=> InLog(q) \/ q = r
  BY <1>1 DEF InLog
<1>6. \A m, n \in DOMAIN log' : log'[m] = log'[n] => m = n
  BY <1>1, <1>4 DEF InLog, LogInv
<1>7. ASSUME NEW q \in Requests, InLog(q), NEW rows, Latest(rows, q) PROVE Latest(rows, q)'
  <2> SUFFICES ASSUME NEW row \in rows
               PROVE  /\ row.user = job'[q].user /\ row.by \in Requests
                      /\ \E n \in DOMAIN log' : log'[n] = row.by
                      /\ \A m, n \in DOMAIN log' : log'[m] = q /\ log'[n] = row.by => n >= m
    BY DEF Latest
  <2>1. PICK k \in DOMAIN log : log[k] = row.by
    BY <1>7 DEF Latest
  <2>2. PICK l \in DOMAIN log : log[l] = q
    BY <1>7 DEF InLog
  <2>3. k >= l
    BY <1>7, <2>1, <2>2 DEF Latest
  <2>4. k \in DOMAIN log' /\ log'[k] = row.by /\ l \in DOMAIN log' /\ log'[l] = q
    BY <1>1, <2>1, <2>2
  <2>5. \A m, n \in DOMAIN log' : log'[m] = q /\ log'[n] = row.by => n >= m
    BY <1>6, <2>3, <2>4
  <2> QED
    BY <1>2, <1>7, <2>4, <2>5 DEF Latest
<1>8. ASSUME NEW q \in Requests, InLog(q)', job[q].user = u PROVE Latest({new}, q)'
  <2>1. \A m, n \in DOMAIN log' : log'[m] = q /\ log'[n] = r => n >= m
    BY <1>1, <1>6
  <2> QED
    BY <1>1, <1>2, <1>8, <2>1 DEF Latest
<1>9. ASSUME NEW q \in Requests, InLog(q)'
      PROVE  /\ pc'[q] \in {"rendering", "done"} /\ reply'[q] \in StoredReplies
             /\ RowsOf(job[q].user)' = {} => job[q].user \notin hostUsers'
             /\ Latest(RowsOf(job[q].user), q)'
  <2>1. pc'[q] \in {"rendering", "done"} /\ reply'[q] \in StoredReplies
    BY <1>9, <1>2, <1>5, <1>0 DEF LogInv, TypeOK, StoredReplies
  <2>2. CASE job[q].user = u
    <3>1. RowsOf(job[q].user)' = {new}
      BY <1>2, <1>3, <2>2
    <3> QED
      BY <1>8, <1>9, <2>1, <2>2, <3>1
  <2>3. CASE job[q].user # u
    <3>1. InLog(q) /\ RowsOf(job[q].user)' = RowsOf(job[q].user)
      BY <1>2, <1>3, <1>5, <1>9, <2>3
    <3>2. /\ RowsOf(job[q].user) = {} => job[q].user \notin hostUsers
          /\ Latest(RowsOf(job[q].user), q)
      BY <3>1 DEF LogInv
    <3> QED
      BY <1>2, <1>7, <2>1, <3>1, <3>2
  <2> QED
    BY <2>2, <2>3
<1>10. ASSUME NEW q \in Requests, Saved(q)' PROVE InLog(q)'
  BY <1>10, <1>2, <1>5, <1>0 DEF Saved, LogInv, TypeOK
<1>11. ASSUME NEW q \in Requests, Saved(q)', pc'[q] = "done"
       PROVE  /\ seen'[q] = {} => job'[q].user \notin hostUsers'
              /\ Latest(seen[q], q)'
  <2>1. q # r /\ Saved(q) /\ pc[q] = "done"
    BY <1>11, <1>2, <1>0 DEF Saved, TypeOK
  <2>2. InLog(q) /\ (seen[q] = {} => job[q].user \notin hostUsers) /\ Latest(seen[q], q)
    BY <2>1 DEF LogInv
  <2> QED
    BY <1>2, <1>7, <2>2
<1> QED
  BY <1>2, <1>6, <1>9, <1>10, <1>11 DEF LogInv

(* _read_model after the commit shows that row, or a later one.            *)
LEMMA LogRead ==
    ASSUME IInv, LogInv, NEW r \in Requests, ReadModel(r)
    PROVE  LogInv'
<1>0. TypeOK
  BY DEF IInv
<1>1. /\ UNCHANGED <<log, table, hostUsers, job, reply>>
      /\ pc[r] = "rendering" /\ pc'[r] = "done" /\ seen'[r] = RowsOf(job[r].user)
      /\ \A q \in Requests \ {r} : pc'[q] = pc[q] /\ seen'[q] = seen[q]
  BY <1>0 DEF ReadModel, Goto, world, Select, TypeOK
<1>2. \A q \in Requests : (InLog(q)' <=> InLog(q)) /\ (Saved(q)' <=> Saved(q))
  BY <1>1 DEF InLog, Saved
<1>3. \A u : RowsOf(u)' = RowsOf(u)
  BY <1>1 DEF RowsOf
<1>4. \A q \in Requests : \A rows : Latest(rows, q)' <=> Latest(rows, q)
  BY <1>1 DEF Latest
<1>5. ASSUME NEW q \in Requests, InLog(q)
      PROVE  /\ pc'[q] \in {"rendering", "done"} /\ reply[q] \in StoredReplies
             /\ RowsOf(job[q].user) = {} => job[q].user \notin hostUsers
             /\ Latest(RowsOf(job[q].user), q)
  BY <1>1, <1>5 DEF LogInv
<1>6. ASSUME NEW q \in Requests, Saved(q), pc'[q] = "done"
      PROVE  (seen'[q] = {} => job[q].user \notin hostUsers) /\ Latest(seen'[q], q)
  <2>1. CASE q = r
    BY <1>1, <1>5, <1>6, <2>1 DEF LogInv
  <2>2. CASE q # r
    BY <1>1, <1>6, <2>2 DEF LogInv
  <2> QED
    BY <2>1, <2>2
<1>7. ASSUME NEW q \in Requests, Saved(q) PROVE InLog(q)
  BY <1>7 DEF LogInv
<1>8. \A m, n \in DOMAIN log : log[m] = log[n] => m = n
  BY DEF LogInv
<1>9. \A q \in Requests : Latest(seen[q], q)' <=> Latest(seen'[q], q)
  BY <1>1 DEF Latest
<1> QED
  BY <1>1, <1>2, <1>3, <1>4, <1>5, <1>6, <1>7, <1>8, <1>9 DEF LogInv

(* A deletion takes the user's rows and the user.                          *)
LEMMA LogDelete ==
    ASSUME IInv, LogInv, NEW u \in Users, DeleteUser(u)
    PROVE  LogInv'
<1>1. /\ UNCHANGED <<log, job, pc, reply, seen>>
      /\ table' = table \ RowsOf(u) /\ hostUsers' = hostUsers \ {u}
  BY DEF DeleteUser, handler
<1>2. \A v : RowsOf(v)' = IF v = u THEN {} ELSE RowsOf(v)
  BY <1>1 DEF RowsOf
<1>3. \A q \in Requests : (InLog(q)' <=> InLog(q)) /\ (Saved(q)' <=> Saved(q))
  BY <1>1 DEF InLog, Saved
<1>4. \A q \in Requests : /\ Latest(seen[q], q)' <=> Latest(seen[q], q)
                          /\ Latest({}, q)
                          /\ Latest({}, q)'
                          /\ \A rows : Latest(rows, q)' <=> Latest(rows, q)
  BY <1>1 DEF Latest
<1>5. ASSUME NEW q \in Requests, InLog(q)
      PROVE  /\ RowsOf(job[q].user)' = {} => job[q].user \notin hostUsers'
             /\ Latest(RowsOf(job[q].user), q)'
  <2>1. CASE job[q].user = u
    <3>1. RowsOf(job[q].user)' = {}
      BY <1>1, <1>2, <2>1
    <3> QED
      BY <1>1, <1>4, <2>1, <3>1 DEF Latest
  <2>2. CASE job[q].user # u
    <3>1. RowsOf(job[q].user)' = RowsOf(job[q].user)
      BY <1>1, <1>2, <2>2
    <3> QED
      BY <1>1, <1>4, <1>5, <3>1 DEF LogInv
  <2> QED
    BY <2>1, <2>2
<1> QED
  BY <1>1, <1>3, <1>4, <1>5 DEF LogInv

LEMMA LogStep == IInv /\ LogInv /\ [Next]_vars => LogInv'
<1> SUFFICES ASSUME IInv, LogInv, [Next]_vars PROVE LogInv'
  OBVIOUS
<1>0. TypeOK
  BY DEF IInv
<1> USE DEF handler, world, Render, RenderModel, Goto, StoredReplies
<1>1. ASSUME NEW r \in Requests, Begin(r) PROVE LogInv'
  BY <1>0, <1>1, LogKept DEF Begin, Unauthenticated, BeginSettings, BeginTiles, BeginInvalid,
     BeginFetch, Accept, TypeOK
<1>2. ASSUME NEW r \in Requests, TilesRead(r) PROVE LogInv'
  BY <1>0, <1>2, LogKept DEF TilesRead, TypeOK
<1>3. ASSUME NEW r \in Requests, ShowOutcome(r) PROVE LogInv'
  <2>1. "save_success" \notin Outcomes(r)
    BY DEF Outcomes
  <2> QED
    BY <1>0, <1>3, <2>1, LogKept DEF ShowOutcome, TypeOK
<1>4. ASSUME NEW r \in Requests, SaveRefused(r) \/ SaveFetched(r) PROVE LogInv'
  BY <1>0, <1>4, LogKept DEF SaveRefused, SaveFetched, TypeOK
<1>5. ASSUME NEW r \in Requests, Write(r) \/ WriteFails(r) \/ HADecides(r) PROVE LogInv'
  BY <1>0, <1>5, LogKept DEF Write, WriteFails, HADecides, TypeOK
<1>5a. ASSUME NEW r \in Requests, DatabaseFails(r) PROVE LogInv'
  BY <1>0, <1>5a, LogKept DEF DatabaseFails, TypeOK
<1>6. ASSUME NEW i \in Instances, NEW k \in Keys \cup {NoKey}, Restart(i, k) PROVE LogInv'
  BY <1>0, <1>6, LogKept DEF Restart, TypeOK
<1>7. CASE Tick \/ (\E p \in Forms : Revoke(p)) \/ UNCHANGED vars
  BY <1>0, <1>7, LogKept DEF Tick, Revoke, vars
<1> QED
  BY <1>1, <1>2, <1>3, <1>4, <1>5, <1>5a, <1>6, <1>7, LogCommit, LogRead, LogDelete
     DEF Next, World, Handle

(* A save that is reported as saved has been committed, and the form that  *)
(* says so shows its pair or one saved later by the same user, or nothing  *)
(* if the user is gone; and a save that says it was refused has not been   *)
(* committed, whatever failed when.                                        *)
THEOREM SavedIsStored == Spec => []SavedMeansStored
<1>1. Init => LogInv
  BY DEF Init, LogInv, InLog, Saved
<1>2. TypeOK /\ LogInv => SavedMeansStored
  <2>0. TypeOK /\ LogInv => \A n \in DOMAIN log : reply[log[n]] \in StoredReplies
    BY Logged DEF LogInv, InLog
  <2> SUFFICES ASSUME LogInv, NEW r \in Requests, pc[r] = "done", reply[r] = "save_success"
               PROVE  /\ \E n \in DOMAIN log : log[n] = r
                      /\ seen[r] = {} => job[r].user \notin hostUsers
                      /\ \A row \in seen[r] : /\ row.user = job[r].user
                                              /\ Position(row.by) >= Position(r)
    BY <2>0 DEF SavedMeansStored, StoredReplies
  <2>1. /\ InLog(r) /\ Latest(seen[r], r)
        /\ seen[r] = {} => job[r].user \notin hostUsers
    BY DEF LogInv, Saved
  <2>2. ASSUME NEW row \in seen[r]
        PROVE  row.user = job[r].user /\ Position(row.by) >= Position(r)
    <3>1. Position(r) \in DOMAIN log /\ log[Position(r)] = r
      BY <2>1 DEF InLog, Position
    <3>2. Position(row.by) \in DOMAIN log /\ log[Position(row.by)] = row.by
      BY <2>1, <2>2 DEF Latest, Position
    <3> QED
      BY <2>1, <2>2, <3>1, <3>2 DEF Latest
  <2> QED
    BY <2>1, <2>2 DEF InLog
<1>3. IInv => TypeOK
  BY DEF IInv
<1> QED
  BY <1>1, <1>2, <1>3, LogStep, Invariance, PTL DEF Spec

----------------------------------------------------------------------------
(* Liveness.  That a handler which waits for no row can take its step is a *)
(* hypothesis (never AHandlerIsStuck, which TLC checks): ENABLED is not    *)
(* proved here.                                                            *)

(* A handler only goes forward.                                            *)
Onward(from, to) ==
    \/ to = from \/ to = "done"
    \/ from = "reading" /\ to = "fetching"
    \/ from = "fetching" /\ to \in {"writing", "rendering"}
    \/ from = "writing" /\ to = "written"
    \/ from = "written" /\ to = "rendering"

LEMMA HandlersGoOnward ==
    ASSUME IInv, [Next]_vars, NEW r \in Requests, pc[r] # "new"
    PROVE  Onward(pc[r], pc'[r])
<1>0. TypeOK
  BY DEF IInv
<1> USE DEF Onward, Render, RenderModel, Goto, TypeOK
<1>1. ASSUME NEW q \in Requests, Begin(q) PROVE pc'[r] = pc[r]
  BY <1>0, <1>1 DEF Begin, Unauthenticated, BeginSettings, BeginTiles, BeginInvalid, BeginFetch,
     Accept
<1>2. ASSUME NEW q \in Requests, TilesRead(q) PROVE Onward(pc[r], pc'[r])
  BY <1>0, <1>2 DEF TilesRead
<1>3. ASSUME NEW q \in Requests, ShowOutcome(q) \/ SaveRefused(q) \/ SaveFetched(q)
      PROVE  Onward(pc[r], pc'[r])
  BY <1>0, <1>3 DEF ShowOutcome, SaveRefused, SaveFetched
<1>4. ASSUME NEW q \in Requests,
             Write(q) \/ WriteFails(q) \/ Commit(q) \/ ReadModel(q) \/ DatabaseFails(q)
      PROVE  Onward(pc[r], pc'[r])
  BY <1>0, <1>4 DEF Write, WriteFails, Commit, ReadModel, DatabaseFails
<1>5. ASSUME NEW i \in Instances, NEW k \in Keys \cup {NoKey}, Restart(i, k)
      PROVE  Onward(pc[r], pc'[r])
  BY <1>0, <1>5 DEF Restart
<1>6. CASE UNCHANGED pc
  BY <1>6
<1> QED
  BY <1>1, <1>2, <1>3, <1>4, <1>5, <1>6 DEF Next, World, Handle, vars, handler, HADecides,
     DeleteUser, Revoke, Tick

LEMMA HandlerMoves ==
    ASSUME IInv, NEW r \in Requests, Handle(r)
    PROVE  pc'[r] # pc[r]
<1>0. TypeOK
  BY DEF IInv
<1> QED
  BY <1>0 DEF Handle, TilesRead, ShowOutcome, SaveRefused, SaveFetched, Write, WriteFails,
     Commit, ReadModel, Render, RenderModel, Goto, TypeOK

(* The steps of one handler, as PTL needs them.                            *)
LEMMA HandlerStep ==
    ASSUME IInv, [Next]_vars, NEW r \in Requests
    PROVE  /\ pc[r] = "reading" => \/ pc'[r] = "reading" /\ ~<<Handle(r)>>_vars
                                   \/ pc'[r] = "fetching" \/ pc'[r] = "done"
           /\ pc[r] = "fetching" => \/ pc'[r] = "fetching" /\ ~<<Handle(r)>>_vars
                                    \/ pc'[r] = "writing" \/ pc'[r] = "rendering"
                                    \/ pc'[r] = "done"
           /\ pc[r] = "writing" => \/ pc'[r] = "writing" /\ ~<<Handle(r)>>_vars
                                   \/ pc'[r] = "written" \/ pc'[r] = "done"
           /\ pc[r] = "written" => \/ pc'[r] = "written" /\ ~<<Handle(r)>>_vars
                                   \/ pc'[r] = "rendering" \/ pc'[r] = "done"
           /\ pc[r] = "rendering" => \/ pc'[r] = "rendering" /\ ~<<Handle(r)>>_vars
                                     \/ pc'[r] = "done"
           /\ pc[r] = "done" => pc'[r] = "done"
<1>1. pc[r] # "new" => Onward(pc[r], pc'[r])
  BY HandlersGoOnward
<1>2. pc'[r] = pc[r] => ~<<Handle(r)>>_vars
  BY HandlerMoves
<1> QED
  BY <1>1, <1>2 DEF Onward

(* A request that does not wait for its row for ever is answered, however  *)
(* many requests there are.  (If they are finitely many none can wait for  *)
(* ever, since each writes once and, by RowsAreReleased, lets go.)         *)
THEOREM RequestsEnd ==
    FairSpec /\ []~AHandlerIsStuck /\ (\A r \in Requests : <>[]~WaitsForRow(r))
        => EveryRequestEnds
<1>1. ASSUME NEW r \in Requests
      PROVE  Spec /\ Fair(r) /\ []~AHandlerIsStuck /\ <>[]~WaitsForRow(r)
                => (pc[r] # "new" ~> pc[r] = "done")
  <2> DEFINE R == pc[r] = "reading"
             F == pc[r] = "fetching"
             W == pc[r] = "writing"
             C == pc[r] = "written"
             M == pc[r] = "rendering"
             D == pc[r] = "done"
             N == pc[r] = "new"
             E == ENABLED <<Handle(r)>>_vars
  <2>1. IInv /\ [Next]_vars =>
          /\ R => (R' /\ ~<<Handle(r)>>_vars) \/ F' \/ D'
          /\ F => (F' /\ ~<<Handle(r)>>_vars) \/ W' \/ M' \/ D'
          /\ W => (W' /\ ~<<Handle(r)>>_vars) \/ C' \/ D'
          /\ C => (C' /\ ~<<Handle(r)>>_vars) \/ M' \/ D'
          /\ M => (M' /\ ~<<Handle(r)>>_vars) \/ D'
          /\ D => D'
    BY HandlerStep
  <2>2. ~AHandlerIsStuck => /\ R \/ F \/ C \/ M => E
                            /\ W /\ ~WaitsForRow(r) => E
    BY DEF AHandlerIsStuck, WaitsForRow
  <2>3. IInv => N \/ R \/ F \/ W \/ C \/ M \/ D
    BY DEF IInv, TypeOK
  <2>4. Spec => []IInv /\ [][Next]_vars
    BY Invariance, PTL DEF Spec
  <2>a. (pc[r] # "new" <=> ~N) /\ (pc[r] = "done" <=> D)
    OBVIOUS
  <2> HIDE DEF R, F, W, C, M, D, N
  <2> DEFINE Running == /\ [][Next]_vars /\ []IInv /\ []~AHandlerIsStuck
                        /\ WF_vars(Handle(r)) /\ <>[]~WaitsForRow(r)
  <2>5. Running => (R ~> F \/ D)
    BY <2>1, <2>2, PTL
  <2>6. Running => (F ~> W \/ M \/ D)
    BY <2>1, <2>2, PTL
  <2>7. Running => (W ~> C \/ D)
    BY <2>1, <2>2, PTL
  <2>8. Running => (C ~> M \/ D)
    BY <2>1, <2>2, PTL
  <2>9. Running => (M ~> D)
    BY <2>1, <2>2, PTL
  <2>10. Running => (~N ~> D)
    BY <2>3, <2>5, <2>6, <2>7, <2>8, <2>9, PTL
  <2> QED
    BY <2>4, <2>10, <2>a, PTL DEF Fair
<1> QED
  BY <1>1 DEF EveryRequestEnds, FairSpec

(* Whoever has a row written and not committed lets go of it, for good:    *)
(* nobody is made to wait for ever by one and the same request.            *)
THEOREM RowsAreReleased ==
    FairSpec /\ []~AHandlerIsStuck => \A r \in Requests : <>[](pc[r] # "written")
<1>1. ASSUME NEW r \in Requests
      PROVE  Spec /\ Fair(r) /\ []~AHandlerIsStuck => <>[](pc[r] # "written")
  <2> DEFINE C == pc[r] = "written"
             P == pc[r] \in {"rendering", "done"}
  <2>1. IInv /\ [Next]_vars => /\ C => (C' /\ ~<<Handle(r)>>_vars) \/ P'
                               /\ P => P'
    BY HandlerStep
  <2>2. ~AHandlerIsStuck => (C => ENABLED <<Handle(r)>>_vars)
    BY DEF AHandlerIsStuck, WaitsForRow
  <2>3. Spec => []IInv /\ [][Next]_vars
    BY Invariance, PTL DEF Spec
  <2>4. P => ~C
    OBVIOUS
  <2>5. ~C <=> pc[r] # "written"
    OBVIOUS
  <2> HIDE DEF C, P
  <2> QED
    BY <2>1, <2>2, <2>3, <2>4, <2>5, PTL DEF Fair
<1> QED
  BY <1>1 DEF FairSpec
============================================================================
