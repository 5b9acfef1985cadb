------------------------------- MODULE DbPool ------------------------------
(***************************************************************************)
(* The engine's connection pool (app/db/session.py) under the pages that   *)
(* share it, and what the browser shows meanwhile.  A request-scoped       *)
(* session takes a connection at its first statement and gives it back     *)
(* when it commits, or when get_db closes it after the response.           *)
(*                                                                         *)
(* A process here is one visit: a Settings tab being read ("settings") or  *)
(* saved ("save"), or a dashboard being opened ("dashboard"), which is two *)
(* requests: the page, which reads host.users, and then the tiles that     *)
(* htmx asks for once.  The tiles route reads the credential and fetches   *)
(* from Home Assistant with its session open, so it keeps the connection   *)
(* all that time; Save fetches first, commits, and then takes a connection *)
(* again for _read_model.                                                  *)
(*                                                                         *)
(* External: SQLAlchemy's QueuePool (a bounded number of connections, a    *)
(* checkout that any waiter may win, a wait that ends in TimeoutError) and *)
(* htmx (which swaps in nothing when the response is an error).            *)
(* Statements take no time, fetches take up to FetchLimit ticks.  A visit  *)
(* that the pool turns away is "refused"; one whose handler raises for     *)
(* another reason has "failed".  Both are answered with a 500.             *)
(***************************************************************************)
EXTENDS Naturals, FiniteSets

CONSTANTS
    Requests,     \* visits, each made once
    Capacity,     \* pool_size + max_overflow
    PoolTimeout,  \* how long a checkout waits, in ticks
    FetchLimit    \* how long a fetch takes at most (HAFetch!ReturnIsBounded)

ASSUME RequestsAssumption == IsFiniteSet(Requests)
ASSUME CapacityAssumption == Capacity \in Nat \ {0}
ASSUME PoolTimeoutAssumption == PoolTimeout \in Nat
ASSUME FetchLimitAssumption == FetchLimit \in Nat

VARIABLES
    kind,     \* what each visit is for
    pc,       \* what its handler is doing
    view,     \* what its browser shows: nothing, the loading placeholder, an answer
    holding,  \* the visits whose session has a connection
    free,     \* connections that can still be checked out
    waited,   \* ticks a checkout has been waiting
    fetched,  \* ticks a fetch has been running
    age       \* ticks since the visit's request under way arrived

vars == <<kind, pc, view, holding, free, waited, fetched, age>>

----------------------------------------------------------------------------
Kinds == {"settings", "dashboard", "save"}

Init == /\ kind \in [Requests -> Kinds]
        /\ pc = [r \in Requests |-> "new"]
        /\ view = [r \in Requests |-> "nothing"]
        /\ holding = {}
        /\ free = Capacity
        /\ waited = [r \in Requests |-> 0]
        /\ fetched = [r \in Requests |-> 0]
        /\ age = [r \in Requests |-> 0]

Goto(r, l) == pc' = [pc EXCEPT ![r] = l]
Show(r, what) == view' = [view EXCEPT ![r] = what]

(* The session's connection goes back, if it has one.                      *)
Release(r) ==
    /\ holding' = holding \ {r}
    /\ free' = IF r \in holding THEN free + 1 ELSE free

(* A request is over with its handler, and its clocks with it; get_db      *)
(* closes the session.  Answer is a response that the browser shows.       *)
Ends(r, l) ==
    /\ Goto(r, l)
    /\ waited' = [waited EXCEPT ![r] = 0]
    /\ fetched' = [fetched EXCEPT ![r] = 0]
    /\ age' = [age EXCEPT ![r] = 0]
    /\ UNCHANGED kind

Answer(r) == Ends(r, "done") /\ Show(r, "answer") /\ Release(r)

(* The handler's first await: a statement, or for Save the fetch, unless   *)
(* the form does not validate and there is only _read_model to run.        *)
Start(r) ==
    /\ pc[r] = "new"
    /\ IF kind[r] = "save" THEN Goto(r, "fetching") \/ Goto(r, "rewaiting")
                           ELSE Goto(r, "waiting")
    /\ UNCHANGED <<kind, view, holding, free, waited, fetched, age>>

(* No user in the cookie: the page redirects, and the tiles and Settings   *)
(* ask to log in.  The cookie may expire between the page and its tiles.   *)
Unauthenticated(r) ==
    /\ pc[r] \in {"new", "loaded"}
    /\ Answer(r)

(* A connection can be checked out (mutant: the pool has no upper bound).  *)
AlwaysAvailable == TRUE
Available == free > 0

Checkout(r) ==
    /\ pc[r] \in {"waiting", "rewaiting"} /\ Available
    /\ holding' = holding \cup {r}
    /\ free' = free - 1
    /\ Goto(r, IF pc[r] = "waiting" THEN "querying" ELSE "rereading")
    /\ waited' = [waited EXCEPT ![r] = 0]
    /\ UNCHANGED <<kind, view, fetched, age>>

(* QueuePool limit reached (mutant: pool_timeout is None): the handler     *)
(* raises and the response is a 500.  For Save that may come after its     *)
(* commit; of the tiles' request the browser shows nothing.                *)
CheckoutNeverDue(r) == FALSE
CheckoutDue(r) == pc[r] \in {"waiting", "rewaiting"} /\ waited[r] >= PoolTimeout

CheckoutFails(r) ==
    /\ CheckoutDue(r) /\ ~Available
    /\ Ends(r, "refused")
    /\ UNCHANGED <<view, holding, free>>

(* A new connection can not be opened; or while the session holds one a    *)
(* statement, the upsert, its commit or, in the tiles, the cipher without  *)
(* ENCRYPTION_KEY raises; or that cipher raises after Save's fetch, when   *)
(* its session has no connection yet.  No handler catches any of it,       *)
(* `async with` rolls back and closes the session, and the response is a   *)
(* 500.  Mutant: a session that is closed only when its handler returns.   *)
MayRaise(r) == \/ pc[r] \in {"waiting", "rewaiting"} /\ Available
               \/ pc[r] \in {"querying", "rereading"}
               \/ pc[r] = "fetching" /\ kind[r] = "save"

RaisesAndKeeps(r) ==
    /\ MayRaise(r)
    /\ Ends(r, "failed")
    /\ UNCHANGED <<view, holding, free>>

HandlerRaises(r) ==
    /\ MayRaise(r)
    /\ Ends(r, "failed") /\ Release(r)
    /\ UNCHANGED view

(* Settings, or the form after a save, is read and rendered.               *)
ReadDone(r) ==
    /\ \/ pc[r] = "querying" /\ kind[r] = "settings"
       \/ pc[r] = "rereading" /\ kind[r] = "save"
    /\ Answer(r)

(* The page is rendered with its loading placeholder.  Mutant: its session *)
(* stays open.                                                             *)
PageKeepsConnection(r) ==
    /\ pc[r] = "querying" /\ kind[r] = "dashboard"
    /\ Ends(r, "loaded") /\ Show(r, "loading")
    /\ UNCHANGED <<holding, free>>

PageDone(r) ==
    /\ pc[r] = "querying" /\ kind[r] = "dashboard"
    /\ Ends(r, "loaded") /\ Show(r, "loading") /\ Release(r)

(* hx-trigger="load": the browser asks for the tiles, once.                *)
Load(r) ==
    /\ pc[r] = "loaded"
    /\ Goto(r, "rewaiting")
    /\ UNCHANGED <<kind, view, holding, free, waited, fetched, age>>

(* The tiles route found no usable credential and answers at once, or      *)
(* fetches with the credential it found.                                   *)
TilesWithout(r) ==
    /\ pc[r] = "rereading" /\ kind[r] = "dashboard"
    /\ Answer(r)

TilesFetch(r) ==
    /\ pc[r] = "rereading" /\ kind[r] = "dashboard"
    /\ Goto(r, "fetching")
    /\ UNCHANGED <<kind, view, holding, free, waited, fetched, age>>

TilesDone(r) ==
    /\ pc[r] = "fetching" /\ kind[r] = "dashboard"
    /\ Answer(r)

(* Save's fetch succeeded, or failed and only the form is left to read.    *)
SaveFetched(r) ==
    /\ pc[r] = "fetching" /\ kind[r] = "save"
    /\ Goto(r, "waiting") \/ Goto(r, "rewaiting")
    /\ fetched' = [fetched EXCEPT ![r] = 0]
    /\ UNCHANGED <<kind, view, holding, free, waited, age>>

(* db.commit() gives the connection back; _read_model needs one again.     *)
Commit(r) ==
    /\ pc[r] = "querying" /\ kind[r] = "save"
    /\ Goto(r, "rewaiting") /\ Release(r)
    /\ UNCHANGED <<kind, view, waited, fetched, age>>

(* Nothing is due: no checkout can be served or has run out of time, no    *)
(* fetch is over its limit (mutant: only a tick after it), and statements  *)
(* take no time.                                                           *)
FetchDueLate(r) == pc[r] = "fetching" /\ fetched[r] > FetchLimit
FetchDue(r) == pc[r] = "fetching" /\ fetched[r] >= FetchLimit

Waiting(r) == pc[r] \in {"waiting", "rewaiting"}

Due(r) ==
    \/ pc[r] \in {"querying", "rereading"}
    \/ Waiting(r) /\ Available
    \/ CheckoutDue(r)
    \/ FetchDue(r)

Active == {r \in Requests : pc[r] \notin {"new", "done", "refused", "failed"}}

Tick ==
    /\ \E r \in Requests : Waiting(r) \/ pc[r] = "fetching"
    /\ \A r \in Requests : ~Due(r)
    /\ waited' = [r \in Requests |-> IF Waiting(r) THEN waited[r] + 1 ELSE waited[r]]
    /\ fetched' = [r \in Requests |-> IF pc[r] = "fetching" THEN fetched[r] + 1 ELSE fetched[r]]
    /\ age' = [r \in Requests |->
                  IF Waiting(r) \/ pc[r] = "fetching" THEN age[r] + 1 ELSE age[r]]
    /\ UNCHANGED <<kind, pc, view, holding, free>>

Step(r) == \/ Start(r) \/ Unauthenticated(r) \/ Checkout(r) \/ CheckoutFails(r)
           \/ HandlerRaises(r) \/ ReadDone(r) \/ PageDone(r) \/ Load(r)
           \/ TilesWithout(r) \/ TilesFetch(r) \/ TilesDone(r)
           \/ SaveFetched(r) \/ Commit(r)

Next == Tick \/ \E r \in Requests : Step(r)

Spec == Init /\ [][Next]_vars

----------------------------------------------------------------------------
(* The variables stay in their ranges.                                     *)
TypeOK ==
    /\ kind \in [Requests -> Kinds]
    /\ pc \in [Requests -> {"new", "waiting", "querying", "loaded", "fetching", "rewaiting",
                            "rereading", "done", "refused", "failed"}]
    /\ view \in [Requests -> {"nothing", "loading", "answer"}]
    /\ holding \subseteq Requests
    /\ free \in 0..Capacity
    /\ waited \in [Requests -> Nat]
    /\ fetched \in [Requests -> Nat]
    /\ age \in [Requests -> Nat]

(* A connection is either free or held by a request that is under way: no  *)
(* answer, no commit, no failure of a checkout, a statement, a commit or   *)
(* the cipher loses one or gives one back twice.                           *)
ConnectionsAreAccounted ==
    /\ free + Cardinality(holding) = Capacity
    /\ holding \subseteq Active

(* Save talks to Home Assistant without a connection; of the requests only *)
(* the tiles keep one that long, and never longer than one fetch.          *)
HeldThroughFetchOnlyByTiles ==
    \A r \in holding : pc[r] = "fetching" => kind[r] = "dashboard" /\ fetched[r] <= FetchLimit

(* A checkout has to wait only while every connection is kept by tiles     *)
(* that are fetching: pages, Settings and saves never make anyone wait, so *)
(* without a slow Home Assistant no stored save is refused its re-read.    *)
OnlyTilesMakeOthersWait ==
    [][\A r \in Requests : waited'[r] > waited[r] =>
          /\ Cardinality(holding) = Capacity
          /\ \A h \in holding : kind[h] = "dashboard" /\ pc[h] = "fetching"]_vars

(* A fetch being shorter than the pool's patience, nobody is turned away,  *)
(* a save after its commit included, until more than twice as many visits  *)
(* have come as there are connections.                                     *)
Begun == {r \in Requests : pc[r] # "new"}
NobodyIsTurnedAway ==
    FetchLimit < PoolTimeout /\ Cardinality(Begun) <= 2 * Capacity
        => \A r \in Requests : pc[r] # "refused"

(* Every request is answered, with an error if it must, in bounded time,   *)
(* whatever Home Assistant and the other requests do: one wait and one     *)
(* fetch, and for Save a second wait.                                      *)
AnswerIsBounded ==
    \A r \in Requests :
        age[r] <= PoolTimeout + FetchLimit + (IF kind[r] = "save" THEN PoolTimeout ELSE 0)

----------------------------------------------------------------------------
(* What the documents say and the code does not do.                        *)

(* TDD.md:195-197: an outage of Home Assistant "only ever affects the one  *)
(* request rendering /ha-dashboard/tiles [...] no shared DB connection     *)
(* [...] is touched".                                                      *)
OutageOnlyAffectsTiles == \A r \in Requests : pc[r] = "refused" => kind[r] = "dashboard"

(* PRD.md:53-55: "a hung connection to Home Assistant doesn't leave me     *)
(* staring at a spinner indefinitely": when a visit is over, and nothing   *)
(* but slow Home Assistants was in its way, so is its loading placeholder. *)
NoSpinnerIsLeft ==
    \A r \in Requests : pc[r] \in {"done", "refused"} => view[r] # "loading"
============================================================================
