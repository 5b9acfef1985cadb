# A verification of HA Dashboard

TLA+ specifications of this repository's application: a page of tiles that
show a user's Home Assistant at a glance, and a Settings tab that stores the
address and the long-lived token they are fetched with. The modules are
translated from the Python source; TLC checks them on small instances and
TLAPS proves every safety property the runs check, for every instance, and most
of the liveness, given that the fair actions are enabled when their guards hold
(which TLC checks). `PROJECT.json` is the index: which definition stands for which lines, what each run checks, one
mutation per property that the run must detect, the findings, the hazards and
the theorems.

1. [The system](#1-the-system)
2. [The modules](#2-the-modules)
3. [What the runs check](#3-what-the-runs-check)
4. [What is proved](#4-what-is-proved)
5. [Where code and documents disagree](#5-where-code-and-documents-disagree)
6. [Assumptions about what is outside the code](#6-assumptions-about-what-is-outside-the-code)
7. [What is not modelled](#7-what-is-not-modelled)
8. [Plan](#8-plan)

Run one instance with `tlc -config X.cfg MCModule.tla`, check the proofs of a
module with `tlapm Module.tla`.

## 1. The system

One FastAPI process per instance, a few instances behind the platform's load
balancer, one PostgreSQL database shared with the Host (organize-me), and one
Home Assistant per user, somewhere on the internet. Every handler is a
coroutine on one event loop: it runs without interruption between its awaits,
and anything may happen during an await. That is the granularity of every
module of the service: **an action is what a coroutine does from one await to
the next.** Before a new version serves, a deploy job migrates the database
with Alembic; there an action is one statement of one run's connection.

| Component (source) | State it keeps | Operations | What makes it hard | What makes it correct |
|---|---|---|---|---|
| HA client (`services/ha_client/client.py`) | one call's progress | `fetch_dashboard_summary`: connect, authenticate, three commands, close, parse, under one `wait_for` | the timer may cancel at any await, the close included; Home Assistant may say anything, drop, or stay silent | each outcome is justified by what Home Assistant said, and the call ends in bounded time |
| HA transport (`transport.py`) | a socket | enter, send, recv, exit | the exchange can stop at any step | the socket is released on every path |
| Parsers and tiles (`client.py:122-175`, `ha_dashboard_tiles.py:49-102`) | none | payload -> summary -> tiles | fields missing, null, of the wrong type; zero, the cut-off and one over | tiles count what was reported; nothing is nameless; one odd element costs nothing |
| Host URL (`transport.py:46-73`, `schemas/ha_credential.py`) | none | validate, WebSocket URL, deep-link base | two URLs are built separately from one text | both lead to the same host, equally securely |
| Tiles route (`pages/ha_dashboard_tiles.py`) | one request | read row, decrypt, fetch, render one of four states | what it read may be replaced while it fetches; it keeps its transaction open meanwhile | a token goes only to its own host, for its own user |
| Settings routes (`pages/settings_fragments.py`) | one request | read, Test Connection, Save | fetch, write, commit and re-read are separate awaits; two tabs save at once | what is stored was verified whole; "saved" means stored |
| Credential table (`models/ha_credential.py`) | `ha_dashboard.ha_credential` | select, upsert | concurrent upserts; the Host deletes the user (cascade) | one row per user, no orphan, `updated_at` monotone |
| Cipher (`core/security.py`) | the process's key | encrypt, decrypt | instances with another key, or none | nothing is stored without a key; a request that meets a foreign row, or has no key, is still answered (that Fernet refuses a foreign ciphertext is assumed) |
| Sessions and pool (`db/session.py`) | the engine's connections | checkout, commit, close | a bounded pool; a fetch inside an open transaction; a handler may raise at any await | no connection lost on any path; waits are bounded, and only for tiles that fetch |
| Registry refresh (`core/registry.py`) | source, task, HTTP client | refresh loop, start, stop | failures in any pattern; no CPU between requests; cancellation at any await; raises outside the `try` | the list never degrades, and catches up as far as requests let it run; the task ends before its client |
| Lifespan (`main.py`) | task, client, engine | start, stop | its steps after `yield` run in order, or not at all | shutdown is orderly |
| Authentication (`core/auth.py`) | none | user id or none | - | entered as the two outcomes that open every handler |
| Page and navigation (`pages/ha_dashboard.py`, `core/nav.py`, `host_user.py`) | none; the browser's page | read `host.users`, render; htmx then loads the tiles, once | two requests per visit, each with a session of its own and a cookie that may expire between them | the page does not hold its connection while its tiles load; every request is answered in bounded time |
| Migrations (`migrations/env.py`, `migrations/versions`) | the schema's objects and privileges, the version table | bootstrap, upgrade, downgrade | two deploys run at once; a run fails at any statement and is run again; the bootstrap shares Alembic's connection | the version names exactly what is there; a failed run never blocks the next |
| Deployment (`.github/workflows/deploy.yml`) | the version that serves | migrate, verify, build, deploy | nothing keeps two jobs apart; each step may fail | exit 0 means at the head; the service finds its table |
| Templates, development scripts | - | - | see section 7 | - |

How they interact: the tiles and Settings routes **call** the client, which
calls the transport; they **share** the table and the pool. The refresh task
**writes** the source that every page's navigation **reads**. The Host shares
the database (it owns `host.users` and deletes from it) and publishes the
registry. The platform may replace an instance between any two steps, and
gives it the CPU only while a request is handled (`deploy.yml:267-268` keeps
request-based billing). The
deploy job's migrations **create** the table and the grants that the service
then uses, and refer to the Host's `host.users`, which the Host's own
migrations create.

What can go wrong here and a test would hardly reach is listed in
`PROJECT.json` under "hazards", each at its line with the properties that
would catch it; every property below is there for one of them.

## 2. The modules

| Module | Role | Extends / uses |
|---|---|---|
| `FetchContract` | abstract: what a fetch promises its callers | |
| `HAFetch` | one fetch in detail; implements `FetchContract` | `INSTANCE FetchContract` |
| `CredentialRegister` | abstract: a register per user | |
| `CredentialRequests` | all handlers over the table; implements `CredentialRegister`; its fetches have the outcomes `FetchContract` allows | `INSTANCE CredentialRegister` |
| `DbPool` | the pages, their tiles and the saves over the connection pool, with time and with what the browser shows; a fetch is bounded by what `HAFetch` bounds it to | |
| `RegistryRefresh` | one process: lifespan, refresh task, HTTP client, engine | |
| `DashboardTiles` | host validation, URLs, parsers, tiles | |
| `Migrations` | any number of migration runs over one database, and the deploy job around an upgrade | |
| `*Proofs` | theorems of a module | that module, `TLAPS` |
| `MC*` | values of the constants, symmetry | the module's proofs |

The mutated forms of definitions (`RaisesAuthOnRefusal`, `TimeoutSkipsClose`,
...) stand just before the definition they would replace and are used by
nothing.

### HAFetch

`pc` is the await the coroutine is suspended on; `exchange` which reply it
waits for (0 the greeting, 1 the answer to the token, 2..4 the commands). The
body of `_fetch` between two awaits is one action: `Advance` reads an expected
reply and sends the next message, `LastReply` reads the third result and starts
the close, `Refused` reads a reply that `_authenticate` or `_run_command`
refuses, `RecvFails` and `SendFails` are the transport's failures. All leave
the `async with` body through `LeaveBody`, which starts `__aexit__`; `CloseDone`
leaves `__aexit__`, parses and chooses the outcome (`Parsed`, `Result`: the
except clauses). The three `TimeoutWhile...` actions are `wait_for`
cancelling the coroutine at each kind of await, once (`expired`). Cancelling
the close itself ends the call at once; cancelling the exchange goes through a
close that nothing bounds but the library's own timeout. That asymmetry is
the interesting part, and two findings follow from it.

Home Assistant (`HASends`, `HADrops`) sends any message at any time, restricted
only in not answering what it was not asked. `verdict` and `answered` are
history variables: what it really said, to hold the client's claims against.

`mock` is the factory's choice of a transport (`mock_integrations`). If it is
set, the peer is `FakeHATransport`: it plays back `Script`, one line for each
`recv`, never drops and never suspends the coroutine, so that no time passes
(`Tick`). A `recv` past the end of the script raises (`NothingToRead`). What ends
such a call is not time but its own steps (`FakeRuns`), of which there are
at most twelve.

### CredentialRequests

Each request is made once, as any of the four kinds, of any instance and user.
`Write` is the statement of `upsert_ha_credential`, whose row is uncommitted
(`pending`) until `Commit`; a second writer of the same user's row waits
(`Writers`), as PostgreSQL makes it, and so does the deletion of the user.
A ciphertext is the token with the key that encrypted it (a row's `key`);
decrypting with another key is the `InvalidToken` branch of `TilesRead`.
`Restart` loses an instance's requests, rolls their transactions back and may
start the instance with another key or none. `DatabaseFails` is what any
statement or commit may do, for want of a connection (`CheckoutFails` of
`DbPool`, whose other half this is) or with the loss of one: no handler catches
it, the session rolls back and the answer is a 500, also when only the re-read
after the commit failed. `log` is history: the order of commits.

### DbPool

The same handlers, seen only as users of connections, with time in ticks of
ten seconds. A process is one visit (`kind`): a Settings tab being read, one
being saved, or a dashboard being opened, which is two requests, the page
(`PageDone`) and the tiles it asks for once (`Load`). A session takes a
connection at its first statement (`Checkout`) and gives it back (`Release`) at
a commit or at its close. `TilesFetch` keeps it; `SaveFetched` has none to
keep, and needs one twice, for the write and for `_read_model`. `Due` is what
must happen before time passes. A checkout that has waited `PoolTimeout` fails
(`CheckoutFails`): the visit is `"refused"`. `HandlerRaises` is every other
exception that leaves a handler: a connection that can not be opened, a
statement, the upsert or the commit that fails while the session holds one, a
tiles request without `ENCRYPTION_KEY`, which holds one too, and a save without
it, which holds none yet; `async with` then gives back what is held, and the
visit has `"failed"`. Both are 500s. `view` is what the browser shows, `age` how
long the visit's request has been under way; a request's clocks end with it.

### RegistryRefresh

`phase` follows the process from import to exit, `task` the refresh task from
creation to its end. A list of apps is a version number: 0 is
`SELF_APP_ENTRY`. `sources` are the two `FetchedRegistrySource` objects the
process makes, one at import and one in the lifespan, and `current` the one
that `list_apps()` reads. `answer` is an answer of the Host on its way, which a
newer list may overtake. `ProviderRaises` and `UpdateRaises` are the two places
of `_refresh_loop` outside its `try`; `CloseRaises` and `DisposeRaises` the
steps of the shutdown that may fail besides awaiting a dead task.

`awake` is whether the process has the CPU: while it serves, `Freeze` takes it
away between requests and `Resume` gives it back. A frozen loop takes no step,
though the Host's answer may come meanwhile. `stalled` says of the last fetch
that this happened to it: when it goes on, its timeout may have passed, so that
it succeeds or fails (`MayFail`) whether or not the Host is reachable.

### DashboardTiles

Three steps: a form with any host is accepted or rejected (`Submit`, with the
validators as `Connectable`), and a tiles request with the accepted host turns
any answers into tiles or into a failure (`ShowTiles`). Texts are reduced to
what the code tells apart: a JSON field is missing, null, blank or a text; an
element may be no object at all; an attribute bag may be a text, on which
`.get` raises; a state may be a list, which cannot be hashed. A parser's loop over
its answer is `Loop`, a recursive function of how many elements it has read,
and `Keep` what it has kept at the end.

### Migrations

The database is a set of facts: the schema, the version table, the role, the
three groups of privileges, the credential table, and the rows of the version
table. A run is one connection: `Bootstrap` creates the schema in the
transaction that SQLAlchemy opens by itself, `Handover` commits it, `Configure`
is Alembic's choice of a transaction (`txn`: its own, unless one is open) and
its read of the version, `EnsureVersionTable` creates the version table,
`Upgrade`, `Downgrade` and `Stamp` run one revision and record it, `Finish`
ends. `work` is what the open transaction has added, deleted and locked:
`Sees` is the database as this connection finds it, `Unlocked` what it waits
for, `Install` and `Discard` the two ends of a transaction. `Refuse` is what
the database or Alembic refuses however often it is tried; `Fail` is the loss
of a statement, the connection or the process at any point, and stands for the
loser of a lock or of a unique index as well. `Verify` and `Deploy` are the
rest of the deploy job. `raced` is history: whether another run has committed
since this one began.

## 3. What the runs check

Every property has a mutant: a plausible mistake in the code it is about,
under which the same run must fail. `CHECK_DEADLOCK FALSE` is set where the
work is finite and the system rightly stops when it is done (one call, each
request, visit or run once, one page); `RegistryRefresh` never stops and is checked for
deadlock.

| Run | What it shows | Bounds, and why they are enough |
|---|---|---|
| `HAFetch` | An auth error is always Home Assistant's verdict; a summary is complete, from the right answers; no command precedes acceptance; the call takes at most budget plus one close; the socket is released; only the timer inside the close loses an answer; the fake's script serves the client to the end of every fetch; the call implements `FetchContract` (and ends) | `Budget` 3 lets the timer meet each kind of await; `CloseTimeout` 2 lets a close both end and be abandoned; `MaxInbox` 2 allows a duplicate and an early answer |
| `Credential_saves` | One row per user, no orphan; a stored pair is one save's, verified, whole; "saved" is stored and "not saved" is not, whatever the database fails at; a token goes only to the host it was entered with; `updated_at` never goes back; the table is a register | three requests of one user, each a save or a dashboard (one writing, one waiting, one between commit and re-read or fetching with what it read), two forms, `MaxClock` 1: the two moments that `tested_at` and `updated_at` have to differ by; the instance may also be without a key |
| `Credential_kinds` | A token goes only to the host and for the user it was entered with; every request under way ends, and no handler is stuck but behind a writer of its row | two requests of every kind, two users, one form that either may submit, two keys: a save and a read of one user or of two, one blocked by the other at the row; fair handlers, no symmetry |
| `DbPool` | Connections are accounted for, wherever a handler raises; only fetching tiles keep one or make anyone wait, no longer than a fetch may take; every request is answered, or fails, in bounded time; nobody is turned away up to twice as many visits as connections | five visits over two connections: 5 > 2 * 2, so that the run has states on both sides of that bound and checkouts do fail; pool timeout 3 ticks (30 s), fetch limit 2 (10 s budget, 10 s close) |
| `RegistryRefresh` | Shutdown is orderly and ends; the list never degrades, and every list the Host publishes (or a newer one) comes to be shown while requests keep the process running; no await of the loop or the lifespan is stuck | three published lists: an answer overtaken by a list that is overtaken in turn |
| `DashboardTiles` | Tiles are true, and name the first that were reported, in their order; no name is blank, well-formed answers are shown, links reach the host that answered | lists up to 3 with a cut-off of 2 (the code's is 5): empty, full, one over; 36 hosts; every kind of element, one list varying at a time |
| `Migrations` | The version tells exactly what the database holds; exit 0 means at the head; the service finds its table; a failed run never stands in the way of the next | three runs, each an upgrade or a downgrade to any revision, from every revision and from a new database, with the Host's table there from the start or later: one that has failed, one that repeats it and one in parallel |
| `HAFetch_RejectedTokenRaisesAuthError`, `HAFetch_ReturnsWithinBudget`, `Credential_TestConnectionIsRecorded`, `DbPool_OutageOnlyAffectsTiles`, `DbPool_NoSpinnerIsLeft` | violated: section 5 | |

Symmetry is used only where no liveness is checked and no property names an
element; forms are swapped as pairs of host and token (`SwapForms`).

**Fairness.** `HAFetch`: time passes and the event loop runs timers that are
due (`Tick`, `Deadlines`); nothing is asked of Home Assistant or of the
network, and still the call returns. With the fake, which never suspends, the
coroutine simply runs (`FakeRuns`). `CredentialRequests`: weak fairness of
each handler: the event loop is fair, a fetch returns (that is
`FetchContract`, which `HAFetch` implements), the database answers; users,
Home Assistant and the platform owe nothing. Weak fairness is enough for a
statement that waits for a row: the writer it waits for commits or is lost, and
the requests are finitely many. `RegistryRefresh`: under
request-based billing nothing runs between requests, so weak fairness of the
loop would assume what the deployment denies. What the event loop does give is
that whenever the process has the CPU for a request, what is ready of the loop
runs as well: strong fairness of `Loop`, which asks nothing if no request ever
comes. A reachable Host answers a fetch that keeps the CPU (weak fairness of
`HostAnswersInTime`), and the awaits of a shutdown, which has the CPU, end;
nobody has to stop the process. `CatchesUp` states the rest as premises in its
own formula: from some time on the process serves, the Host is reachable and
the task has not died; requests give it the CPU again and again; and of the
fetches that end, if they do so again and again, not all from some time on were
frozen on the way. Without either of the last two the conclusion is false, and
so it is without strong fairness: an instance that nobody visits goes on showing
what it has, and one whose every fetch is frozen past its timeout does too.
A database that fails (`DatabaseFails`)
owes nothing either.

Each of these runs also checks that fairness has something to work on:
never `FakeIsStuck`, `AHandlerIsStuck` or `SomethingIsStuck` (conjuncts of
`MockFetchSucceeds`, `EveryRequestEnds` and `ShutdownEnds`), which say of the
fair actions that their guard holds and they are not ENABLED. So no fairness is
met by an action that cannot be taken. The proofs start from this.

## 4. What is proved

For every value of the constants that satisfies the named `ASSUME`s of the
modules; none is stronger than the code justifies (numbers are natural,
requests of the pool are finitely many, markers are not data, forms are pairs, answers are lists).

**HAFetchProofs.** The properties are not inductive: that a summary is complete
says nothing of the states before it. `IInv` adds `PhaseInv` (which await goes
with which socket, exception and exchange), `ReadInv` (every unread or read
message of a verdict or a result was really sent: the inbox and the results
agree with the history), `OutcomeInv` (how each outcome came about) and
`TimeInv` (before the timer fires `elapsed` is within the budget; after it,
only a close is running). Proved from it: `TypeCorrect`, `AuthErrorIsSound`,
`SummaryIsSound`, `CommandsAreAuthenticated`, `ReturnBound`, `SocketRelease`,
`AnswerLoss`, and `Refinement`: every step is a step of `FetchContract` or a
stutter. With `MockInv` (what the fake has to read is the line the client waits
for) and `Stage` (how far a fetch from the fake is; no step takes it back and
each of its own takes it on) `MockIsSound`: every such fetch ends, and its
script leads it to a summary.

**CredentialRequestsProofs.** `SavingInv` (a save that is writing holds an
accepted pair and its stamp), `WrittenInv` (an uncommitted write replaces
exactly the user's committed rows, its user exists, and it is the only writer)
and `TableInv` (the rows are one per user, of existing users, each a finished
save's). Proved: `TypeCorrect`, `SingleRow`, `NoOrphan`, `VerifiedPairs`,
`UpdatedAtMonotone` and `RegisterRefinement`, the whole of `ImplementsRegister`.
On top of `IInv`, `TokenInv` (a request has no pair before it submits one or
reads its user's, and keeps it from then on) proves `TokensStay`, and `LogInv` (each committed save is in
the log once, and the rows are the latest of it, deletions apart) proves
`SavedIsStored`: a save that says so is in the table or was overwritten or
deleted later, never lost; and a save that says it was refused is not in the log,
at whichever statement the database failed.

`HandlerStep` (each step of a handler leads on, each step of another leaves it
where it is) gives the liveness: `RowsAreReleased`, that whoever has written a
row lets go of it for good, and `RequestsEnd`, that every request under way
ends if none waits for its row for ever, both for any number of requests. That
finitely many requests, each of which writes once and lets go, keep nobody
waiting for ever is an induction over their number, which takes a temporal
formula as its parameter: there the proof stops, and `Credential_kinds` checks
the conclusion.

**DbPoolProofs.** `PhaseInv` (who holds a connection is determined by what each
handler is doing) and `CountInv` (free and held add up to the capacity), with
the library's facts on cardinality. Proved: `TypeCorrect`, `Accounting` (for
every answer, commit and exception of a handler), `WaitsAreTheTiles`. `TimeInv` (a fetch and a wait are within
their limits, and `age` is made of them) gives `AnswerBound` and
`OnlyTilesHoldThroughFetch`. `NoRefusal` is the deepest. A checkout waits only
while tiles fetch over every connection, so for each waiting request there are,
since its wait began, at least `Capacity` visits that are over by now or have
been fetching for as long (`Outlived`, `ServedInv`). A fetch being shorter than
the pool's patience, at a refusal those are all over, others hold the
connections, and with the one refused that makes `2 * Capacity + 1` visits
(`RefusedInv`).

**MigrationsProofs.** `TypeInv` says which transaction is open at which place of
`env.py`: that Alembic always has one of its own is what the commit of the
bootstrap is for, and without it an upgrade would exit with 0 and roll back.
The properties of a database that is only upgraded then follow from `GrowInv`:
upgrades delete nothing but version rows below the head, so what a run has once
seen of a revision's objects stays there for it however others commit, and no
version row is ever without what its revision consists of. Proved: `TypeCorrect`,
`ExitCode`, `ServiceHasItsTable`, for any number of runs.

**MigrationsVersionProofs.** With downgrades nothing only grows, and the argument
is one of locks. `LockInv`: what a run has changed and not committed it has
locked, so that no other run's commit touches it. `PathInv` follows each run: a
run that has stamped a revision holds that row, and is either on course (what
it sees is the database of one revision, or that and the next revision's
objects) or overtaken: it started at a revision below the one that has been
committed since, holds the old rows, and cannot reach the head. Two runs that
disagree cannot both be on course, which is what gives `VersionIsTrue` at each
commit. `UnracedInv` says that a run beside which nobody committed knows the
version there is, and gives `RerunsWork`.

**RegistryRefreshProofs.** `PhaseInv` (the phase determines what task, client
and engine may be), `CpuInv` (only a serving process is frozen, and a fetch it
happens to is marked) and `OrderInv` (served <= answered <= published). Proved:
`TypeCorrect`, `OrderlyShutdown`, `LastKnownGood`. Two liveness theorems rest on
the stages of a round and of a shutdown (`RefreshStep`, `ShutdownStep`):
`RefreshCatchesUp` and `ShutdownGoesOn`. In the first, every round ends: the
loop runs when the CPU comes back, and a fetch is answered in time or marked as
frozen, when it may fail. The answer that was on its way when a list was
published is waited out; from the next fetch on (`OnCourse`) every answer is
that list or a newer one, and the first fetch that ends unfrozen has shown it.

**DashboardTilesProofs.** `TileAddsUp` (for every list and cut-off the names
and the remainder add up), `UrlsAgree` (for every accepted host) and, along
`LinkInv`, `LinksAreSound`. What the parsers make of an answer of any length
is an induction over it. The library's induction theorems take a predicate as a
parameter, which no prover here can instantiate; `SetInduction` takes a set of
numbers instead, and is proved from the least number outside it. From it come
the equation of the loop (`LoopUnfolds`) and `KeepFacts`: what is kept are the
elements the parser keeps, all of them, in their order. `AnswerInv` says which
answers, host and parser the shown tiles were built from; with it `TilesTell`,
`NamesAreTold` and `OddAnswersAreShown`.

**What the liveness theorems assume.** ENABLED is out of the prover's reach: it
takes `ENABLED <<A>>_vars` for a formula it knows nothing of. The five theorems
therefore have the enabledness of the fair actions as a hypothesis
(`[]~FakeIsStuck`, `[]~AHandlerIsStuck`, `[]~SomethingIsStuck`), which TLC
evaluates in every state of the same run. Everything else, the temporal argument
from fairness, is proved.

**Only model-checked.** Those three enabledness facts; that no request waits for
its row for ever (`EveryRequestEnds`, see above); and the fairness half of
`ImplementsContract`: that the clock reaches a budget of any size is an
induction over a temporal formula too. No module of a theorem declares a
RECURSIVE operator.

## 5. Where code and documents disagree

Each is a run that TLC must find violated; `PROJECT.json` quotes the lines.

- `RejectedTokenRaisesAuthError`: the client promises `HAAuthError` on a
  rejected token. If the budget expires while the socket is being closed, the
  cancellation replaces the exception on its way out, and the caller hears of
  a connection failure.
- `ReturnsWithinBudget`: "a bounded ~10s failure". The close that follows a
  cancelled exchange is outside the budget: up to one close timeout longer.
  What does hold, and is proved, is `ReturnIsBounded`.
- `TestConnectionIsRecorded`: `last_tested_at` is said to be set by a
  successful Test Connection. That route never writes.
- `OutageOnlyAffectsTiles`: an outage of Home Assistant is said to touch "no
  shared DB connection". The tiles route fetches inside its open transaction,
  so enough of them turn other requests away from the pool.
- `NoSpinnerIsLeft`: a hung connection should never leave a user "staring at a
  spinner indefinitely". A tiles request that is refused a connection is
  answered with a 500, for which htmx swaps nothing in, and the page does not
  ask again: its spinner stays.

## 6. Assumptions about what is outside the code

- **asyncio**: a coroutine runs uninterrupted between awaits; a cancelled task
  is resumed with `CancelledError` at its await; `wait_for` cancels once and
  then awaits what it cancelled.
- **websockets**: a close ends by itself within its `close_timeout`.
- **PostgreSQL**, READ COMMITTED: a statement sees what is committed when it
  runs; a write of a row with an uncommitted version waits; a foreign key is
  checked by the statement and cascades on deletion; a lost connection rolls
  its transaction back.
- **SQLAlchemy**: the queue pool's limit and timeout; a commit and a close
  return the connection; the first statement of a connection begins a
  transaction, and closing the connection rolls it back.
- **Alembic**: it begins a transaction of its own unless the connection has
  one open; it reads the version first and creates the version table only if
  it found none; a stamp inserts the first row and otherwise updates the row of
  the version before, and an update of no row is an error.
- **PostgreSQL's DDL** is transactional; a statement waits for another
  transaction's uncommitted change of the same object and may fail afterwards.
- **GitHub Actions**: a job's steps run in order and stop at the first that
  fails; two runs of the workflow may overlap.
- **htmx**: `hx-trigger="load"` asks once; a response with an error status is
  not swapped in.
- **Cloud Run** with request-based billing: a serving instance has the CPU while
  it handles a request and may lose it at any other moment; it has it to start
  and from SIGTERM on; it may be replaced at any time.
- **organizeme_chrome and httpx**: a client whose `aclose` raises counts as
  closed; building the token provider and updating a
  source may raise (nothing here says they can not); cancelling a fetch of the
  registry ends it with `CancelledError`.
- **The server**: no request runs into the lifespan's shutdown.
- **Fernet**: a ciphertext decrypts with the key that made it and no other.
- **urllib**: `urlsplit` as `Netloc`, `Scheme` and `Unsplittable` say.

## 7. What is not modelled

- **JWT verification**: in `organizeme_chrome`; here, its two outcomes.
- **Templates**: markup. What the dashboard's placeholder does is in `DbPool`
  (`view`).
- **The guard against writes to `host.users`** (`models/host_user.py`): no code
  of the service makes such a write, so that no behaviour of it is refused; a
  model of the guard would be a model of a call that does not exist. The
  rendering of the page: no state depends on it.
- **Settings, URL rewriting, logging** (`core/config.py`, `db/url.py`):
  constants of a deployment. With logging goes `fresh_since`, which is only
  ever logged.
- **Stripping blanks, issue and entry ids, timestamps on the page**
  (`DashboardTiles`): nothing stated depends on them.
- **Migrations**: the offline mode, which only prints SQL, and
  `include_object`, which only autogenerate calls. What an upgrade by a person
  changes outside Alembic.
- **Deployment**: the build and the tests, sequences of external tools that no
  step of the model depends on; a rollback of the platform to an older image.
- **Time in `DbPool`**: statements, commits and rendering take no time; they
  are short beside a tick of ten seconds.
- **Development scripts** (`scripts/`): they start processes on a developer's
  machine and build a style sheet.

## 8. Plan

In order of importance; all but the last are done.

1. `FetchContract`, `HAFetch` and its proofs.
2. `CredentialRegister`, `CredentialRequests` and its proofs, those of
   `TokenStaysWithItsHostAndUser` and `SavedMeansStored` included.
3. `DbPool` and its proofs.
4. `RegistryRefresh` and its proofs.
5. `DashboardTiles` and its first theorems.
6. The page that asks once for its tiles, in `DbPool`.
7. `Migrations` and the proofs about databases that are only upgraded.
8. The credential runs merged into larger instances.
9. The proofs of `VersionTellsTheSchema` and `RerunIsNotRefused`, and the fake
   transport in `HAFetch`.
10. What a database that fails takes from a save, in `CredentialRequests`, and
   with it the converse of "saved means stored": no refusal follows a commit.
11. The proofs about lists of any length in `DashboardTiles`, and the liveness
   of handlers, refresh, shutdown and the fake.
12. Theorems about `FetchContract` itself (what a caller may conclude from an
   outcome), and the bound that `DbPool` takes from it stated in one place.
