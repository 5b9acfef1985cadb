--------------------------- MODULE RegistryRefresh --------------------------
(***************************************************************************)
(* One process of the application from import to shutdown: the background  *)
(* task of app/core/registry.py that keeps the list of hosted apps         *)
(* current, and the lifespan of app/main.py that starts it and has to stop *)
(* it before it closes the HTTP client and disposes of the engine.  The    *)
(* service is deployed with request-based billing: while it serves, the    *)
(* process has the CPU only while a request is handled, and the task runs  *)
(* on what the requests leave it.                                          *)
(*                                                                         *)
(* A list of apps is a version: 0 is the service's own SELF_APP_ENTRY, the *)
(* Host publishes 1, 2, ...  organizeme_chrome (the source, the token      *)
(* provider, fetch_registry_once) and httpx are external: a fetch answers  *)
(* with what the Host published at some moment, or raises.                 *)
(***************************************************************************)
EXTENDS Naturals

CONSTANT MaxVersion  \* bounds how often the Host changes its list

ASSUME MaxVersionAssumption == MaxVersion \in Nat \ {0}

SelfOnly == 0
NoAnswer == MaxVersion + 1

VARIABLES
    phase,      \* where the process is between import and exit
    sources,    \* the list each FetchedRegistrySource of the process serves
    current,    \* the source configured last, which list_apps() reads
    task,       \* the refresh task
    answer,     \* the Host's answer on its way to the fetch, if any
    client,     \* the task's httpx client
    engine,     \* the process's database engine
    awake,      \* whether the platform gives the process the CPU
    stalled,    \* whether it was taken away during the task's last fetch
    published,  \* the version the Host publishes
    reachable   \* whether a fetch can succeed

cpu == <<awake, stalled>>
app == <<phase, sources, current, task, answer, client, engine, awake, stalled>>
host == <<published, reachable>>
vars == <<phase, sources, current, task, answer, client, engine, awake, stalled, published,
          reachable>>

----------------------------------------------------------------------------
Sources == {"imported", "lifespan"}  \* the module's own, and the lifespan's

(* What a page's navigation is built from.                                 *)
Served == sources[current]

(* A process that has just imported app.main, which configured the         *)
(* module's own source.                                                    *)
Init == /\ phase = "imported"
        /\ sources = [s \in Sources |-> SelfOnly]
        /\ current = "imported"
        /\ task = "none" /\ answer = NoAnswer
        /\ client = "none" /\ engine = "unbuilt"
        /\ awake = TRUE /\ stalled = FALSE
        /\ published = 1 /\ reachable \in BOOLEAN

(* The lifespan configures a fresh source and hands it to the task (mutant:*)
(* the pages are left with the source of the import).                      *)
StartupKeepsOldSource ==
    /\ phase = "imported"
    /\ phase' = "serving"
    /\ task' = "created" /\ client' = "open"
    /\ UNCHANGED <<sources, current, answer, engine, cpu, host>>

Startup ==
    /\ phase = "imported"
    /\ phase' = "serving"
    /\ current' = "lifespan"
    /\ task' = "created" /\ client' = "open"
    /\ UNCHANGED <<sources, answer, engine, cpu, host>>

----------------------------------------------------------------------------
(* While the process serves, the platform takes the CPU away when no       *)
(* request is handled, and gives it back for the next one; it has it to    *)
(* start and to stop.                                                      *)
Freeze ==
    /\ phase = "serving" /\ awake
    /\ awake' = FALSE
    /\ stalled' = (stalled \/ task = "fetching")
    /\ UNCHANGED <<phase, sources, current, task, answer, client, engine, host>>

Resume ==
    /\ ~awake
    /\ awake' = TRUE
    /\ UNCHANGED <<phase, sources, current, task, answer, client, engine, stalled, host>>

----------------------------------------------------------------------------
(* The refresh loop.  Once it is cancelled its next step raises, so it     *)
(* takes these steps only until the lifespan begins to stop.               *)
LoopAt(l) == phase = "serving" /\ awake /\ task = l

BeginLoop ==
    /\ LoopAt("created")
    /\ task' = "fetching" /\ stalled' = FALSE
    /\ UNCHANGED <<phase, sources, current, answer, client, engine, awake, host>>

(* The token provider is built outside the try: an exception there ends    *)
(* the task.                                                               *)
ProviderRaises ==
    /\ LoopAt("created")
    /\ task' = "died"
    /\ UNCHANGED <<phase, sources, current, answer, client, engine, cpu, host>>

(* The answer comes whether or not the process has the CPU to read it.     *)
HostAnswers ==
    /\ phase = "serving" /\ task = "fetching" /\ answer = NoAnswer /\ reachable
    /\ answer' = published
    /\ UNCHANGED <<phase, sources, current, task, client, engine, cpu, host>>

(* The answer arrives: the source takes it, and the loop waits (mutant:    *)
(* the source is updated whether or not there is an answer).               *)
UpdatesRegardless ==
    /\ LoopAt("fetching")
    /\ sources' = [sources EXCEPT !["lifespan"] = answer]
    /\ answer' = NoAnswer /\ task' = "sleeping"
    /\ UNCHANGED <<phase, current, client, engine, cpu, host>>

FetchSucceeds ==
    /\ LoopAt("fetching") /\ answer # NoAnswer
    /\ sources' = [sources EXCEPT !["lifespan"] = answer]
    /\ answer' = NoAnswer /\ task' = "sleeping"
    /\ UNCHANGED <<phase, current, client, engine, cpu, host>>

(* source.update is in the else clause, which the except does not cover.   *)
UpdateRaises ==
    /\ LoopAt("fetching") /\ answer # NoAnswer
    /\ answer' = NoAnswer /\ task' = "died"
    /\ UNCHANGED <<phase, sources, current, client, engine, cpu, host>>

(* Whatever the fetch raises is logged, and the source stays as it is      *)
(* (mutant: the source falls back to the default).  A fetch that had no    *)
(* CPU for a while may find its timeout passed when it has it again, even  *)
(* if the answer has come.                                                 *)
MayFail == ~reachable \/ stalled

FetchFailsToDefault ==
    /\ LoopAt("fetching") /\ MayFail
    /\ sources' = [sources EXCEPT !["lifespan"] = SelfOnly]
    /\ answer' = NoAnswer /\ task' = "sleeping"
    /\ UNCHANGED <<phase, current, client, engine, cpu, host>>

FetchFails ==
    /\ LoopAt("fetching") /\ MayFail
    /\ answer' = NoAnswer /\ task' = "sleeping"
    /\ UNCHANGED <<phase, sources, current, client, engine, cpu, host>>

(* asyncio.sleep(registry_refresh_interval_seconds) is over.               *)
Wake ==
    /\ LoopAt("sleeping")
    /\ task' = "fetching" /\ stalled' = FALSE
    /\ UNCHANGED <<phase, sources, current, answer, client, engine, awake, host>>

----------------------------------------------------------------------------
(* A request that needs the database builds the engine; the server lets no *)
(* request run into the shutdown.                                          *)
UseDatabase ==
    /\ phase = "serving" /\ awake /\ engine = "unbuilt"
    /\ engine' = "pooling"
    /\ UNCHANGED <<phase, sources, current, task, answer, client, cpu, host>>

(* The lifespan resumes after its yield: task.cancel().                    *)
BeginShutdown ==
    /\ phase = "serving"
    /\ phase' = "stopping" /\ awake' = TRUE
    /\ UNCHANGED <<sources, current, task, answer, client, engine, stalled, host>>

TaskIsOver == task \in {"cancelled", "died"}

(* CancelledError is not an Exception: it leaves the loop from any await   *)
(* (mutant: the except clause catches it too, and the loop goes on).       *)
CancelCaught ==
    /\ phase = "stopping" /\ task \in {"created", "sleeping"}
    /\ task' = "cancelled" /\ answer' = NoAnswer
    /\ UNCHANGED <<phase, sources, current, client, engine, cpu, host>>

TaskCancelled ==
    /\ phase = "stopping" /\ ~TaskIsOver
    /\ task' = "cancelled" /\ answer' = NoAnswer
    /\ UNCHANGED <<phase, sources, current, client, engine, cpu, host>>

(* `await task` with CancelledError suppressed.  A task that died raises   *)
(* its own exception here, which leaves stop_registry_refresh_task and the *)
(* lifespan (mutant: the task is not awaited).                             *)
TaskNotAwaited ==
    /\ phase = "stopping" /\ task # "died"
    /\ phase' = "closing"
    /\ UNCHANGED <<sources, current, task, answer, client, engine, cpu, host>>

TaskAwaited ==
    /\ phase = "stopping" /\ TaskIsOver
    /\ phase' = IF task = "cancelled" THEN "closing" ELSE "failed"
    /\ UNCHANGED <<sources, current, task, answer, client, engine, cpu, host>>

(* An aclose() that raises, on a connection it can not close, leaves the   *)
(* lifespan with the client closed and the engine as it is.                *)
CloseClient ==
    /\ phase = "closing"
    /\ client' = "closed" /\ phase' = "disposing"
    /\ UNCHANGED <<sources, current, task, answer, engine, cpu, host>>

CloseRaises ==
    /\ phase = "closing"
    /\ client' = "closed" /\ phase' = "failed"
    /\ UNCHANGED <<sources, current, task, answer, engine, cpu, host>>

(* get_engine() is cached: what is disposed of is the pool the requests    *)
(* used, or one built only for this; to build or to dispose may raise.     *)
DisposeEngine ==
    /\ phase = "disposing"
    /\ engine' = "disposed" /\ phase' = "stopped"
    /\ UNCHANGED <<sources, current, task, answer, client, cpu, host>>

DisposeRaises ==
    /\ phase = "disposing"
    /\ phase' = "failed"
    /\ UNCHANGED <<sources, current, task, answer, client, engine, cpu, host>>

----------------------------------------------------------------------------
(* The platform replaces the process, at any moment; the Host publishes    *)
(* another list; a fetch becomes possible or impossible.                   *)
Replaced ==
    /\ phase' = "imported"
    /\ sources' = [s \in Sources |-> SelfOnly]
    /\ current' = "imported"
    /\ task' = "none" /\ answer' = NoAnswer
    /\ client' = "none" /\ engine' = "unbuilt"
    /\ awake' = TRUE /\ stalled' = FALSE
    /\ UNCHANGED host

Publish ==
    /\ published < MaxVersion
    /\ published' = published + 1
    /\ UNCHANGED <<app, reachable>>

ReachabilityChanges ==
    /\ reachable' = ~reachable
    /\ UNCHANGED <<app, published>>

Loop == BeginLoop \/ FetchSucceeds \/ FetchFails \/ Wake
Mishap == ProviderRaises \/ UpdateRaises
Shutdown == TaskCancelled \/ TaskAwaited \/ CloseClient \/ CloseRaises
               \/ DisposeEngine \/ DisposeRaises
Environment == HostAnswers \/ Freeze \/ Resume \/ Replaced \/ Publish \/ ReachabilityChanges

Next == Startup \/ UseDatabase \/ BeginShutdown \/ Loop \/ Mishap \/ Shutdown \/ Environment

Spec == Init /\ [][Next]_vars

(* A process that has the CPU again and again runs, each time, whatever of *)
(* its loop is ready: hence strong fairness.  A Host that stays reachable  *)
(* answers a fetch that keeps the CPU.  A shutdown has the CPU.  Nothing   *)
(* is asked of the requests, without which the process may stay frozen for *)
(* ever, nor of the Host, and nobody has to stop the process.              *)
HostAnswersInTime == awake /\ HostAnswers

Fairness == SF_vars(Loop) /\ WF_vars(HostAnswersInTime) /\ WF_vars(Shutdown)

FairSpec == Spec /\ Fairness

----------------------------------------------------------------------------
(* The variables stay in their ranges.                                     *)
TypeOK ==
    /\ phase \in {"imported", "serving", "stopping", "closing", "disposing",
                  "stopped", "failed"}
    /\ sources \in [Sources -> 0..MaxVersion]
    /\ current \in Sources
    /\ task \in {"none", "created", "fetching", "sleeping", "cancelled", "died"}
    /\ answer \in 1..NoAnswer
    /\ client \in {"none", "open", "closed"}
    /\ engine \in {"unbuilt", "pooling", "disposed"}
    /\ awake \in BOOLEAN /\ stalled \in BOOLEAN
    /\ published \in 1..MaxVersion
    /\ reachable \in BOOLEAN

(* The HTTP client and the engine are given up only after the task that    *)
(* fetches is over, the engine after the client, and a completed shutdown  *)
(* has given up both; a client is left open by a shutdown only if the task *)
(* had died.                                                               *)
ShutdownIsOrderly ==
    /\ client = "closed" \/ engine = "disposed" => task = "cancelled"
    /\ engine = "disposed" => client = "closed"
    /\ phase = "stopped" => client = "closed" /\ engine = "disposed"
    /\ phase = "failed" /\ client = "open" => task = "died"

(* What the pages show is never replaced by something older, however       *)
(* answers and failures alternate, until the process itself is replaced.   *)
NeverDegrades ==
    [][phase' # "imported" => Served' >= Served /\ Served' <= published]_vars

(* What the three fair actions wait for; an await of the loop or of the    *)
(* lifespan is stuck if anything else keeps its action from being taken.   *)
CanLoop ==
    /\ phase = "serving" /\ awake
    /\ \/ task \in {"created", "sleeping"}
       \/ task = "fetching" /\ (answer # NoAnswer \/ MayFail)
CanAnswer ==
    /\ phase = "serving" /\ awake
    /\ task = "fetching" /\ answer = NoAnswer /\ reachable
CanShutDown == phase \in {"stopping", "closing", "disposing"}

SomethingIsStuck ==
    \/ CanLoop /\ ~ENABLED <<Loop>>_vars
    \/ CanAnswer /\ ~ENABLED <<HostAnswersInTime>>_vars
    \/ CanShutDown /\ ~ENABLED <<Shutdown>>_vars

(* Once the process serves for good with a live task and a reachable Host, *)
(* every list that the Host publishes comes to be shown, or a newer one,   *)
(* and stays so, however many fetches fail before and between: provided    *)
(* that requests keep coming, and that of the fetches, if they end again   *)
(* and again, not all from some time on were frozen on the way.  Under     *)
(* request-based billing the code promises nothing without the two.        *)
Live == phase = "serving" /\ task # "died" /\ reachable
Fetched == task = "sleeping"
SomeFetchesKeepTheCPU == []<>Fetched => []<>(Fetched /\ ~stalled)

CatchesUp ==
    <>[]Live /\ []<>awake /\ SomeFetchesKeepTheCPU
        => \A v \in 1..MaxVersion : published >= v ~> [](Served >= v)

(* A shutdown that has begun ends, wherever the task is caught.            *)
ShutdownEnds ==
    /\ []~SomethingIsStuck
    /\ phase = "stopping" ~> phase \in {"stopped", "failed", "imported"}
============================================================================
