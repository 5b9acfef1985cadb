------------------------ MODULE RegistryRefreshProofs ----------------------
(***************************************************************************)
(* Theorems of RegistryRefresh, for any number of lists the Host may       *)
(* publish.  The inductive invariant ties the phase of the process to the  *)
(* task, the client and the engine (PhaseInv), and orders the three copies *)
(* of the Host's list: served, on its way, published (OrderInv).           *)
(***************************************************************************)
EXTENDS RegistryRefresh, TLAPS

PhaseInv ==
    /\ phase = "imported" => /\ task = "none" /\ client = "none" /\ engine = "unbuilt"
                             /\ current = "imported" /\ answer = NoAnswer
                             /\ sources["lifespan"] = SelfOnly
    /\ phase # "imported" => task # "none" /\ client # "none" /\ current = "lifespan"
    /\ phase = "serving" => task # "cancelled"
    /\ answer # NoAnswer => task = "fetching"
    /\ phase \in {"serving", "stopping", "closing"} => client = "open"
    /\ phase \in {"closing", "disposing", "stopped"} => task = "cancelled"
    /\ phase \in {"disposing", "stopped"} => client = "closed"
    /\ engine = "disposed" <=> phase = "stopped"
    /\ phase = "failed" => \/ client = "open" /\ task = "died"
                           \/ client = "closed" /\ task = "cancelled"

(* The process lacks the CPU only while it serves, and a fetch during      *)
(* which it did is marked.                                                 *)
CpuInv == ~awake => phase = "serving" /\ (task = "fetching" => stalled)

OrderInv ==
    /\ sources["imported"] = SelfOnly
    /\ sources["lifespan"] <= published
    /\ answer # NoAnswer => sources["lifespan"] <= answer /\ answer <= published

IInv == TypeOK /\ PhaseInv /\ CpuInv /\ OrderInv

----------------------------------------------------------------------------
(* A fresh process satisfies the invariant.                                *)
LEMMA InitIInv == Init => IInv
<1> SUFFICES ASSUME Init PROVE IInv
    OBVIOUS
<1>1. awake /\ awake \in BOOLEAN /\ stalled \in BOOLEAN
    BY DEF Init
<1>2. TypeOK
    BY <1>1, MaxVersionAssumption DEF Init, TypeOK, Sources, SelfOnly, NoAnswer
<1>3. PhaseInv /\ OrderInv
    BY MaxVersionAssumption DEF Init, PhaseInv, OrderInv, Sources, SelfOnly, NoAnswer
<1>4. CpuInv
    BY <1>1 DEF CpuInv
<1> QED BY <1>2, <1>3, <1>4 DEF IInv

(* A step of the refresh loop, a raise outside its try included, keeps it. *)
LEMMA LoopIInv == IInv /\ (Loop \/ Mishap) => IInv'
<1> SUFFICES ASSUME IInv, Loop \/ Mishap PROVE IInv'
    OBVIOUS
<1> USE MaxVersionAssumption
    DEF IInv, TypeOK, PhaseInv, CpuInv, OrderInv, Sources, SelfOnly, NoAnswer, LoopAt, MayFail, cpu, host
<1>1. CASE BeginLoop BY <1>1 DEF BeginLoop
<1>2. CASE FetchSucceeds BY <1>2 DEF FetchSucceeds
<1>3. CASE FetchFails BY <1>3 DEF FetchFails
<1>4. CASE Wake BY <1>4 DEF Wake
<1>5. CASE ProviderRaises BY <1>5 DEF ProviderRaises
<1>6. CASE UpdateRaises BY <1>6 DEF UpdateRaises
<1> QED BY <1>1, <1>2, <1>3, <1>4, <1>5, <1>6 DEF Loop, Mishap

(* A step of the lifespan, or a request's use of the database, keeps it.   *)
LEMMA LifespanIInv ==
    IInv /\ (Startup \/ UseDatabase \/ BeginShutdown \/ Shutdown) => IInv'
<1> SUFFICES ASSUME IInv, Startup \/ UseDatabase \/ BeginShutdown \/ Shutdown
             PROVE  IInv'
    OBVIOUS
<1> USE MaxVersionAssumption
    DEF IInv, TypeOK, PhaseInv, CpuInv, OrderInv, Sources, SelfOnly, NoAnswer, cpu, host
<1>1. CASE Startup BY <1>1 DEF Startup
<1>2. CASE UseDatabase BY <1>2 DEF UseDatabase
<1>3. CASE BeginShutdown BY <1>3 DEF BeginShutdown
<1>4. CASE TaskCancelled BY <1>4 DEF TaskCancelled, TaskIsOver
<1>5. CASE TaskAwaited BY <1>5 DEF TaskAwaited, TaskIsOver
<1>6. CASE CloseClient BY <1>6 DEF CloseClient
<1>7. CASE CloseRaises BY <1>7 DEF CloseRaises
<1>8. CASE DisposeEngine BY <1>8 DEF DisposeEngine
<1>9. CASE DisposeRaises BY <1>9 DEF DisposeRaises
<1> QED BY <1>1, <1>2, <1>3, <1>4, <1>5, <1>6, <1>7, <1>8, <1>9 DEF Shutdown

(* A step of the Host or of the platform keeps it.                         *)
LEMMA EnvironmentIInv == IInv /\ Environment => IInv'
<1> SUFFICES ASSUME IInv, Environment PROVE IInv'
    OBVIOUS
<1> USE MaxVersionAssumption
    DEF IInv, TypeOK, PhaseInv, CpuInv, OrderInv, Sources, SelfOnly, NoAnswer, cpu
<1>1. CASE HostAnswers BY <1>1 DEF HostAnswers, host
<1>2. CASE Replaced
    <2>1. awake' /\ awake' \in BOOLEAN /\ stalled' \in BOOLEAN BY <1>2 DEF Replaced
    <2>2. TypeOK' BY <1>2, <2>1 DEF Replaced, host
    <2>3. PhaseInv' /\ OrderInv' BY <1>2 DEF Replaced, host
    <2>4. CpuInv' BY <2>1
    <2> QED BY <2>2, <2>3, <2>4
<1>3. CASE Publish BY <1>3 DEF Publish, app
<1>4. CASE ReachabilityChanges BY <1>4 DEF ReachabilityChanges, app
<1>5. CASE Freeze BY <1>5 DEF Freeze, host
<1>6. CASE Resume BY <1>6 DEF Resume, host
<1> QED BY <1>1, <1>2, <1>3, <1>4, <1>5, <1>6 DEF Environment

(* The inductive invariant holds in every reachable state.                 *)
THEOREM Invariance == Spec => []IInv
<1>1. IInv /\ [Next]_vars => IInv'
    <2>1. IInv /\ Next => IInv'
        BY LoopIInv, LifespanIInv, EnvironmentIInv DEF Next
    <2>2. IInv /\ UNCHANGED vars => IInv'
        BY DEF vars, IInv, TypeOK, PhaseInv, CpuInv, OrderInv
    <2> QED BY <2>1, <2>2
<1> QED BY InitIInv, <1>1, PTL DEF Spec

(* Every variable of the process keeps its type.                           *)
THEOREM TypeCorrect == Spec => []TypeOK
<1>1. IInv => TypeOK BY DEF IInv
<1> QED BY Invariance, <1>1, PTL

(* stop_registry_refresh_task and the lifespan give up the client and the  *)
(* engine only after the task is over, and leave the client open only if   *)
(* it had died.                                                            *)
THEOREM OrderlyShutdown == Spec => []ShutdownIsOrderly
<1>1. IInv => ShutdownIsOrderly
    BY DEF IInv, TypeOK, PhaseInv, ShutdownIsOrderly
<1> QED BY Invariance, <1>1, PTL

(* The refresh loop never replaces what the pages show by something older, *)
(* nor by something the Host did not publish.                              *)
THEOREM LastKnownGood == Spec => NeverDegrades
<1> DEFINE Kept == phase' # "imported" => Served' >= Served /\ Served' <= published
<1>1. IInv /\ [Next]_vars => [Kept]_vars
    <2> SUFFICES ASSUME IInv, Next PROVE Kept
        OBVIOUS
    <2> USE MaxVersionAssumption
        DEF IInv, TypeOK, PhaseInv, CpuInv, OrderInv, Sources, SelfOnly, NoAnswer, Served
    <2>1. CASE FetchSucceeds BY <2>1 DEF FetchSucceeds, LoopAt
    <2>2. CASE Startup BY <2>2 DEF Startup
    <2>3. CASE Replaced BY <2>3 DEF Replaced
    <2>4. CASE UNCHANGED <<sources, current>> BY <2>4
    <2>5. UNCHANGED <<sources, current>> \/ FetchSucceeds \/ Startup \/ Replaced
        BY DEF Next, Loop, Mishap, Shutdown, Environment, app, UseDatabase, BeginShutdown,
               BeginLoop, FetchFails, Wake, ProviderRaises, UpdateRaises, TaskCancelled,
               TaskAwaited, CloseClient, CloseRaises, DisposeEngine, DisposeRaises,
               HostAnswers, Freeze, Resume, Publish, ReachabilityChanges
    <2> QED BY <2>1, <2>2, <2>3, <2>4, <2>5
<1> QED BY Invariance, <1>1, PTL DEF Spec, NeverDegrades

----------------------------------------------------------------------------
(* Liveness.  That a fair action can be taken when its guard holds is a    *)
(* hypothesis (never SomethingIsStuck, which TLC checks): ENABLED is not   *)
(* proved here.  From it, weak fairness of the actions does the rest.      *)

(* What is left of a shutdown: its task, then its client, then its engine. *)
Ending == phase \in {"stopped", "failed", "imported"}

LEMMA ShutdownStep ==
    ASSUME IInv, [Next]_vars
    PROVE  /\ phase = "stopping" /\ ~TaskIsOver =>
                \/ phase' = "stopping" /\ ~TaskIsOver' /\ ~<<Shutdown>>_vars
                \/ phase' = "stopping" /\ TaskIsOver'
                \/ Ending'
           /\ phase = "stopping" /\ TaskIsOver =>
                \/ phase' = "stopping" /\ TaskIsOver' /\ ~<<Shutdown>>_vars
                \/ phase' = "closing" \/ Ending'
           /\ phase = "closing" =>
                \/ phase' = "closing" /\ ~<<Shutdown>>_vars
                \/ phase' = "disposing" \/ Ending'
           /\ phase = "disposing" =>
                \/ phase' = "disposing" /\ ~<<Shutdown>>_vars
                \/ Ending'
<1> USE DEF TaskIsOver, Ending
<1>1. CASE Shutdown
    BY <1>1 DEF Shutdown, TaskCancelled, TaskAwaited, CloseClient, CloseRaises, DisposeEngine,
                DisposeRaises
<1>2. CASE Replaced
    BY <1>2 DEF Replaced
<1>3. CASE phase # "serving" /\ ~Shutdown /\ UNCHANGED <<phase, task>>
    BY <1>3
<1>4. CASE phase \in {"serving", "imported"}
    BY <1>4
<1> QED
    BY <1>1, <1>2, <1>3, <1>4
    DEF Next, vars, LoopAt, Startup, UseDatabase, BeginShutdown, Loop, Mishap, Environment,
        BeginLoop, FetchSucceeds, FetchFails, Wake, ProviderRaises, UpdateRaises, HostAnswers,
        Freeze, Resume, Publish, ReachabilityChanges, app

(* A shutdown that has begun ends, wherever it catches the task.           *)
THEOREM ShutdownGoesOn == FairSpec /\ []~SomethingIsStuck => ShutdownEnds
<1> DEFINE A == phase = "stopping" /\ ~TaskIsOver
           B == phase = "stopping" /\ TaskIsOver
           C == phase = "closing"
           D == phase = "disposing"
<1>1. IInv /\ [Next]_vars =>
        /\ A => (A' /\ ~<<Shutdown>>_vars) \/ B' \/ Ending'
        /\ B => (B' /\ ~<<Shutdown>>_vars) \/ C' \/ Ending'
        /\ C => (C' /\ ~<<Shutdown>>_vars) \/ D' \/ Ending'
        /\ D => (D' /\ ~<<Shutdown>>_vars) \/ Ending'
    BY ShutdownStep
<1>2. A \/ B \/ C \/ D => CanShutDown
    BY DEF CanShutDown
<1>3. ~SomethingIsStuck => (CanShutDown => ENABLED <<Shutdown>>_vars)
    BY DEF SomethingIsStuck
<1>4. phase = "stopping" <=> A \/ B
    OBVIOUS
<1>5. Ending <=> phase \in {"stopped", "failed", "imported"}
    BY DEF Ending
<1> HIDE DEF A, B, C, D
<1>6. FairSpec /\ []~SomethingIsStuck => (A ~> B \/ Ending)
    BY <1>1, <1>2, <1>3, Invariance, PTL DEF FairSpec, Fairness, Spec
<1>7. FairSpec /\ []~SomethingIsStuck => (B ~> C \/ Ending)
    BY <1>1, <1>2, <1>3, Invariance, PTL DEF FairSpec, Fairness, Spec
<1>8. FairSpec /\ []~SomethingIsStuck => (C ~> D \/ Ending)
    BY <1>1, <1>2, <1>3, Invariance, PTL DEF FairSpec, Fairness, Spec
<1>9. FairSpec /\ []~SomethingIsStuck => (D ~> Ending)
    BY <1>1, <1>2, <1>3, Invariance, PTL DEF FairSpec, Fairness, Spec
<1> QED
    BY <1>4, <1>5, <1>6, <1>7, <1>8, <1>9, PTL DEF ShutdownEnds

(* The stages of a round, while the process serves, its task lives and the *)
(* Host can be reached: the loop waits for its next fetch, the fetch for   *)
(* its answer, and the loop to run with the answer or with a failure.      *)
Idle == task \in {"created", "sleeping"}
Asking == task = "fetching" /\ answer = NoAnswer /\ ~stalled
Ready == task = "fetching" /\ (answer # NoAnswer \/ stalled)

(* List v, once published, is shown, or the fetch under way has no answer  *)
(* yet or one that is not older, or the last fetch was frozen.             *)
OnCourse(v) == \/ Served >= v
               \/ task = "fetching" /\ (answer = NoAnswer \/ answer >= v)
               \/ Fetched /\ stalled

LEMMA RefreshStep ==
    ASSUME IInv, [Next]_vars, Live, Live', NEW v \in 1..MaxVersion, published >= v
    PROVE  /\ Idle \/ Asking \/ Ready
           /\ Idle => (Idle' /\ ~<<Loop>>_vars) \/ Asking'
           /\ Asking => (Asking' /\ ~<<HostAnswersInTime>>_vars) \/ Ready'
           /\ Ready => (Ready' /\ ~<<Loop>>_vars) \/ Fetched'
           /\ OnCourse(v) => OnCourse(v)'
           /\ Served >= v => Served' >= v
<1> USE MaxVersionAssumption
    DEF IInv, TypeOK, PhaseInv, CpuInv, OrderInv, Live, NoAnswer, SelfOnly, Sources, Served,
        Idle, Asking, Ready, OnCourse, Fetched
<1>1. CASE BeginLoop BY <1>1 DEF BeginLoop, LoopAt, host
<1>2. CASE FetchSucceeds BY <1>2 DEF FetchSucceeds, LoopAt, cpu, host
<1>3. CASE FetchFails BY <1>3 DEF FetchFails, LoopAt, MayFail, cpu, host
<1>4. CASE Wake BY <1>4 DEF Wake, LoopAt, host
<1>5. CASE ProviderRaises \/ UpdateRaises BY <1>5 DEF ProviderRaises, UpdateRaises
<1>6. CASE HostAnswers
    <2>1. ~Loop
        BY <1>6 DEF HostAnswers, host, Loop, BeginLoop, FetchSucceeds, FetchFails, Wake, LoopAt
    <2> QED BY <1>6, <2>1 DEF HostAnswers, cpu, host
<1>7. CASE /\ UNCHANGED <<sources, current, task, answer>>
           /\ stalled' \in BOOLEAN /\ (stalled => stalled')
           /\ task # "fetching" => stalled' = stalled
    <2>1. ~Loop
        BY <1>7 DEF Loop, BeginLoop, FetchSucceeds, FetchFails, Wake, LoopAt
    <2>2. ~HostAnswersInTime
        BY <1>7 DEF HostAnswersInTime, HostAnswers
    <2>3. /\ sources' = sources /\ current' = current /\ task' = task /\ answer' = answer
          /\ task \in {"created", "fetching", "sleeping"}
        BY <1>7
    <2> QED BY <1>7, <2>1, <2>2, <2>3
<1>8. CASE Startup \/ BeginShutdown \/ Shutdown \/ Replaced
    BY <1>8 DEF Startup, BeginShutdown, Shutdown, TaskCancelled, TaskAwaited, CloseClient,
                CloseRaises, DisposeEngine, DisposeRaises, Replaced
<1>9. \/ BeginLoop \/ FetchSucceeds \/ FetchFails \/ Wake \/ ProviderRaises \/ UpdateRaises
      \/ HostAnswers \/ Startup \/ BeginShutdown \/ Shutdown \/ Replaced
      \/ /\ UNCHANGED <<sources, current, task, answer>>
         /\ stalled' \in BOOLEAN /\ (stalled => stalled')
         /\ task # "fetching" => stalled' = stalled
    BY DEF Next, vars, Loop, Mishap, Environment, UseDatabase, Publish, ReachabilityChanges,
           Freeze, Resume, app, cpu, host
<1> QED BY <1>1, <1>2, <1>3, <1>4, <1>5, <1>6, <1>7, <1>8, <1>9

(* A Host that stays reachable is caught up with, however many lists it    *)
(* publishes and however many fetches fail: every round ends that has the  *)
(* CPU again and again, and one that ends unfrozen has shown the list.     *)
THEOREM RefreshCatchesUp == FairSpec /\ []~SomethingIsStuck => CatchesUp
<1>1. ASSUME NEW v \in 1..MaxVersion
      PROVE  FairSpec /\ []~SomethingIsStuck =>
                (<>[]Live /\ []<>awake /\ SomeFetchesKeepTheCPU
                    => (published >= v ~> [](Served >= v)))
    <2> DEFINE H == published >= v
               W == Served >= v
               X == OnCourse(v)
               Unfrozen == Fetched /\ ~stalled
    <2>1. IInv /\ [Next]_vars /\ Live /\ Live' /\ H =>
            /\ Idle \/ Asking \/ Ready
            /\ Idle => (Idle' /\ ~<<Loop>>_vars) \/ Asking'
            /\ Asking => (Asking' /\ ~<<HostAnswersInTime>>_vars) \/ Ready'
            /\ Ready => (Ready' /\ ~<<Loop>>_vars) \/ Fetched'
            /\ X => X'
            /\ W => W'
        BY RefreshStep
    <2>2. ~SomethingIsStuck /\ IInv /\ Live =>
            /\ awake /\ (Idle \/ Ready) => ENABLED <<Loop>>_vars
            /\ Asking => ENABLED <<HostAnswersInTime>>_vars
        BY DEF SomethingIsStuck, Live, CanLoop, CanAnswer, MayFail, Idle, Asking, Ready, IInv,
               CpuInv
    <2>3. /\ Fetched => Idle
          /\ Asking => X
          /\ X /\ Unfrozen => W
          /\ Unfrozen => Fetched
        BY DEF Fetched, Idle, Asking, OnCourse
    <2>4. IInv /\ [Next]_vars /\ H => H'
        BY MaxVersionAssumption
        DEF IInv, TypeOK, Next, vars, Startup, UseDatabase, BeginShutdown, Loop, Mishap,
            Shutdown, Environment, BeginLoop, FetchSucceeds, FetchFails, Wake, ProviderRaises,
            UpdateRaises, TaskCancelled, TaskAwaited, CloseClient, CloseRaises, DisposeEngine,
            DisposeRaises, HostAnswers, Freeze, Resume, Replaced, Publish,
            ReachabilityChanges, app, host
    <2>5. SomeFetchesKeepTheCPU <=> ([]<>Fetched => []<>Unfrozen)
        BY DEF SomeFetchesKeepTheCPU
    <2> HIDE DEF H, W, X, Unfrozen
    <2> DEFINE Running == [][Next]_vars /\ []IInv /\ []~SomethingIsStuck /\ Fairness
               Steady == Running /\ []<>awake /\ []Live /\ []H
    <2>6. Steady => (Ready ~> Fetched)
        BY <2>1, <2>2, PTL DEF Fairness
    <2>7. Steady => (Idle ~> Asking)
        BY <2>1, <2>2, PTL DEF Fairness
    <2>8. Steady => (Asking ~> Ready)
        BY <2>1, <2>2, PTL DEF Fairness
    <2>9. Steady => [](Idle \/ Asking \/ Ready)
        BY <2>1, PTL
    <2>10. Steady => []<>Fetched /\ <>Asking
        BY <2>3, <2>6, <2>7, <2>8, <2>9, PTL
    <2>11. Steady => [](X => []X) /\ [](W => []W)
        BY <2>1, PTL
    <2>12. Steady /\ []<>Unfrozen => <>[]W
        BY <2>3, <2>10, <2>11, PTL
    <2>13. Steady /\ ([]<>Fetched => []<>Unfrozen) => <>[]W
        BY <2>10, <2>12
    <2>14. Running => [](H => []H)
        BY <2>4, PTL
    <2>15. FairSpec /\ []~SomethingIsStuck => []Running
        BY Invariance, PTL DEF FairSpec, Fairness, Spec
    <2> HIDE DEF Running
    <2>16. FairSpec /\ []~SomethingIsStuck =>
             (<>[]Live /\ []<>awake /\ ([]<>Fetched => []<>Unfrozen) => (H ~> []W))
        BY <2>13, <2>14, <2>15, PTL
    <2> QED BY <2>5, <2>16 DEF H, W
<1> QED BY <1>1 DEF CatchesUp
============================================================================
