----------------------------- MODULE WdkEngine -----------------------------
(***************************************************************************)
(* The life cycle of the WDK engine: initialize() raises a wallet worklet  *)
(* and gives it the seed, lock() disposes of and terminates it, and one    *)
(* mnemonic ceremony at a time runs in a worklet of its own.  Every wait   *)
(* is bounded by a timer, a worklet can exit at any time, and one whose    *)
(* exit is not confirmed faults the engine until the process restarts.     *)
(*                                                                         *)
(* Code: src/backend/wallet/wdk-engine.cjs, over worklets raised by        *)
(* wdk-bare-transport.cjs.  The typed operations are WalletService's.  A   *)
(* promise that lock() rejects runs its handler before anything else does, *)
(* so the cancelled call moves on in lock()'s own step.                    *)
(***************************************************************************)
EXTENDS Naturals

CONSTANTS
    Worklet,    \* the worklets the process may raise
    None

ASSUME EngineAssumption == None \notin Worklet

VARIABLES
    state,      \* WdkEngineAdapter._state
    recovery,   \* _recoveryRequired
    endpoint,   \* _endpoint: the worklet of the open wallet, or None
    ceremony,   \* _ceremony: the worklet of the ceremony, or None
    stage,      \* where the call that raised each worklet stands
    process,    \* the worklet itself
    seeded,     \* worklets that were given the seed
    lockpc,     \* what lock() waits for
    lockOn      \* the worklet it waits for

vars == <<state, recovery, endpoint, ceremony, stage, process, seeded,
          lockpc, lockOn>>

States == {"locked", "initializing", "ready", "locking", "faulted"}
WalletStages == {"spawning", "initializing", "unwinding", "ready", "closed"}
CeremonyStages == {"starting", "beginning", "aborting", "active", "finishing",
                   "closing"}
Registered == CeremonyStages \ {"aborting"}
Stages == WalletStages \cup CeremonyStages \cup {"unused", "late", "over"}

TypeOK ==
    /\ state \in States
    /\ recovery \in BOOLEAN
    /\ endpoint \in Worklet \cup {None}
    /\ ceremony \in Worklet \cup {None}
    /\ stage \in [Worklet -> Stages]
    /\ process \in [Worklet -> {"none", "spawning", "live", "gone"}]
    /\ seeded \subseteq Worklet
    /\ lockpc \in {"none", "abort", "finish", "cancel", "dispose", "terminate"}
    /\ lockOn \in Worklet \cup {None}

Init ==
    /\ state = "locked" /\ recovery = FALSE
    /\ endpoint = None /\ ceremony = None
    /\ stage = [w \in Worklet |-> "unused"]
    /\ process = [w \in Worklet |-> "none"]
    /\ seeded = {}
    /\ lockpc = "none" /\ lockOn = None

To(w, s) == stage' = [stage EXCEPT ![w] = s]
Fault == state' = "faulted" /\ recovery' = TRUE

\* Bug: the state alone is taken to say whether a restart is required.
UsableByState == state # "faulted"

\* The engine has not lost track of a worklet.
Usable == ~recovery /\ state # "faulted"

\* Bug: the ceremony is not asked about.
FreeBesideCeremony == Usable /\ state = "locked" /\ endpoint = None

\* No wallet is open or opening, and no ceremony is registered.
Free == Usable /\ state = "locked" /\ endpoint = None /\ ceremony = None
-----------------------------------------------------------------------------
(* initialize().                                                           *)

Initialize(w) ==
    /\ Free
    /\ stage[w] = "unused"
    /\ state' = "initializing"
    /\ To(w, "spawning")
    /\ process' = [process EXCEPT ![w] = "spawning"]
    /\ UNCHANGED <<recovery, endpoint, ceremony, seeded, lockpc, lockOn>>

InitSettled ==
    /\ lockpc' = IF lockpc = "cancel" THEN "none" ELSE lockpc
    /\ UNCHANGED lockOn

\* The worklet signals readiness; it gets the seed unless the engine has
\* been locked meanwhile or its endpoint breaks the contract.
SpawnResolves(w) ==
    /\ stage[w] = "spawning"
    /\ process' = [process EXCEPT ![w] = "live"]
    /\ \/ /\ state = "initializing"
          /\ endpoint' = w
          /\ To(w, "initializing")
          /\ seeded' = seeded \cup {w}
       \/ /\ To(w, "unwinding")
          /\ UNCHANGED <<endpoint, seeded>>
    /\ UNCHANGED <<state, recovery, ceremony, lockpc, lockOn>>

\* Nothing was raised.
SpawnRejects(w) ==
    /\ stage[w] = "spawning"
    /\ process' = [process EXCEPT ![w] = "gone"]
    /\ To(w, "over")
    /\ state' = IF recovery THEN state ELSE "locked"
    /\ InitSettled
    /\ UNCHANGED <<recovery, endpoint, ceremony, seeded>>

\* Something may still be raised: the engine may not be used again.
SpawnTimesOut(w) ==
    /\ stage[w] = "spawning"
    /\ Fault
    /\ To(w, "late")
    /\ InitSettled
    /\ UNCHANGED <<endpoint, ceremony, process, seeded>>

\* The worklet is raised after all, and terminated without further ado.
LateSpawn(w) ==
    /\ stage[w] = "late" /\ process[w] = "spawning"
    /\ process' = [process EXCEPT ![w] = "live"]
    /\ UNCHANGED <<state, recovery, endpoint, ceremony, stage, seeded, lockpc,
                   lockOn>>

\* The worklet holds the seed and answers.
InitResolves(w) ==
    /\ stage[w] = "initializing" /\ process[w] = "live"
    /\ state = "initializing"
    /\ state' = "ready"
    /\ To(w, "ready")
    /\ UNCHANGED <<recovery, endpoint, ceremony, process, seeded, lockpc,
                   lockOn>>

\* A refusal, a malformed answer, the timer, or a state that has moved on.
InitFails(w) ==
    /\ stage[w] = "initializing"
    /\ endpoint' = None
    /\ To(w, "unwinding")
    /\ UNCHANGED <<state, recovery, ceremony, process, seeded, lockpc, lockOn>>

\* Bug: termination is asked for, and not waited for.
Unawaited(w) == process[w] \in {"live", "gone"}

\* terminate() resolves when the worklet has exited.
Terminated(w) == process[w] = "gone"

UnwindEnds(w) ==
    /\ stage[w] = "unwinding" /\ Terminated(w)
    /\ To(w, "over")
    /\ state' = IF recovery THEN state ELSE "locked"
    /\ InitSettled
    /\ UNCHANGED <<recovery, endpoint, ceremony, process, seeded>>

\* Bug: a termination is waited for without a timer.
NoTimer(w) == FALSE

\* terminate() does not settle within terminateTimeoutMs, or it throws.
TerminationFails(w) == process[w] \in {"live", "gone"}

UnwindTimesOut(w) ==
    /\ stage[w] = "unwinding" /\ TerminationFails(w)
    /\ Fault
    /\ To(w, "over")
    /\ InitSettled
    /\ UNCHANGED <<endpoint, ceremony, process, seeded>>
-----------------------------------------------------------------------------
(* Mnemonic ceremonies.                                                    *)

BeginCeremony(w) ==
    /\ Free
    /\ stage[w] = "unused"
    /\ ceremony' = w
    /\ To(w, "starting")
    /\ process' = [process EXCEPT ![w] = "spawning"]
    /\ UNCHANGED <<state, recovery, endpoint, seeded, lockpc, lockOn>>

\* The ceremony's worklet is up and asked to begin.
CeremonySpawned(w) ==
    /\ stage[w] = "starting"
    /\ process' = [process EXCEPT ![w] = "live"]
    /\ To(w, "beginning")
    /\ UNCHANGED <<state, recovery, endpoint, ceremony, seeded, lockpc, lockOn>>

BeginResolves(w) ==
    /\ stage[w] = "beginning" /\ process[w] = "live"
    /\ To(w, "active")
    /\ UNCHANGED <<state, recovery, endpoint, ceremony, process, seeded, lockpc,
                   lockOn>>

\* The catch of beginMnemonicCeremony(): the ceremony is forgotten, then its
\* worklet terminated; one that was never handed over cannot be, which
\* faults the engine.
Forsake(w) ==
    /\ ceremony' = None
    /\ \/ /\ stage[w] = "beginning"
          /\ To(w, "aborting")
          /\ UNCHANGED <<state, recovery>>
       \/ /\ stage[w] = "starting"
          /\ To(w, "late")
          /\ Fault

BeginFails(w) ==
    /\ stage[w] \in {"starting", "beginning"}
    /\ Forsake(w)
    /\ UNCHANGED <<endpoint, process, seeded, lockpc, lockOn>>

CeremonySpawnRejects(w) ==
    /\ stage[w] = "starting"
    /\ Fault
    /\ ceremony' = None
    /\ process' = [process EXCEPT ![w] = "gone"]
    /\ To(w, "over")
    /\ UNCHANGED <<endpoint, seeded, lockpc, lockOn>>

AbortEnds(w) ==
    /\ stage[w] = "aborting"
    /\ \/ Terminated(w) /\ UNCHANGED <<state, recovery>>
       \/ TerminationFails(w) /\ Fault
    /\ To(w, "over")
    /\ UNCHANGED <<endpoint, ceremony, process, seeded, lockpc, lockOn>>

\* finishMnemonicCeremony() consumes the ceremony before it asks the worklet.
Finish(w) ==
    /\ stage[w] = "active" /\ ceremony = w
    /\ To(w, "finishing")
    /\ UNCHANGED <<state, recovery, endpoint, ceremony, process, seeded, lockpc,
                   lockOn>>

\* The worklet answers, fails, or its timer runs out.
FinishSettles(w) ==
    /\ stage[w] = "finishing"
    /\ To(w, "closing")
    /\ UNCHANGED <<state, recovery, endpoint, ceremony, process, seeded, lockpc,
                   lockOn>>

\* The ceremony is over once its worklet is.
CloseEnds(w) ==
    /\ stage[w] = "closing"
    /\ \/ Terminated(w) /\ UNCHANGED <<state, recovery>>
       \/ TerminationFails(w) /\ Fault
    /\ ceremony' = None
    /\ To(w, "over")
    /\ UNCHANGED <<endpoint, process, seeded, lockpc, lockOn>>
-----------------------------------------------------------------------------
(* lock().                                                                 *)

\* Nothing to lock, or no way to.
NothingToLock ==
    /\ Usable => state = "locked" /\ endpoint = None
    /\ lockpc' = "none"
    /\ UNCHANGED <<state, endpoint, stage, lockOn>>

\* An initialization under way is cancelled and waited for.  It takes notice
\* at once if it has its worklet, else when the spawn settles.
CancelInit ==
    /\ Usable /\ state = "initializing"
    /\ state' = "locking"
    /\ lockpc' = "cancel"
    /\ IF endpoint # None
       THEN To(endpoint, "unwinding") /\ endpoint' = None
       ELSE UNCHANGED <<stage, endpoint>>
    /\ UNCHANGED lockOn

\* The open wallet's worklet is detached and asked to dispose.
Detach ==
    /\ Usable /\ state = "ready"
    /\ state' = "locking"
    /\ lockpc' = "dispose"
    /\ lockOn' = endpoint
    /\ endpoint' = None
    /\ To(endpoint, "closed")

\* _lock() after any ceremony has been aborted.
LockBody == NothingToLock \/ CancelInit \/ Detach

Lock ==
    /\ lockpc = "none" /\ ceremony = None
    /\ LockBody
    /\ UNCHANGED <<recovery, ceremony, process, seeded>>

\* _abortMnemonicCeremony()
LockAborts(w) ==
    /\ lockpc = "none" /\ ceremony = w
    /\ lockOn' = w
    /\ \/ /\ stage[w] \in {"starting", "beginning"}
          /\ Forsake(w)
          /\ lockpc' = "abort"
       \/ /\ stage[w] = "active"
          /\ To(w, "finishing")
          /\ lockpc' = "finish"
          /\ UNCHANGED <<state, recovery, ceremony>>
       \/ /\ stage[w] \in {"finishing", "closing"}
          /\ lockpc' = "abort"
          /\ UNCHANGED <<state, recovery, ceremony, stage>>
    /\ UNCHANGED <<endpoint, process, seeded>>

CeremonyAborted ==
    /\ lockpc \in {"abort", "finish"}
    /\ stage[lockOn] \in {"late", "over"}
    /\ LockBody
    /\ UNCHANGED <<recovery, ceremony, process, seeded>>

\* The abort's own timer: lock() rejects.
AbortTimesOut ==
    /\ lockpc = "abort"
    /\ lockpc' = "none"
    /\ UNCHANGED <<state, recovery, endpoint, ceremony, stage, process, seeded,
                   lockOn>>

CancelTimesOut ==
    /\ lockpc = "cancel"
    /\ Fault
    /\ lockpc' = "none"
    /\ UNCHANGED <<endpoint, ceremony, stage, process, seeded, lockOn>>

\* dispose() is acknowledged, fails or times out; either way termination
\* follows.
DisposeSettles ==
    /\ lockpc = "dispose"
    /\ lockpc' = "terminate"
    /\ UNCHANGED <<state, recovery, endpoint, ceremony, stage, process, seeded,
                   lockOn>>

LockTerminates ==
    /\ lockpc = "terminate"
    /\ \/ Terminated(lockOn) /\ state' = "locked" /\ UNCHANGED recovery
       \/ TerminationFails(lockOn) /\ Fault
    /\ lockpc' = "none"
    /\ To(lockOn, "over")
    /\ UNCHANGED <<endpoint, ceremony, process, seeded, lockOn>>

\* A live worklet exits: terminated, crashed or killed.
Exits(w) ==
    /\ process[w] = "live"
    /\ process' = [process EXCEPT ![w] = "gone"]
    /\ UNCHANGED <<state, recovery, endpoint, ceremony, stage, seeded, lockpc,
                   lockOn>>
-----------------------------------------------------------------------------
\* A call under way moves on: its worklet answers or its timer fires.
CallStep(w) ==
    \/ SpawnResolves(w) \/ SpawnRejects(w) \/ SpawnTimesOut(w)
    \/ InitResolves(w) \/ InitFails(w)
    \/ UnwindEnds(w) \/ UnwindTimesOut(w)
    \/ CeremonySpawned(w) \/ CeremonySpawnRejects(w)
    \/ BeginResolves(w) \/ BeginFails(w)
    \/ AbortEnds(w) \/ FinishSettles(w) \/ CloseEnds(w)

LockStep ==
    CeremonyAborted \/ AbortTimesOut \/ CancelTimesOut \/ DisposeSettles
    \/ LockTerminates

Next ==
    \/ \E w \in Worklet :
          \/ Initialize(w) \/ BeginCeremony(w) \/ Finish(w)
          \/ CallStep(w) \/ LockAborts(w)
          \/ LateSpawn(w) \/ Exits(w)
    \/ Lock
    \/ LockStep

Spec == Init /\ [][Next]_vars
-----------------------------------------------------------------------------
(* Properties.                                                             *)

Holding == \E w \in seeded : process[w] = "live"

Engine == INSTANCE IdealEngine WITH held <- Holding

\* The engine has the life cycle the wallet service assumes; in particular
\* "locked" means that no live worklet holds the seed, whatever lock(), a
\* ceremony and a failing initialization do to each other.
ImplementsEngine == Engine!Spec

\* The wallet that is open is the one worklet the engine knows of: no other
\* live worklet holds the seed while it is usable.
OneWallet ==
    Usable => \A w \in seeded :
        process[w] = "live" => w = endpoint \/ w = lockOn \/ stage[w] = "unwinding"

\* After a termination that was not confirmed nothing is raised any more,
\* although a lock() that ends later sets the state back to "locked"; only
\* _recoveryRequired remembers.
FaultIsFinal ==
    [][recovery => \A w \in Worklet : process[w] = "none" => process'[w] = "none"]_vars

\* A ceremony is registered only while no wallet is open, opening or being
\* locked.  (One that failed to begin is forgotten before its worklet has been
\* terminated, and may still be "aborting" beside a wallet.)
CeremonyWhileLocked ==
    \A w \in Worklet : stage[w] \in Registered =>
        /\ ceremony = w
        /\ endpoint = None
        /\ \A v \in Worklet : stage[v] \notin WalletStages

\* Where a call waits for its worklet: to come up, to answer or to exit.
Waiting == {"spawning", "initializing", "unwinding", "starting", "beginning",
            "aborting", "finishing", "closing"}

\* Every wait of the engine ends, however often lock() is called and whatever
\* calls cancel one another, although a worklet may never come up, answer or
\* exit: again and again no lock() is under way and no call waits for a worklet.
WaitsEnd ==
    []<>/\ lockpc = "none"
        /\ \A w \in Worklet : stage[w] \notin Waiting
=============================================================================
