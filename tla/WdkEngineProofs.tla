-------------------------- MODULE WdkEngineProofs --------------------------
(***************************************************************************)
(* Proofs about the engine's life cycle (WdkEngine.tla), for any number of *)
(* worklets.                                                               *)
(***************************************************************************)
EXTENDS WalletVault, TLAPS

\* One call of initialize(), or the wallet it opened, at a time; the engine's
\* endpoint is its worklet while it initializes or is open.
OneCall ==
    /\ \A v, w \in Worklet :
          stage[v] \in WalletStages /\ stage[w] \in WalletStages => v = w
    /\ \A w \in Worklet : endpoint = w <=> stage[w] \in {"initializing", "ready"}
    /\ \A w \in Worklet : stage[w] = "unused" <=> process[w] = "none"

\* A worklet with the seed that outlives its call was not confirmed dead.
Unconfirmed ==
    \A w \in seeded :
        /\ stage[w] \in {"initializing", "unwinding", "ready", "closed", "over"}
        /\ stage[w] = "over" /\ process[w] = "live"
              => recovery /\ lockpc \notin {"dispose", "terminate"}

\* What the state says of the calls.
StateShape ==
    /\ state = "faulted" => recovery
    /\ state = "locked" /\ ~recovery
          => \A w \in Worklet : stage[w] \notin WalletStages
    /\ state = "ready" => endpoint # None /\ stage[endpoint] = "ready"
    /\ ~recovery => \A w \in Worklet :
          stage[w] \in {"spawning", "initializing", "unwinding"}
              => state \in {"initializing", "locking"}

\* What lock() waits for.
LockShape ==
    /\ \A w \in Worklet : stage[w] = "closed"
          => lockpc \in {"dispose", "terminate"} /\ lockOn = w
    /\ lockpc \in {"dispose", "terminate"}
          => /\ lockOn \in Worklet /\ stage[lockOn] = "closed"
             /\ state \in {"locking", "faulted"}
    /\ lockpc \in {"abort", "finish"} => lockOn \in Worklet

EngineInv == TypeOK /\ OneCall /\ Unconfirmed /\ StateShape /\ LockShape
-----------------------------------------------------------------------------
LEMMA NextCases ==
    ASSUME NEW P, [Next]_vars,
           ASSUME NEW w \in Worklet,
                  \/ Initialize(w) \/ BeginCeremony(w) \/ Finish(w)
                  \/ SpawnResolves(w) \/ SpawnRejects(w) \/ SpawnTimesOut(w)
                  \/ InitResolves(w) \/ InitFails(w)
                  \/ UnwindEnds(w) \/ UnwindTimesOut(w)
                  \/ CeremonySpawned(w) \/ CeremonySpawnRejects(w)
                  \/ BeginResolves(w) \/ BeginFails(w)
                  \/ AbortEnds(w) \/ FinishSettles(w) \/ CloseEnds(w)
                  \/ LockAborts(w) \/ LateSpawn(w) \/ Exits(w)
           PROVE  P,
           Lock => P, CeremonyAborted => P, AbortTimesOut => P,
           CancelTimesOut => P, DisposeSettles => P, LockTerminates => P,
           UNCHANGED vars => P
    PROVE  P
  BY DEF Next, CallStep, LockStep

LEMMA TypeNext == TypeOK /\ LockShape /\ [Next]_vars => TypeOK'
  <1> SUFFICES ASSUME TypeOK, LockShape, [Next]_vars PROVE TypeOK'
    OBVIOUS
  <1> USE DEF TypeOK, Stages, WalletStages, CeremonyStages, States, To, Fault,
              InitSettled, Forsake
  <1>1. ASSUME NEW w \in Worklet, Initialize(w) PROVE TypeOK'
    BY <1>1 DEF Initialize
  <1>2. ASSUME NEW w \in Worklet, BeginCeremony(w) PROVE TypeOK'
    BY <1>2 DEF BeginCeremony
  <1>3. ASSUME NEW w \in Worklet, Finish(w) PROVE TypeOK'
    BY <1>3 DEF Finish
  <1>4. ASSUME NEW w \in Worklet, SpawnResolves(w) PROVE TypeOK'
    BY <1>4 DEF SpawnResolves
  <1>5. ASSUME NEW w \in Worklet, SpawnRejects(w) \/ SpawnTimesOut(w) PROVE TypeOK'
    BY <1>5 DEF SpawnRejects, SpawnTimesOut
  <1>6. ASSUME NEW w \in Worklet, InitResolves(w) \/ InitFails(w) PROVE TypeOK'
    BY <1>6 DEF InitResolves, InitFails
  <1>7. ASSUME NEW w \in Worklet, UnwindEnds(w) \/ UnwindTimesOut(w) PROVE TypeOK'
    BY <1>7 DEF UnwindEnds, UnwindTimesOut
  <1>8. ASSUME NEW w \in Worklet, CeremonySpawned(w) \/ CeremonySpawnRejects(w)
        PROVE  TypeOK'
    BY <1>8 DEF CeremonySpawned, CeremonySpawnRejects
  <1>9. ASSUME NEW w \in Worklet, BeginResolves(w) \/ BeginFails(w) PROVE TypeOK'
    BY <1>9 DEF BeginResolves, BeginFails
  <1>10. ASSUME NEW w \in Worklet, AbortEnds(w) \/ FinishSettles(w) \/ CloseEnds(w)
         PROVE  TypeOK'
    BY <1>10 DEF AbortEnds, FinishSettles, CloseEnds
  <1>11. ASSUME NEW w \in Worklet, LockAborts(w) PROVE TypeOK'
    BY <1>11 DEF LockAborts
  <1>12. ASSUME NEW w \in Worklet, LateSpawn(w) \/ Exits(w) PROVE TypeOK'
    BY <1>12 DEF LateSpawn, Exits
  <1>13. ASSUME LockBody, UNCHANGED <<recovery, ceremony, process, seeded>>
         PROVE  TypeOK'
    BY <1>13 DEF LockBody, NothingToLock, CancelInit, Detach
  <1>14. CASE LockTerminates
    BY <1>14 DEF LockTerminates, LockShape
  <1>15. CASE AbortTimesOut \/ CancelTimesOut \/ DisposeSettles \/ UNCHANGED vars
    BY <1>15 DEF AbortTimesOut, CancelTimesOut, DisposeSettles, vars
  <1>16. Lock \/ CeremonyAborted => TypeOK'
    BY <1>13 DEF Lock, CeremonyAborted
  <1> QED
    BY NextCases, <1>1, <1>2, <1>3, <1>4, <1>5, <1>6, <1>7, <1>8, <1>9, <1>10,
       <1>11, <1>12, <1>14, <1>15, <1>16
-----------------------------------------------------------------------------
LEMMA OneCallNext ==
    EngineInv /\ TypeOK' /\ [Next]_vars => OneCall'
  <1> SUFFICES ASSUME TypeOK, OneCall, StateShape, LockShape, TypeOK', [Next]_vars PROVE OneCall'
    BY DEF EngineInv
  <1> USE EngineAssumption DEF TypeOK, OneCall, StateShape, LockShape,
              WalletStages, CeremonyStages, To, Fault, InitSettled
  <1>1. ASSUME NEW w \in Worklet, Initialize(w)
        PROVE  OneCall'
    BY <1>1 DEF Initialize, Free, Usable
  <1>2. ASSUME NEW w \in Worklet, BeginCeremony(w)
        PROVE  OneCall'
    BY <1>2 DEF BeginCeremony, Free, Usable
  <1>3. ASSUME NEW w \in Worklet, Finish(w) \/ FinishSettles(w)
        PROVE  OneCall'
    BY <1>3 DEF Finish, FinishSettles
  <1>4. ASSUME NEW w \in Worklet, SpawnResolves(w)
        PROVE  OneCall'
    BY <1>4 DEF SpawnResolves
  <1>5. ASSUME NEW w \in Worklet, SpawnRejects(w)
        PROVE  OneCall'
    BY <1>5 DEF SpawnRejects
  <1>6. ASSUME NEW w \in Worklet, SpawnTimesOut(w)
        PROVE  OneCall'
    BY <1>6 DEF SpawnTimesOut
  <1>7. ASSUME NEW w \in Worklet, InitResolves(w)
        PROVE  OneCall'
    BY <1>7 DEF InitResolves
  <1>8. ASSUME NEW w \in Worklet, InitFails(w)
        PROVE  OneCall'
    BY <1>8 DEF InitFails
  <1>9. ASSUME NEW w \in Worklet, UnwindEnds(w)
        PROVE  OneCall'
    BY <1>9 DEF UnwindEnds, Terminated
  <1>10. ASSUME NEW w \in Worklet, UnwindTimesOut(w)
        PROVE  OneCall'
    BY <1>10 DEF UnwindTimesOut, TerminationFails
  <1>11. ASSUME NEW w \in Worklet, CeremonySpawned(w) \/ BeginResolves(w)
        PROVE  OneCall'
    BY <1>11 DEF CeremonySpawned, BeginResolves
  <1>12. ASSUME NEW w \in Worklet, CeremonySpawnRejects(w)
        PROVE  OneCall'
    BY <1>12 DEF CeremonySpawnRejects
  <1>13. ASSUME NEW w \in Worklet, BeginFails(w)
        PROVE  OneCall'
    BY <1>13 DEF BeginFails, Forsake
  <1>14. ASSUME NEW w \in Worklet, AbortEnds(w) \/ CloseEnds(w)
        PROVE  OneCall'
    BY <1>14 DEF AbortEnds, CloseEnds
  <1>15. ASSUME NEW w \in Worklet, LockAborts(w)
        PROVE  OneCall'
    BY <1>15 DEF LockAborts, Forsake
  <1>16. ASSUME NEW w \in Worklet, LateSpawn(w) \/ Exits(w)
        PROVE  OneCall'
    BY <1>16 DEF LateSpawn, Exits
  <1>17. ASSUME NothingToLock, lockpc \in {"none", "abort", "finish"},
               UNCHANGED <<recovery, ceremony, process, seeded>>
        PROVE  OneCall'
    BY <1>17 DEF NothingToLock
  <1>18. ASSUME CancelInit, lockpc \in {"none", "abort", "finish"},
               UNCHANGED <<recovery, ceremony, process, seeded>>
        PROVE  OneCall'
    BY <1>18 DEF CancelInit
  <1>19. ASSUME Detach, lockpc \in {"none", "abort", "finish"},
               UNCHANGED <<recovery, ceremony, process, seeded>>
        PROVE  OneCall'
    BY <1>19 DEF Detach, Usable
  <1>20. CASE LockTerminates
    BY <1>20 DEF LockTerminates, Terminated
  <1>21. CASE AbortTimesOut \/ DisposeSettles
    BY <1>21 DEF AbortTimesOut, DisposeSettles
  <1>22. CASE CancelTimesOut
    BY <1>22 DEF CancelTimesOut
  <1>23. CASE UNCHANGED vars
    BY <1>23 DEF vars
  <1>24. Lock \/ CeremonyAborted => OneCall'
    BY <1>17, <1>18, <1>19 DEF Lock, CeremonyAborted, LockBody
  <1> QED
    BY NextCases, <1>1, <1>2, <1>3, <1>4, <1>5, <1>6, <1>7, <1>8, <1>9,
       <1>10, <1>11, <1>12, <1>13, <1>14, <1>15, <1>16, <1>20, <1>21, <1>22,
       <1>23, <1>24

LEMMA UnconfirmedNext ==
    EngineInv /\ TypeOK' /\ [Next]_vars => Unconfirmed'
  <1> SUFFICES ASSUME EngineInv, TypeOK', [Next]_vars PROVE Unconfirmed'
    BY DEF EngineInv
  <1> USE EngineAssumption DEF EngineInv, TypeOK, OneCall, Unconfirmed,
              StateShape, LockShape, WalletStages, CeremonyStages, To, Fault,
              InitSettled
  <1>1. ASSUME NEW w \in Worklet, Initialize(w)
        PROVE  Unconfirmed'
    BY <1>1 DEF Initialize, Free, Usable
  <1>2. ASSUME NEW w \in Worklet, BeginCeremony(w)
        PROVE  Unconfirmed'
    BY <1>2 DEF BeginCeremony, Free, Usable
  <1>3. ASSUME NEW w \in Worklet, Finish(w) \/ FinishSettles(w)
        PROVE  Unconfirmed'
    BY <1>3 DEF Finish, FinishSettles
  <1>4. ASSUME NEW w \in Worklet, SpawnResolves(w)
        PROVE  Unconfirmed'
    BY <1>4 DEF SpawnResolves
  <1>5. ASSUME NEW w \in Worklet, SpawnRejects(w)
        PROVE  Unconfirmed'
    BY <1>5 DEF SpawnRejects
  <1>6. ASSUME NEW w \in Worklet, SpawnTimesOut(w)
        PROVE  Unconfirmed'
    BY <1>6 DEF SpawnTimesOut
  <1>7. ASSUME NEW w \in Worklet, InitResolves(w)
        PROVE  Unconfirmed'
    BY <1>7 DEF InitResolves
  <1>8. ASSUME NEW w \in Worklet, InitFails(w)
        PROVE  Unconfirmed'
    BY <1>8 DEF InitFails
  <1>9. ASSUME NEW w \in Worklet, UnwindEnds(w)
        PROVE  Unconfirmed'
    BY <1>9 DEF UnwindEnds, Terminated
  <1>10. ASSUME NEW w \in Worklet, UnwindTimesOut(w)
        PROVE  Unconfirmed'
    BY <1>10 DEF UnwindTimesOut, TerminationFails
  <1>11. ASSUME NEW w \in Worklet, CeremonySpawned(w) \/ BeginResolves(w)
        PROVE  Unconfirmed'
    BY <1>11 DEF CeremonySpawned, BeginResolves
  <1>12. ASSUME NEW w \in Worklet, CeremonySpawnRejects(w)
        PROVE  Unconfirmed'
    BY <1>12 DEF CeremonySpawnRejects
  <1>13. ASSUME NEW w \in Worklet, BeginFails(w)
        PROVE  Unconfirmed'
    BY <1>13 DEF BeginFails, Forsake
  <1>14. ASSUME NEW w \in Worklet, AbortEnds(w) \/ CloseEnds(w)
        PROVE  Unconfirmed'
    BY <1>14 DEF AbortEnds, CloseEnds
  <1>15. ASSUME NEW w \in Worklet, LockAborts(w)
        PROVE  Unconfirmed'
    BY <1>15 DEF LockAborts, Forsake
  <1>16. ASSUME NEW w \in Worklet, LateSpawn(w) \/ Exits(w)
        PROVE  Unconfirmed'
    BY <1>16 DEF LateSpawn, Exits
  <1>17. ASSUME NothingToLock, lockpc \in {"none", "abort", "finish"},
               UNCHANGED <<recovery, ceremony, process, seeded>>
        PROVE  Unconfirmed'
    BY <1>17 DEF NothingToLock
  <1>18. ASSUME CancelInit, lockpc \in {"none", "abort", "finish"},
               UNCHANGED <<recovery, ceremony, process, seeded>>
        PROVE  Unconfirmed'
    BY <1>18 DEF CancelInit
  <1>19. ASSUME Detach, lockpc \in {"none", "abort", "finish"},
               UNCHANGED <<recovery, ceremony, process, seeded>>
        PROVE  Unconfirmed'
    BY <1>19 DEF Detach, Usable
  <1>20. CASE LockTerminates
    BY <1>20 DEF LockTerminates, Terminated
  <1>21. CASE AbortTimesOut \/ DisposeSettles
    BY <1>21 DEF AbortTimesOut, DisposeSettles
  <1>22. CASE CancelTimesOut
    BY <1>22 DEF CancelTimesOut
  <1>23. CASE UNCHANGED vars
    BY <1>23 DEF vars
  <1>24. Lock \/ CeremonyAborted => Unconfirmed'
    BY <1>17, <1>18, <1>19 DEF Lock, CeremonyAborted, LockBody
  <1> QED
    BY NextCases, <1>1, <1>2, <1>3, <1>4, <1>5, <1>6, <1>7, <1>8, <1>9,
       <1>10, <1>11, <1>12, <1>13, <1>14, <1>15, <1>16, <1>20, <1>21, <1>22,
       <1>23, <1>24

LEMMA StateShapeNext ==
    EngineInv /\ TypeOK' /\ [Next]_vars => StateShape'
  <1> SUFFICES ASSUME TypeOK, OneCall, StateShape, LockShape, TypeOK', [Next]_vars PROVE StateShape'
    BY DEF EngineInv
  <1> USE EngineAssumption DEF TypeOK, OneCall, StateShape, LockShape,
              WalletStages, CeremonyStages, To, Fault, InitSettled
  <1>1. ASSUME NEW w \in Worklet, Initialize(w)
        PROVE  StateShape'
    BY <1>1 DEF Initialize, Free, Usable
  <1>2. ASSUME NEW w \in Worklet, BeginCeremony(w)
        PROVE  StateShape'
    BY <1>2 DEF BeginCeremony, Free, Usable
  <1>3. ASSUME NEW w \in Worklet, Finish(w) \/ FinishSettles(w)
        PROVE  StateShape'
    BY <1>3 DEF Finish, FinishSettles
  <1>4. ASSUME NEW w \in Worklet, SpawnResolves(w)
        PROVE  StateShape'
    BY <1>4 DEF SpawnResolves
  <1>5. ASSUME NEW w \in Worklet, SpawnRejects(w)
        PROVE  StateShape'
    BY <1>5 DEF SpawnRejects
  <1>6. ASSUME NEW w \in Worklet, SpawnTimesOut(w)
        PROVE  StateShape'
    BY <1>6 DEF SpawnTimesOut
  <1>7. ASSUME NEW w \in Worklet, InitResolves(w)
        PROVE  StateShape'
    BY <1>7 DEF InitResolves
  <1>8. ASSUME NEW w \in Worklet, InitFails(w)
        PROVE  StateShape'
    BY <1>8 DEF InitFails
  <1>9. ASSUME NEW w \in Worklet, UnwindEnds(w)
        PROVE  StateShape'
    BY <1>9 DEF UnwindEnds, Terminated
  <1>10. ASSUME NEW w \in Worklet, UnwindTimesOut(w)
        PROVE  StateShape'
    BY <1>10 DEF UnwindTimesOut, TerminationFails
  <1>11. ASSUME NEW w \in Worklet, CeremonySpawned(w) \/ BeginResolves(w)
        PROVE  StateShape'
    BY <1>11 DEF CeremonySpawned, BeginResolves
  <1>12. ASSUME NEW w \in Worklet, CeremonySpawnRejects(w)
        PROVE  StateShape'
    BY <1>12 DEF CeremonySpawnRejects
  <1>13. ASSUME NEW w \in Worklet, BeginFails(w)
        PROVE  StateShape'
    BY <1>13 DEF BeginFails, Forsake
  <1>14. ASSUME NEW w \in Worklet, AbortEnds(w) \/ CloseEnds(w)
        PROVE  StateShape'
    BY <1>14 DEF AbortEnds, CloseEnds
  <1>15. ASSUME NEW w \in Worklet, LockAborts(w)
        PROVE  StateShape'
    BY <1>15 DEF LockAborts, Forsake
  <1>16. ASSUME NEW w \in Worklet, LateSpawn(w) \/ Exits(w)
        PROVE  StateShape'
    BY <1>16 DEF LateSpawn, Exits
  <1>17. ASSUME NothingToLock, lockpc \in {"none", "abort", "finish"},
               UNCHANGED <<recovery, ceremony, process, seeded>>
        PROVE  StateShape'
    BY <1>17 DEF NothingToLock
  <1>18. ASSUME CancelInit, lockpc \in {"none", "abort", "finish"},
               UNCHANGED <<recovery, ceremony, process, seeded>>
        PROVE  StateShape'
    BY <1>18 DEF CancelInit
  <1>19. ASSUME Detach, lockpc \in {"none", "abort", "finish"},
               UNCHANGED <<recovery, ceremony, process, seeded>>
        PROVE  StateShape'
    BY <1>19 DEF Detach, Usable
  <1>20. CASE LockTerminates
    BY <1>20 DEF LockTerminates, Terminated
  <1>21. CASE AbortTimesOut \/ DisposeSettles
    BY <1>21 DEF AbortTimesOut, DisposeSettles
  <1>22. CASE CancelTimesOut
    BY <1>22 DEF CancelTimesOut
  <1>23. CASE UNCHANGED vars
    BY <1>23 DEF vars
  <1>24. Lock \/ CeremonyAborted => StateShape'
    BY <1>17, <1>18, <1>19 DEF Lock, CeremonyAborted, LockBody
  <1> QED
    BY NextCases, <1>1, <1>2, <1>3, <1>4, <1>5, <1>6, <1>7, <1>8, <1>9,
       <1>10, <1>11, <1>12, <1>13, <1>14, <1>15, <1>16, <1>20, <1>21, <1>22,
       <1>23, <1>24

LEMMA LockShapeNext ==
    EngineInv /\ TypeOK' /\ [Next]_vars => LockShape'
  <1> SUFFICES ASSUME TypeOK, OneCall, StateShape, LockShape, TypeOK', [Next]_vars PROVE LockShape'
    BY DEF EngineInv
  <1> USE EngineAssumption DEF TypeOK, OneCall, StateShape, LockShape,
              WalletStages, CeremonyStages, To, Fault, InitSettled
  <1>1. ASSUME NEW w \in Worklet, Initialize(w)
        PROVE  LockShape'
    BY <1>1 DEF Initialize, Free, Usable
  <1>2. ASSUME NEW w \in Worklet, BeginCeremony(w)
        PROVE  LockShape'
    BY <1>2 DEF BeginCeremony, Free, Usable
  <1>3. ASSUME NEW w \in Worklet, Finish(w) \/ FinishSettles(w)
        PROVE  LockShape'
    BY <1>3 DEF Finish, FinishSettles
  <1>4. ASSUME NEW w \in Worklet, SpawnResolves(w)
        PROVE  LockShape'
    BY <1>4 DEF SpawnResolves
  <1>5. ASSUME NEW w \in Worklet, SpawnRejects(w)
        PROVE  LockShape'
    BY <1>5 DEF SpawnRejects
  <1>6. ASSUME NEW w \in Worklet, SpawnTimesOut(w)
        PROVE  LockShape'
    BY <1>6 DEF SpawnTimesOut
  <1>7. ASSUME NEW w \in Worklet, InitResolves(w)
        PROVE  LockShape'
    BY <1>7 DEF InitResolves
  <1>8. ASSUME NEW w \in Worklet, InitFails(w)
        PROVE  LockShape'
    BY <1>8 DEF InitFails
  <1>9. ASSUME NEW w \in Worklet, UnwindEnds(w)
        PROVE  LockShape'
    BY <1>9 DEF UnwindEnds, Terminated
  <1>10. ASSUME NEW w \in Worklet, UnwindTimesOut(w)
        PROVE  LockShape'
    BY <1>10 DEF UnwindTimesOut, TerminationFails
  <1>11. ASSUME NEW w \in Worklet, CeremonySpawned(w) \/ BeginResolves(w)
        PROVE  LockShape'
    BY <1>11 DEF CeremonySpawned, BeginResolves
  <1>12. ASSUME NEW w \in Worklet, CeremonySpawnRejects(w)
        PROVE  LockShape'
    BY <1>12 DEF CeremonySpawnRejects
  <1>13. ASSUME NEW w \in Worklet, BeginFails(w)
        PROVE  LockShape'
    BY <1>13 DEF BeginFails, Forsake
  <1>14. ASSUME NEW w \in Worklet, AbortEnds(w) \/ CloseEnds(w)
        PROVE  LockShape'
    BY <1>14 DEF AbortEnds, CloseEnds
  <1>15. ASSUME NEW w \in Worklet, LockAborts(w)
        PROVE  LockShape'
    BY <1>15 DEF LockAborts, Forsake
  <1>16. ASSUME NEW w \in Worklet, LateSpawn(w) \/ Exits(w)
        PROVE  LockShape'
    BY <1>16 DEF LateSpawn, Exits
  <1>17. ASSUME NothingToLock, lockpc \in {"none", "abort", "finish"},
               UNCHANGED <<recovery, ceremony, process, seeded>>
        PROVE  LockShape'
    BY <1>17 DEF NothingToLock
  <1>18. ASSUME CancelInit, lockpc \in {"none", "abort", "finish"},
               UNCHANGED <<recovery, ceremony, process, seeded>>
        PROVE  LockShape'
    BY <1>18 DEF CancelInit
  <1>19. ASSUME Detach, lockpc \in {"none", "abort", "finish"},
               UNCHANGED <<recovery, ceremony, process, seeded>>
        PROVE  LockShape'
    BY <1>19 DEF Detach, Usable
  <1>20. CASE LockTerminates
    BY <1>20 DEF LockTerminates, Terminated
  <1>21. CASE AbortTimesOut \/ DisposeSettles
    BY <1>21 DEF AbortTimesOut, DisposeSettles
  <1>22. CASE CancelTimesOut
    BY <1>22 DEF CancelTimesOut
  <1>23. CASE UNCHANGED vars
    BY <1>23 DEF vars
  <1>24. Lock \/ CeremonyAborted => LockShape'
    BY <1>17, <1>18, <1>19 DEF Lock, CeremonyAborted, LockBody
  <1> QED
    BY NextCases, <1>1, <1>2, <1>3, <1>4, <1>5, <1>6, <1>7, <1>8, <1>9,
       <1>10, <1>11, <1>12, <1>13, <1>14, <1>15, <1>16, <1>20, <1>21, <1>22,
       <1>23, <1>24

LEMMA EngineInvInit == Init => EngineInv
  BY EngineAssumption DEF Init, EngineInv, TypeOK, OneCall, Unconfirmed,
     StateShape, LockShape, Stages, WalletStages, CeremonyStages, States

LEMMA EngineInvNext == EngineInv /\ [Next]_vars => EngineInv'
  <1> SUFFICES ASSUME EngineInv, [Next]_vars PROVE EngineInv'
    OBVIOUS
  <1>1. TypeOK'
    BY TypeNext DEF EngineInv
  <1> QED
    BY <1>1, OneCallNext, UnconfirmedNext, StateShapeNext, LockShapeNext
       DEF EngineInv

LEMMA EngineInvAlways == Spec => []EngineInv
  BY EngineInvInit, EngineInvNext, PTL DEF Spec

-----------------------------------------------------------------------------
LEMMA CeremonyNext ==
    EngineInv /\ CeremonyWhileLocked /\ [Next]_vars => CeremonyWhileLocked'
  <1> SUFFICES ASSUME TypeOK, OneCall, StateShape, LockShape, CeremonyWhileLocked, [Next]_vars
               PROVE  CeremonyWhileLocked'
    BY DEF EngineInv
  <1> USE EngineAssumption DEF TypeOK, OneCall, StateShape, LockShape,
              WalletStages, CeremonyStages, Registered, To, Fault, InitSettled,
              CeremonyWhileLocked
  <1>1. ASSUME NEW w \in Worklet, Initialize(w)
        PROVE  CeremonyWhileLocked'
    BY <1>1 DEF Initialize, Free, Usable
  <1>2. ASSUME NEW w \in Worklet, BeginCeremony(w)
        PROVE  CeremonyWhileLocked'
    BY <1>2 DEF BeginCeremony, Free, Usable
  <1>3. ASSUME NEW w \in Worklet, Finish(w) \/ FinishSettles(w)
        PROVE  CeremonyWhileLocked'
    BY <1>3 DEF Finish, FinishSettles
  <1>4. ASSUME NEW w \in Worklet, SpawnResolves(w)
        PROVE  CeremonyWhileLocked'
    BY <1>4 DEF SpawnResolves
  <1>5. ASSUME NEW w \in Worklet, SpawnRejects(w)
        PROVE  CeremonyWhileLocked'
    BY <1>5 DEF SpawnRejects
  <1>6. ASSUME NEW w \in Worklet, SpawnTimesOut(w)
        PROVE  CeremonyWhileLocked'
    BY <1>6 DEF SpawnTimesOut
  <1>7. ASSUME NEW w \in Worklet, InitResolves(w)
        PROVE  CeremonyWhileLocked'
    BY <1>7 DEF InitResolves
  <1>8. ASSUME NEW w \in Worklet, InitFails(w)
        PROVE  CeremonyWhileLocked'
    BY <1>8 DEF InitFails
  <1>9. ASSUME NEW w \in Worklet, UnwindEnds(w)
        PROVE  CeremonyWhileLocked'
    BY <1>9 DEF UnwindEnds, Terminated
  <1>10. ASSUME NEW w \in Worklet, UnwindTimesOut(w)
        PROVE  CeremonyWhileLocked'
    BY <1>10 DEF UnwindTimesOut, TerminationFails
  <1>11. ASSUME NEW w \in Worklet, CeremonySpawned(w) \/ BeginResolves(w)
        PROVE  CeremonyWhileLocked'
    BY <1>11 DEF CeremonySpawned, BeginResolves
  <1>12. ASSUME NEW w \in Worklet, CeremonySpawnRejects(w)
        PROVE  CeremonyWhileLocked'
    BY <1>12 DEF CeremonySpawnRejects
  <1>13. ASSUME NEW w \in Worklet, BeginFails(w)
        PROVE  CeremonyWhileLocked'
    BY <1>13 DEF BeginFails, Forsake
  <1>14. ASSUME NEW w \in Worklet, AbortEnds(w) \/ CloseEnds(w)
        PROVE  CeremonyWhileLocked'
    BY <1>14 DEF AbortEnds, CloseEnds
  <1>15. ASSUME NEW w \in Worklet, LockAborts(w)
        PROVE  CeremonyWhileLocked'
    BY <1>15 DEF LockAborts, Forsake
  <1>16. ASSUME NEW w \in Worklet, LateSpawn(w) \/ Exits(w)
        PROVE  CeremonyWhileLocked'
    BY <1>16 DEF LateSpawn, Exits
  <1>17. ASSUME NothingToLock, lockpc \in {"none", "abort", "finish"},
               UNCHANGED <<recovery, ceremony, process, seeded>>
        PROVE  CeremonyWhileLocked'
    BY <1>17 DEF NothingToLock
  <1>18. ASSUME CancelInit, lockpc \in {"none", "abort", "finish"},
               UNCHANGED <<recovery, ceremony, process, seeded>>
        PROVE  CeremonyWhileLocked'
    BY <1>18 DEF CancelInit
  <1>19. ASSUME Detach, lockpc \in {"none", "abort", "finish"},
               UNCHANGED <<recovery, ceremony, process, seeded>>
        PROVE  CeremonyWhileLocked'
    BY <1>19 DEF Detach, Usable
  <1>20. CASE LockTerminates
    BY <1>20 DEF LockTerminates, Terminated
  <1>21. CASE AbortTimesOut \/ DisposeSettles
    BY <1>21 DEF AbortTimesOut, DisposeSettles
  <1>22. CASE CancelTimesOut
    BY <1>22 DEF CancelTimesOut
  <1>23. CASE UNCHANGED vars
    BY <1>23 DEF vars
  <1>24. Lock \/ CeremonyAborted => CeremonyWhileLocked'
    BY <1>17, <1>18, <1>19 DEF Lock, CeremonyAborted, LockBody
  <1> QED
    BY NextCases, <1>1, <1>2, <1>3, <1>4, <1>5, <1>6, <1>7, <1>8, <1>9,
       <1>10, <1>11, <1>12, <1>13, <1>14, <1>15, <1>16, <1>20, <1>21, <1>22,
       <1>23, <1>24

\* The engine's variables keep their types through every timer and exit.
THEOREM TypeCorrect == Spec => []TypeOK
  <1>1. EngineInv => TypeOK
    BY DEF EngineInv
  <1> QED  BY <1>1, EngineInvAlways, PTL

\* A usable engine knows of every live worklet that holds the seed.
THEOREM WalletCorrect == Spec => []OneWallet
  <1>1. EngineInv => OneWallet
    <2> SUFFICES ASSUME EngineInv, Usable, NEW w \in seeded, process[w] = "live"
                 PROVE  w = endpoint \/ w = lockOn \/ stage[w] = "unwinding"
      BY DEF OneWallet
    <2>1. w \in Worklet
      BY DEF EngineInv, TypeOK
    <2>2. stage[w] \in {"initializing", "unwinding", "ready", "closed"}
      BY DEF EngineInv, Unconfirmed, Usable
    <2> QED  BY <2>1, <2>2 DEF EngineInv, OneCall, LockShape
  <1> QED  BY <1>1, EngineInvAlways, PTL

\* A ceremony is registered only while no wallet is open, opening or being
\* locked.
THEOREM CeremonyCorrect == Spec => []CeremonyWhileLocked
  <1>1. Init => CeremonyWhileLocked
    BY DEF Init, CeremonyWhileLocked, Registered, CeremonyStages
  <1> QED  BY <1>1, CeremonyNext, EngineInvAlways, PTL DEF Spec

\* Once a termination was not confirmed, no worklet is raised any more.
THEOREM FaultCorrect == Spec => FaultIsFinal
  <1>1. ASSUME EngineInv, [Next]_vars
        PROVE  [recovery => \A w \in Worklet :
                   process[w] = "none" => process'[w] = "none"]_vars
    <2> DEFINE P == recovery => \A w \in Worklet :
                       process[w] = "none" => process'[w] = "none"
    <2>1. ASSUME NEW w \in Worklet,
                 \/ Initialize(w) \/ BeginCeremony(w)
                 \/ SpawnResolves(w) \/ SpawnRejects(w) \/ CeremonySpawned(w)
                 \/ CeremonySpawnRejects(w) \/ LateSpawn(w) \/ Exits(w)
          PROVE  P
      BY <1>1, <2>1 DEF EngineInv, OneCall, TypeOK, Initialize, BeginCeremony,
         Free, Usable, SpawnResolves, SpawnRejects, CeremonySpawned,
         CeremonySpawnRejects, LateSpawn, Exits
    <2>2. ASSUME NEW w \in Worklet,
                 \/ Finish(w) \/ SpawnTimesOut(w) \/ InitResolves(w)
                 \/ InitFails(w) \/ UnwindEnds(w) \/ UnwindTimesOut(w)
                 \/ BeginResolves(w) \/ BeginFails(w) \/ AbortEnds(w)
                 \/ FinishSettles(w) \/ CloseEnds(w) \/ LockAborts(w)
          PROVE  P
      BY <2>2 DEF Finish, SpawnTimesOut, InitResolves, InitFails, UnwindEnds,
         UnwindTimesOut, BeginResolves, BeginFails, AbortEnds, FinishSettles,
         CloseEnds, LockAborts
    <2>3. /\ Lock => P
          /\ CeremonyAborted => P
          /\ AbortTimesOut => P
          /\ CancelTimesOut => P
          /\ DisposeSettles => P
          /\ LockTerminates => P
          /\ UNCHANGED vars => P
      BY DEF Lock, CeremonyAborted, AbortTimesOut, CancelTimesOut,
         DisposeSettles, LockTerminates, vars
    <2>4. ASSUME NEW w \in Worklet,
                 \/ Initialize(w) \/ BeginCeremony(w) \/ Finish(w)
                 \/ SpawnResolves(w) \/ SpawnRejects(w) \/ SpawnTimesOut(w)
                 \/ InitResolves(w) \/ InitFails(w)
                 \/ UnwindEnds(w) \/ UnwindTimesOut(w)
                 \/ CeremonySpawned(w) \/ CeremonySpawnRejects(w)
                 \/ BeginResolves(w) \/ BeginFails(w)
                 \/ AbortEnds(w) \/ FinishSettles(w) \/ CloseEnds(w)
                 \/ LockAborts(w) \/ LateSpawn(w) \/ Exits(w)
          PROVE  P
      BY <2>1, <2>2, <2>4
    <2>5. P
      BY <1>1, <2>3, <2>4, NextCases
    <2> QED  BY <2>5
  <1> QED  BY <1>1, EngineInvAlways, PTL DEF Spec, FaultIsFinal
-----------------------------------------------------------------------------
(* Refinement.                                                             *)

\* Whoever sets the state to "locked" leaves no live worklet with the seed.
LEMMA SeedGone ==
    ASSUME EngineInv, NEW w \in Worklet, process[w] = "gone",
           \/ stage[w] \in {"spawning", "unwinding"} /\ ~recovery
           \/ lockpc = "terminate" /\ w = lockOn
    PROVE  ~Holding
  <1> SUFFICES ASSUME NEW v \in seeded, process[v] = "live" PROVE FALSE
    BY DEF Holding
  <1>1. v \in Worklet
    BY DEF EngineInv, TypeOK
  <1>2. stage[w] \in WalletStages
    BY DEF EngineInv, LockShape, WalletStages
  <1>3. stage[v] \in WalletStages
    BY DEF EngineInv, Unconfirmed, WalletStages
  <1> QED  BY <1>1, <1>2, <1>3 DEF EngineInv, OneCall

LEMMA EngineNext ==
    ASSUME EngineInv, EngineInv', [Next]_vars
    PROVE  [Engine!Next]_(Engine!vars)
  <1> DEFINE P == [Engine!Next]_(Engine!vars)
  <1> USE DEF Engine!Next, Engine!vars
  <1>t. EngineInv /\ TypeOK /\ OneCall /\ Unconfirmed /\ StateShape /\ LockShape
    BY DEF EngineInv
  \* Steps that leave the state and the seed's holders alone, or fault.
  <1>k. ASSUME Holding' = Holding, state' \in {state, "faulted"} PROVE P
    BY <1>k DEF Engine!Fault
  <1>1. ASSUME NEW w \in Worklet,
               \/ Initialize(w) \/ BeginCeremony(w) \/ Finish(w)
               \/ SpawnResolves(w) \/ SpawnRejects(w) \/ SpawnTimesOut(w)
               \/ InitResolves(w) \/ InitFails(w)
               \/ UnwindEnds(w) \/ UnwindTimesOut(w)
               \/ CeremonySpawned(w) \/ CeremonySpawnRejects(w)
               \/ BeginResolves(w) \/ BeginFails(w)
               \/ AbortEnds(w) \/ FinishSettles(w) \/ CloseEnds(w)
               \/ LockAborts(w) \/ LateSpawn(w) \/ Exits(w)
        PROVE  P
    <2>1. CASE Initialize(w)
      <3>1. w \notin seeded
        BY <1>t, <2>1 DEF Initialize, Unconfirmed
      <3>2. Holding' = Holding
        BY <1>t, <2>1, <3>1 DEF Initialize, Holding, TypeOK
      <3>3. ~Holding
        BY <1>t, <2>1 DEF Initialize, Free, Usable, Unconfirmed, StateShape,
           TypeOK, Holding, WalletStages
      <3> QED  BY <2>1, <3>2, <3>3 DEF Initialize, Free, Engine!Unlock
    <2>2. CASE SpawnResolves(w)
      <3>1. CASE state = "initializing" /\ seeded' = seeded \cup {w}
        <4>1. Holding' /\ state' = state
          BY <1>t, <2>2, <3>1 DEF SpawnResolves, Holding, TypeOK
        <4> QED  BY <3>1, <4>1 DEF Engine!Arm, Holding
      <3>2. CASE seeded' = seeded
        <4>1. w \notin seeded
          BY <1>t, <2>2 DEF SpawnResolves, Unconfirmed
        <4>2. Holding' = Holding
          BY <1>t, <2>2, <3>2, <4>1 DEF SpawnResolves, Holding, TypeOK
        <4> QED  BY <1>k, <2>2, <4>2 DEF SpawnResolves
      <3> QED  BY <2>2, <3>1, <3>2 DEF SpawnResolves
    <2>3. CASE SpawnRejects(w)
      <3>1. w \notin seeded
        BY <1>t, <2>3 DEF SpawnRejects, Unconfirmed
      <3>2. Holding' = Holding
        BY <1>t, <2>3, <3>1 DEF SpawnRejects, Holding, TypeOK
      <3>3. CASE recovery
        BY <1>k, <2>3, <3>2, <3>3 DEF SpawnRejects
      <3>4. CASE ~recovery
        <4>1. state \in {"initializing", "locking"}
          BY <1>t, <2>3, <3>4 DEF SpawnRejects, StateShape
        <4>2. ~Holding
          BY <1>t, <2>3, <3>1, <3>4 DEF SpawnRejects, Holding, Unconfirmed,
             OneCall, TypeOK, WalletStages
        <4> QED  BY <2>3, <3>2, <3>4, <4>1, <4>2 DEF SpawnRejects, Engine!Relock
      <3> QED  BY <3>3, <3>4
    <2>4. CASE InitResolves(w)
      <3>1. Holding' = Holding
        BY <2>4 DEF InitResolves, Holding
      <3> QED  BY <2>4, <3>1 DEF InitResolves, Engine!Ready
    <2>5. CASE UnwindEnds(w)
      <3>1. Holding' = Holding
        BY <2>5 DEF UnwindEnds, Holding
      <3>2. CASE recovery
        BY <1>k, <2>5, <3>1, <3>2 DEF UnwindEnds
      <3>3. CASE ~recovery
        <4>1. state \in {"initializing", "locking"}
          BY <1>t, <2>5, <3>3 DEF UnwindEnds, StateShape
        <4>2. ~Holding
          BY <1>t, <2>5, <3>3, SeedGone DEF UnwindEnds, Terminated
        <4> QED  BY <2>5, <3>1, <3>3, <4>1, <4>2 DEF UnwindEnds, Engine!Relock
      <3> QED  BY <3>2, <3>3
    <2>6. CASE Exits(w)
      <3>1. Holding' => Holding
        BY <1>t, <2>6 DEF Exits, Holding, TypeOK
      <3>2. CASE Holding' = Holding
        BY <1>k, <2>6, <3>2 DEF Exits
      <3>3. CASE Holding /\ ~Holding'
        BY <2>6, <3>3 DEF Exits, Engine!Exit, Holding
      <3> QED  BY <3>1, <3>2, <3>3 DEF Holding
    \* The worklets of ceremonies, and those raised late, have no seed.
    <2>7. CASE \/ BeginCeremony(w) \/ CeremonySpawned(w)
               \/ CeremonySpawnRejects(w) \/ LateSpawn(w)
      <3>1. w \notin seeded
        BY <1>t, <2>7 DEF BeginCeremony, CeremonySpawned,
           CeremonySpawnRejects, LateSpawn, Unconfirmed
      <3>2. Holding' = Holding
        BY <1>t, <2>7, <3>1 DEF BeginCeremony, CeremonySpawned,
           CeremonySpawnRejects, LateSpawn, Holding, TypeOK
      <3> QED
        BY <1>k, <2>7, <3>2 DEF BeginCeremony, CeremonySpawned,
           CeremonySpawnRejects, LateSpawn, Fault
    <2>8. CASE \/ Finish(w) \/ SpawnTimesOut(w) \/ InitFails(w)
               \/ UnwindTimesOut(w) \/ BeginResolves(w) \/ BeginFails(w)
               \/ AbortEnds(w) \/ FinishSettles(w) \/ CloseEnds(w)
               \/ LockAborts(w)
      <3>1. Holding' = Holding
        BY <2>8 DEF Finish, SpawnTimesOut, InitFails, UnwindTimesOut,
           BeginResolves, BeginFails, AbortEnds, FinishSettles, CloseEnds,
           LockAborts, Holding
      <3> QED
        BY <1>k, <2>8, <3>1 DEF Finish, SpawnTimesOut, InitFails,
           UnwindTimesOut, BeginResolves, BeginFails, AbortEnds,
           FinishSettles, CloseEnds, LockAborts, Forsake, Fault
    <2> QED
      BY <1>1, <2>1, <2>2, <2>3, <2>4, <2>5, <2>6, <2>7, <2>8
  <1>2. ASSUME LockBody, UNCHANGED <<recovery, ceremony, process, seeded>>
        PROVE  P
    <2>1. Holding' = Holding
      BY <1>2 DEF Holding
    <2>2. CASE NothingToLock
      BY <1>k, <2>1, <2>2 DEF NothingToLock
    <2>3. CASE CancelInit \/ Detach
      BY <2>1, <2>3 DEF CancelInit, Detach, Engine!Seal
    <2> QED  BY <1>2, <2>2, <2>3 DEF LockBody
  <1>3. CASE LockTerminates
    <2>1. Holding' = Holding
      BY <1>3 DEF LockTerminates, Holding
    <2>2. CASE state' = "faulted"
      BY <1>k, <2>1, <2>2
    <2>3. CASE state' = "locked" /\ Terminated(lockOn)
      <3>1. lockOn \in Worklet /\ state \in {"locking", "faulted"}
        BY <1>t, <1>3 DEF LockTerminates, LockShape
      <3>2. ~Holding
        BY <1>t, <1>3, <2>3, <3>1, SeedGone DEF LockTerminates, Terminated
      <3> QED  BY <2>1, <2>3, <3>1, <3>2 DEF Engine!Relock
    <2> QED  BY <1>3, <2>2, <2>3 DEF LockTerminates, Fault
  <1>4. CASE AbortTimesOut \/ CancelTimesOut \/ DisposeSettles \/ UNCHANGED vars
    <2>1. Holding' = Holding
      BY <1>4 DEF AbortTimesOut, CancelTimesOut, DisposeSettles, vars, Holding
    <2> QED
      BY <1>k, <1>4, <2>1 DEF AbortTimesOut, CancelTimesOut, DisposeSettles,
         vars, Fault
  <1>5. Lock \/ CeremonyAborted => P
    BY <1>2 DEF Lock, CeremonyAborted
  <1> QED  BY <1>1, <1>3, <1>4, <1>5, NextCases

\* The engine has the life cycle the wallet service assumes: "locked" means
\* that no live worklet holds the seed.
THEOREM Refinement == Spec => ImplementsEngine
  <1>1. Init => Engine!Init
    BY DEF Init, Engine!Init, Holding
  <1> QED
    BY <1>1, EngineNext, EngineInvAlways, PTL
       DEF Spec, ImplementsEngine, Engine!Spec
-----------------------------------------------------------------------------
(***************************************************************************)
(* The vault over the engine (WalletVault.tla).                            *)
(***************************************************************************)
\* Every step of the vault is one of the engine or leaves the engine alone.
LEMMA VaultIsEngine == [VaultNext]_vaultVars => [Next]_vars
  <1> SUFFICES ASSUME [VaultNext]_vaultVars PROVE [Next]_vars
    OBVIOUS
  <1>1. ASSUME NEW w \in Worklet, Create(w) \/ Backup(w) \/ Unlock(w)
        PROVE  Next
    BY <1>1 DEF Create, CreateUnchecked, Backup, Unlock, Next
  <1>2. ASSUME NEW w \in Worklet, Opened(w) \/ Completes(w) \/ Yields(w) \/ Delivers(w)
        PROVE  Next
    BY <1>2 DEF Opened, Opens, Completes, Yields, Delivers, Next, CallStep
  <1>3. ASSUME NEW w \in Worklet, Persists(w)
        PROVE  UNCHANGED vars
    BY <1>3 DEF Persists, WriteTmp, Rename, WriteFails
  <1>4. CASE OtherEngineStep
    BY <1>4 DEF OtherEngineStep, EngineCallStep, Next, CallStep
  <1>5. CASE UNCHANGED vaultVars
    BY <1>5 DEF vaultVars
  <1> QED  BY <1>1, <1>2, <1>3, <1>4, <1>5 DEF VaultNext

\* A ceremony that was not registered is not registered by a step of the engine
\* that begins none.
LEMMA StaysUnregistered ==
    ASSUME EngineInv, [Next]_vars,
           \A w \in Worklet : ~Initialize(w) /\ ~BeginCeremony(w),
           NEW v \in Worklet, stage'[v] \in Registered
    PROVE  stage[v] \in Registered
  <1> DEFINE P == stage[v] \in Registered
  <1> USE DEF Registered, CeremonyStages, To, Fault
  <1>0. TypeOK /\ TypeOK' /\ LockShape /\ OneCall
    BY TypeNext DEF EngineInv
  <1>1. ASSUME NEW w \in Worklet,
               \/ Initialize(w) \/ BeginCeremony(w) \/ Finish(w)
               \/ SpawnResolves(w) \/ SpawnRejects(w) \/ SpawnTimesOut(w)
               \/ InitResolves(w) \/ InitFails(w)
               \/ UnwindEnds(w) \/ UnwindTimesOut(w)
               \/ CeremonySpawned(w) \/ CeremonySpawnRejects(w)
               \/ BeginResolves(w) \/ BeginFails(w)
               \/ AbortEnds(w) \/ FinishSettles(w) \/ CloseEnds(w)
               \/ LockAborts(w) \/ LateSpawn(w) \/ Exits(w)
        PROVE  P
    <2>1. stage' = stage \/ \E s \in Stages : stage' = [stage EXCEPT ![w] = s]
      BY <1>0, <1>1 DEF TypeOK, Stages, WalletStages, Initialize, BeginCeremony, Finish, SpawnResolves,
         SpawnRejects, SpawnTimesOut, InitResolves, InitFails, UnwindEnds,
         UnwindTimesOut, CeremonySpawned, CeremonySpawnRejects, BeginResolves,
         BeginFails, AbortEnds, FinishSettles, CloseEnds, LockAborts, LateSpawn,
         Exits, Forsake
    <2>2. CASE v # w
      BY <1>0, <2>1, <2>2 DEF TypeOK
    <2>3. CASE v = w /\ stage' # stage
      <3>1. CASE SpawnResolves(w) \/ SpawnRejects(w) \/ SpawnTimesOut(w)
                 \/ InitResolves(w) \/ InitFails(w)
                 \/ UnwindEnds(w) \/ UnwindTimesOut(w) \/ AbortEnds(w)
        BY <1>0, <2>3, <3>1 DEF TypeOK, SpawnResolves, SpawnRejects, SpawnTimesOut,
           InitResolves, InitFails, UnwindEnds, UnwindTimesOut, AbortEnds
      <3>2. CASE Finish(w) \/ CeremonySpawned(w) \/ CeremonySpawnRejects(w)
                 \/ BeginResolves(w) \/ BeginFails(w) \/ FinishSettles(w) \/ CloseEnds(w)
        BY <2>3, <3>2 DEF Finish, CeremonySpawned, CeremonySpawnRejects,
           BeginResolves, BeginFails, FinishSettles, CloseEnds, Forsake
      <3>3. CASE LockAborts(w)
        BY <2>3, <3>3 DEF LockAborts, Forsake
      <3>4. CASE LateSpawn(w) \/ Exits(w)
        BY <2>3, <3>4 DEF LateSpawn, Exits
      <3> QED  BY <1>1, <3>1, <3>2, <3>3, <3>4
    <2> QED  BY <2>2, <2>3
  <1>2. Lock \/ CeremonyAborted => P
    <2>1. ASSUME LockBody PROVE P
      BY <1>0, <2>1 DEF LockBody, NothingToLock, CancelInit, Detach, TypeOK
    <2> QED  BY <2>1 DEF Lock, CeremonyAborted
  <1>3. LockTerminates => P
    BY <1>0 DEF LockTerminates, LockShape, TypeOK
  <1>4. AbortTimesOut \/ CancelTimesOut \/ DisposeSettles \/ UNCHANGED vars => P
    BY DEF AbortTimesOut, CancelTimesOut, DisposeSettles, vars
  <1> QED  BY <1>1, <1>2, <1>3, <1>4, NextCases

(***************************************************************************)
(* A genesis call counts from the ceremony it registers to its last rename *)
(* or failure.  As long as none has overlapped another there is at most    *)
(* one, it has found no vault, what it has written is its own, and nobody  *)
(* else's temporary file is in its way.                                    *)
(***************************************************************************)
GenesisCalls == {"create", "asked", "given"}

InGenesis(w) ==
    \/ call[w] \in Persisting
    \/ stage[w] \in Registered /\ call[w] \in GenesisCalls

VaultTypes ==
    /\ disk \in [File -> Material \cup {None}]
    /\ tmp \in [File -> Worklet \cup {None}]
    /\ call \in [Worklet -> Persisting \cup GenesisCalls \cup
                    {"none", "backup", "unlock", "mismatch", "made", "failed"}]
    /\ overlapped \in BOOLEAN

OneGenesis == \A v, w \in Worklet : InGenesis(v) /\ InGenesis(w) => v = w

GenesisShape(w) ==
    /\ disk.vault = None
    /\ \A f \in File : call[w] = Renaming(f) => tmp[f] = w
    /\ call[w] \in {"entropy", "entropy-tmp", "vault", "vault-tmp"} => disk.seed = w
    /\ call[w] \in {"vault", "vault-tmp"} => disk.entropy = w

VaultShape ==
    /\ OneGenesis
    /\ \A w \in Worklet : InGenesis(w) => GenesisShape(w)
    /\ \A w \in Worklet : call[w] = "made" => \A f \in File : disk[f] = w
    /\ Whole(disk)

VaultInv ==
    /\ EngineInv /\ CeremonyWhileLocked
    /\ VaultTypes
    /\ ~overlapped => VaultShape

LEMMA VaultInvInit == VaultInit => VaultInv
  <1> SUFFICES ASSUME VaultInit PROVE VaultInv
    OBVIOUS
  <1>1. EngineInv /\ CeremonyWhileLocked
    BY EngineInvInit DEF VaultInit, Init, CeremonyWhileLocked, Registered, CeremonyStages
  <1>2. VaultTypes
    BY DEF VaultInit, VaultTypes, Material
  <1>3. \A w \in Worklet : ~InGenesis(w) /\ call[w] # "made"
    BY DEF VaultInit, InGenesis, GenesisCalls, Persisting, File, Renaming
  <1>4. VaultShape
    BY <1>3 DEF VaultInit, VaultShape, OneGenesis
  <1> QED  BY <1>1, <1>2, <1>4 DEF VaultInv

\* Steps that write no file and turn no call into a genesis call.
LEMMA VaultFrame ==
    ASSUME VaultInv, VaultTypes', EngineInv', CeremonyWhileLocked',
           disk' = disk, tmp' = tmp, overlapped' = overlapped,
           \A w \in Worklet : InGenesis(w)' => InGenesis(w),
           \A w \in Worklet : call'[w] = "made" => call[w] = "made",
           \A w \in Worklet : call'[w] \in Persisting =>
                call'[w] = call[w] \/ call'[w] \in {"seed", "failed"}
    PROVE  VaultInv'
  <1> SUFFICES ASSUME ~overlapped PROVE VaultShape'
    BY DEF VaultInv
  <1>1. VaultShape
    BY DEF VaultInv
  <1>2. OneGenesis'
    BY <1>1 DEF VaultShape, OneGenesis
  <1>3. ASSUME NEW w \in Worklet, InGenesis(w)' PROVE GenesisShape(w)'
    <2>1. GenesisShape(w)
      BY <1>1, <1>3 DEF VaultShape
    <2>2. call'[w] \in Persisting => call'[w] \in {call[w], "seed", "failed"}
      OBVIOUS
    <2> QED  BY <2>1, <2>2 DEF GenesisShape, Persisting, File, Renaming
  <1> QED  BY <1>1, <1>2, <1>3 DEF VaultShape, Whole

LEMMA VaultTypesNext == VaultInv /\ [VaultNext]_vaultVars => VaultTypes'
  <1> SUFFICES ASSUME VaultTypes, [VaultNext]_vaultVars PROVE VaultTypes'
    BY DEF VaultInv
  <1> USE DEF VaultTypes, Calls, GenesisCalls
  <1>1. ASSUME NEW w \in Worklet, Create(w) PROVE VaultTypes'
    BY <1>1 DEF Create, CreateUnchecked
  <1>2. ASSUME NEW w \in Worklet, Backup(w) \/ Unlock(w) PROVE VaultTypes'
    BY <1>2 DEF Backup, Unlock
  <1>3. ASSUME NEW w \in Worklet, Completes(w) \/ Yields(w) PROVE VaultTypes'
    BY <1>3 DEF Completes, Yields
  <1>4. ASSUME NEW w \in Worklet, Opened(w) PROVE VaultTypes'
    BY <1>4 DEF Opened, filesVars
  <1>5. ASSUME NEW w \in Worklet, Delivers(w) PROVE VaultTypes'
    BY <1>5 DEF Delivers, Persisting, File
  <1>6. ASSUME NEW w \in Worklet, NEW f \in File, WriteTmp(w, f) PROVE VaultTypes'
    <2>1. Renaming(f) \in Persisting
      BY DEF Persisting
    <2> QED  BY <1>6, <2>1 DEF WriteTmp, FileOf
  <1>7. ASSUME NEW w \in Worklet, NEW f \in File, Rename(w, f) PROVE VaultTypes'
    <2>1. After(f) \in Persisting \cup {"made"}
      BY DEF Persisting, File, After
    <2> QED  BY <1>7, <2>1 DEF Rename, FileOf, Material
  <1>8. ASSUME NEW w \in Worklet, NEW f \in File, WriteFails(w, f) PROVE VaultTypes'
    BY <1>8 DEF WriteFails
  <1>9. CASE OtherEngineStep \/ UNCHANGED vaultVars
    BY <1>9 DEF OtherEngineStep, vaultVars, filesVars
  <1> QED
    BY <1>1, <1>2, <1>3, <1>4, <1>5, <1>6, <1>7, <1>8, <1>9 DEF VaultNext, Persists

\* The first genesis call since the last one ended; it overlaps none.
LEMMA CreateStep ==
    ASSUME VaultInv, VaultTypes', EngineInv', CeremonyWhileLocked',
           NEW w \in Worklet, Create(w), ~overlapped'
    PROVE  VaultShape'
  <1>1. VaultShape /\ VaultTypes /\ CeremonyWhileLocked /\ TypeOK
    BY DEF VaultInv, Create, CreateUnchecked, EngineInv
  <1>2. /\ ceremony = None /\ disk.vault = None
        /\ \A v \in Worklet : call[v] \notin Persisting
        /\ call' = [call EXCEPT ![w] = "create"]
        /\ stage' = [stage EXCEPT ![w] = "starting"] /\ disk' = disk /\ tmp' = tmp
    BY DEF Create, CreateUnchecked, BeginCeremony, Free, HasVault, Calls, To
  <1>3. \A v \in Worklet : stage[v] \notin Registered
    BY <1>1, <1>2, EngineAssumption DEF CeremonyWhileLocked
  <1>4. ASSUME NEW v \in Worklet, InGenesis(v)' PROVE v = w
    BY <1>1, <1>2, <1>3, <1>4 DEF InGenesis, VaultTypes, TypeOK, Persisting, File, Renaming
  <1>5. call'[w] = "create"
    BY <1>1, <1>2 DEF VaultTypes
  <1>6. OneGenesis'
    BY <1>4 DEF OneGenesis
  <1>7. GenesisShape(w)'
    BY <1>2, <1>5 DEF GenesisShape, File, Renaming
  <1>8. \A v \in Worklet : call'[v] = "made" => call[v] = "made"
    BY <1>1, <1>2 DEF VaultTypes
  <1> QED  BY <1>1, <1>2, <1>4, <1>6, <1>7, <1>8 DEF VaultShape, Whole

\* Calls that are no genesis, and the steps of one up to its material.
LEMMA CallSteps ==
    ASSUME VaultInv, VaultTypes', EngineInv', CeremonyWhileLocked', NEW w \in Worklet,
           Backup(w) \/ Unlock(w) \/ Opened(w) \/ Completes(w) \/ Yields(w) \/ Delivers(w)
    PROVE  VaultInv'
  <1>1. VaultTypes /\ TypeOK /\ OneCall /\ EngineInv
    BY DEF VaultInv, EngineInv
  <1>2. CASE Backup(w) \/ Unlock(w)
    <2>1. /\ call' = [call EXCEPT ![w] = "backup"] \/ call' = [call EXCEPT ![w] = "unlock"]
             \/ call' = [call EXCEPT ![w] = "mismatch"]
          /\ \E s : stage' = [stage EXCEPT ![w] = s]
          /\ disk' = disk /\ tmp' = tmp /\ overlapped' = overlapped
      BY <1>2 DEF Backup, Unlock, Calls, BeginCeremony, Initialize, To
    <2>2. call'[w] \in {"backup", "unlock", "mismatch"}
      BY <1>1, <2>1 DEF VaultTypes
    <2>3. \A v \in Worklet \ {w} : call'[v] = call[v] /\ stage'[v] = stage[v]
      BY <1>1, <2>1 DEF VaultTypes, TypeOK
    <2>4. \A v \in Worklet : InGenesis(v)' => InGenesis(v)
      BY <2>2, <2>3 DEF InGenesis, GenesisCalls, Persisting, File, Renaming
    <2>5. \A v \in Worklet : call'[v] = "made" => call[v] = "made"
      BY <2>2, <2>3
    <2>6. \A v \in Worklet : call'[v] \in Persisting => call'[v] = call[v]
      BY <2>2, <2>3 DEF Persisting, File, Renaming
    <2> QED  BY <2>1, <2>4, <2>5, <2>6, VaultFrame
  <1>3. CASE Opened(w) \/ Completes(w) \/ Yields(w) \/ Delivers(w)
    <2>1. /\ disk' = disk /\ tmp' = tmp /\ overlapped' = overlapped
          /\ \/ call' = call
             \/ /\ call[w] \in GenesisCalls /\ stage[w] \in Registered
                /\ \E c \in {"asked", "given", "seed"} : call' = [call EXCEPT ![w] = c]
      BY <1>3 DEF Opened, filesVars, Completes, Finish, Yields, FinishSettles, Delivers,
         CloseEnds, Calls, GenesisCalls, Registered, CeremonyStages
    <2>2. \A v \in Worklet : stage'[v] \in Registered => stage[v] \in Registered
      <3>1. [Next]_vars
        BY <1>3, VaultIsEngine DEF VaultNext
      <3>2. stage[w] # "unused"
        BY <1>3 DEF Opened, Opens, Completes, Yields, Delivers, BeginResolves,
           InitResolves, Finish, FinishSettles, CloseEnds
      <3>3. ASSUME NEW v \in Worklet, Initialize(v) \/ BeginCeremony(v)
            PROVE  FALSE
        <4>1. stage[v] = "unused" /\ stage'[v] # "unused"
          BY <1>1, <3>3 DEF Initialize, BeginCeremony, To, TypeOK
        <4>2. \A u \in Worklet \ {w} : stage'[u] = stage[u]
          BY <1>1, <1>3 DEF Opened, Opens, Completes, Yields, Delivers, BeginResolves,
             InitResolves, Finish, FinishSettles, CloseEnds, To, TypeOK
        <4> QED  BY <3>2, <4>1, <4>2
      <3> QED  BY <1>1, <3>1, <3>3, StaysUnregistered
    <2>3. CASE call' = call
      BY <2>1, <2>2, <2>3, VaultFrame DEF InGenesis
    <2>4. CASE call' # call
      <3>1. PICK c \in {"asked", "given", "seed"} : call' = [call EXCEPT ![w] = c]
        BY <2>1, <2>4
      <3>2. call'[w] = c /\ \A v \in Worklet \ {w} : call'[v] = call[v]
        BY <1>1, <3>1 DEF VaultTypes
      <3>3. InGenesis(w)
        BY <2>1, <2>4 DEF InGenesis
      <3>4. \A v \in Worklet : InGenesis(v)' => InGenesis(v)
        BY <2>2, <3>2, <3>3 DEF InGenesis
      <3>5. \A v \in Worklet : call'[v] = "made" => call[v] = "made"
        BY <3>2
      <3>6. \A v \in Worklet : call'[v] \in Persisting =>
                call'[v] = call[v] \/ call'[v] \in {"seed", "failed"}
        BY <3>2 DEF Persisting, File, Renaming
      <3> QED  BY <2>1, <3>4, <3>5, <3>6, VaultFrame
    <2> QED  BY <2>3, <2>4
  <1> QED  BY <1>2, <1>3

LEMMA OtherStep ==
    ASSUME VaultInv, VaultTypes', EngineInv', CeremonyWhileLocked', OtherEngineStep
    PROVE  VaultInv'
  <1>1. disk' = disk /\ tmp' = tmp /\ overlapped' = overlapped /\ call' = call
    BY DEF OtherEngineStep, filesVars
  <1>2. [Next]_vars /\ EngineInv /\ TypeOK
    BY VaultIsEngine DEF VaultNext, VaultInv, EngineInv
  <1>3. ASSUME NEW v \in Worklet, Initialize(v) \/ BeginCeremony(v)
        PROVE  FALSE
    <2>1. /\ stage[v] = "unused" /\ stage'[v] # "unused" /\ process'[v] = "spawning"
          /\ process[v] = "none"
      BY <1>2, <1>3 DEF Initialize, BeginCeremony, To, TypeOK, EngineInv, OneCall
    <2>2. CASE Lock \/ LockStep
      BY <2>1, <2>2 DEF Lock, LockStep, CeremonyAborted, AbortTimesOut, CancelTimesOut,
         DisposeSettles, LockTerminates
    <2>3. ASSUME NEW w \in Worklet, EngineCallStep(w) \/ LockAborts(w) \/ LateSpawn(w) \/ Exits(w)
          PROVE  FALSE
      <3>1. stage[w] # "unused" \/ stage' = stage
        BY <2>3 DEF EngineCallStep, SpawnResolves, SpawnRejects, SpawnTimesOut,
           InitFails, UnwindEnds, UnwindTimesOut, CeremonySpawned, CeremonySpawnRejects,
           BeginFails, AbortEnds, LockAborts, LateSpawn, Exits
      <3>2. stage' = stage \/ \E s : stage' = [stage EXCEPT ![w] = s]
        BY <2>3 DEF EngineCallStep, SpawnResolves, SpawnRejects, SpawnTimesOut,
           InitFails, UnwindEnds, UnwindTimesOut, CeremonySpawned, CeremonySpawnRejects,
           BeginFails, AbortEnds, LockAborts, LateSpawn, Exits, To, Forsake
      <3> QED  BY <1>2, <2>1, <3>1, <3>2 DEF TypeOK
    <2> QED  BY <2>2, <2>3 DEF OtherEngineStep
  <1>4. \A v \in Worklet : stage'[v] \in Registered => stage[v] \in Registered
    BY <1>2, <1>3, StaysUnregistered
  <1> QED  BY <1>1, <1>4, VaultFrame DEF InGenesis

\* The one genesis call writes its own files, the vault last.
LEMMA FileSteps ==
    ASSUME VaultInv, VaultTypes', EngineInv', CeremonyWhileLocked', NEW w \in Worklet,
           NEW f \in File, WriteTmp(w, f) \/ Rename(w, f) \/ WriteFails(w, f)
    PROVE  VaultInv'
  <1>1. /\ VaultTypes /\ UNCHANGED vars /\ overlapped' = overlapped
        /\ call[w] \in {f, Renaming(f)} /\ InGenesis(w)
    BY DEF VaultInv, WriteTmp, Rename, WriteFails, InGenesis, Persisting
  <1> SUFFICES ASSUME ~overlapped PROVE VaultShape'
    BY <1>1 DEF VaultInv
  <1>2. /\ VaultShape /\ GenesisShape(w)
        /\ \A v \in Worklet \ {w} : ~InGenesis(v)
    BY <1>1 DEF VaultInv, VaultShape, OneGenesis
  <1>3. \A v \in Worklet : call[v] # "made"
    <2>1. disk.vault = None
      BY <1>2 DEF GenesisShape
    <2> QED  BY <1>2, <2>1, EngineAssumption DEF VaultShape, File
  <1>4. \E c \in Persisting \cup {"made", "failed"} :
            call' = [call EXCEPT ![w] = c]
    <2>1. CASE WriteTmp(w, f)
      BY <2>1 DEF WriteTmp, Calls, Persisting
    <2>2. CASE Rename(w, f)
      BY <2>2 DEF Rename, Calls, After, Persisting, File
    <2>3. CASE WriteFails(w, f)
      BY <2>3 DEF WriteFails, Calls
    <2> QED  BY <2>1, <2>2, <2>3
  <1>5. \A v \in Worklet \ {w} : call'[v] = call[v] /\ ~InGenesis(v)'
    BY <1>1, <1>2, <1>4 DEF VaultTypes, InGenesis, vars
  <1>6. OneGenesis'
    BY <1>5 DEF OneGenesis
  <1>7. CASE WriteTmp(w, f)
    <2>1. /\ call'[w] = Renaming(f) /\ tmp'[f] = w /\ disk' = disk /\ call[w] = f
      BY <1>1, <1>7 DEF WriteTmp, Calls, FileOf, VaultTypes
    <2>2. GenesisShape(w)'
      BY <1>2, <2>1 DEF GenesisShape, File, Renaming
    <2>3. \A v \in Worklet : call'[v] # "made"
      BY <1>3, <1>5, <2>1 DEF File, Renaming
    <2> QED  BY <1>2, <1>5, <1>6, <2>1, <2>2, <2>3 DEF VaultShape, Whole
  <1>8. CASE WriteFails(w, f)
    <2>1. call'[w] = "failed" /\ disk' = disk
      BY <1>1, <1>8 DEF WriteFails, Calls, VaultTypes
    <2>2. ~InGenesis(w)'
      BY <2>1 DEF InGenesis, GenesisCalls, Persisting, File, Renaming
    <2>3. \A v \in Worklet : call'[v] # "made"
      BY <1>3, <1>5, <2>1
    <2> QED  BY <1>2, <1>5, <1>6, <2>1, <2>2, <2>3 DEF VaultShape, Whole
  <1>9. CASE Rename(w, f)
    <2>1. /\ call[w] = Renaming(f) /\ call'[w] = After(f) /\ tmp[f] = w
          /\ disk' = [disk EXCEPT ![f] = w]
      BY <1>1, <1>2, <1>9 DEF Rename, Calls, FileOf, VaultTypes, GenesisShape
    <2>2. CASE f # "vault"
      <3>1. call'[w] \in File /\ call'[w] # "seed" /\ (call'[w] = "vault" => f = "entropy")
        BY <2>1, <2>2 DEF After, File
      <3>2. GenesisShape(w)'
        BY <1>1, <1>2, <2>1, <2>2, <3>1 DEF GenesisShape, VaultTypes, File, Renaming, After
      <3>3. disk'.vault = None
        BY <3>2 DEF GenesisShape
      <3>4. \A v \in Worklet : call'[v] # "made"
        BY <1>3, <1>5, <3>1 DEF File
      <3> QED  BY <1>5, <1>6, <3>2, <3>3, <3>4 DEF VaultShape, Whole
    <2>3. CASE f = "vault"
      <3>1. call'[w] = "made" /\ call[w] = "vault-tmp"
        BY <2>1, <2>3 DEF After, Renaming
      <3>2. \A g \in File : disk'[g] = w
        BY <1>1, <1>2, <2>1, <2>3, <3>1 DEF GenesisShape, VaultTypes, File
      <3>3. ~InGenesis(w)'
        BY <3>1 DEF InGenesis, GenesisCalls, Persisting, File, Renaming
      <3>4. \A v \in Worklet \ {w} : call'[v] # "made"
        BY <1>3, <1>5
      <3>5. Whole(disk)'
        BY <3>2 DEF Whole, File
      <3> QED  BY <1>5, <1>6, <3>1, <3>2, <3>3, <3>4, <3>5 DEF VaultShape
    <2> QED  BY <2>2, <2>3
  <1> QED  BY <1>7, <1>8, <1>9

LEMMA VaultInvNext == VaultInv /\ [VaultNext]_vaultVars => VaultInv'
  <1> SUFFICES ASSUME VaultInv, [VaultNext]_vaultVars PROVE VaultInv'
    OBVIOUS
  <1>1. EngineInv' /\ CeremonyWhileLocked' /\ VaultTypes'
    BY VaultIsEngine, EngineInvNext, CeremonyNext, VaultTypesNext DEF VaultInv
  <1>2. ASSUME NEW w \in Worklet, Create(w) PROVE VaultInv'
    BY <1>1, <1>2, CreateStep DEF VaultInv
  <1>3. ASSUME NEW w \in Worklet,
               Backup(w) \/ Unlock(w) \/ Opened(w) \/ Completes(w) \/ Yields(w) \/ Delivers(w)
        PROVE  VaultInv'
    BY <1>1, <1>3, CallSteps
  <1>4. ASSUME NEW w \in Worklet, Persists(w) PROVE VaultInv'
    BY <1>1, <1>4, FileSteps DEF Persists
  <1>5. CASE OtherEngineStep
    BY <1>1, <1>5, OtherStep
  <1>6. CASE UNCHANGED vaultVars
    <2>1. disk' = disk /\ tmp' = tmp /\ overlapped' = overlapped /\ call' = call /\ stage' = stage
      BY <1>6 DEF vaultVars, filesVars, vars
    <2> QED  BY <1>1, <2>1, VaultFrame DEF InGenesis
  <1> QED  BY <1>2, <1>3, <1>4, <1>5, <1>6 DEF VaultNext

\* The wallet service drives the engine only through the engine's own steps:
\* whatever is proved of the engine holds while wallets are made, backed up
\* and unlocked (wallet-service.cjs calls over wdk-engine.cjs).
THEOREM VaultRefinesEngine == VaultSpec => Spec
  <1>1. VaultInit => Init
    BY DEF VaultInit
  <1> QED  BY <1>1, VaultIsEngine, PTL DEF VaultSpec, Spec

\* For any number of calls, and wherever one fails or the process dies: unless
\* two genesis calls overlapped, the files hold no vault or a complete wallet,
\* and a wallet reported as made is the one they hold (wallet-service.cjs:219).
THEOREM VaultCorrect == VaultSpec => []CompleteUnlessOverlapped
  <1>1. VaultInv => CompleteUnlessOverlapped
    BY DEF VaultInv, VaultShape, CompleteUnlessOverlapped
  <1> QED  BY <1>1, VaultInvInit, VaultInvNext, PTL DEF VaultSpec

\* While wallets are made, backed up and unlocked: a usable engine knows of
\* every live worklet with the seed, no ceremony is registered beside an open
\* wallet, and the engine has the life cycle the service assumes.
THEOREM VaultEngineCorrect ==
    VaultSpec => []OneWallet /\ []CeremonyWhileLocked /\ ImplementsEngine
  BY VaultRefinesEngine, WalletCorrect, CeremonyCorrect, Refinement
=============================================================================
