--------------------------- MODULE AssistantProofs ---------------------------
(***************************************************************************)
(* Theorems about the local assistant, for any number of requests, models  *)
(* and unloads, and any length of the queue.                               *)
(***************************************************************************)
EXTENDS Assistant, TLAPS

Phase == {"new", "context", "queued", "loading", "starting", "running",
          "ended", "refused"}

\* The request is at the adapter, or its model is.
Working == {"loading", "starting", "running"}

(***************************************************************************)
(* The inductive invariant.  The order of the queue plays no part in it:   *)
(* whatever its head is, it is taken only when no request is working.      *)
(***************************************************************************)
TypesOK ==
    /\ phase \in [Req -> Phase]
    /\ loaded \in [Model -> Req \cup {None}]
    /\ uses \in [Req -> Req \cup {None}]

\* Only the active request works, only while the loop turns, and the idle timer
\* is off all that time.
ActiveOK ==
    /\ \A r \in Req : phase[r] \in Working => active = r /\ drain = "looping"
    /\ drain = "looping" => ~timer

\* What is in memory is what _loaded lists, each under its own model; the
\* working request has the id listed for its model, or the model is not listed.
ModelsOK ==
    /\ held = {loaded[m] : m \in Model} \ {None}
    /\ \A m \in Model : loaded[m] # None => ModelOf[loaded[m]] = m
    /\ \A r \in Req :
          /\ uses[r] # None => phase[r] \in Working /\ loaded[ModelOf[r]] = uses[r]
          /\ phase[r] = "loading" /\ uses[r] = None => loaded[ModelOf[r]] = None
          /\ phase[r] \in {"starting", "running"} => uses[r] # None

\* Once close() has begun nothing waits in the queue; once it has returned
\* nothing works and nothing is in memory.
ClosedOK ==
    /\ Closed => \A r \in Req : phase[r] # "queued"
    /\ closing = "closed" => held = {} /\ \A r \in Req : phase[r] \notin Working

\* The panel closes first.
PanelOK ==
    /\ runs \subseteq Ask
    /\ Closed => ask = "closed"
    /\ ask = "closed" => runs = {}

JobsInv == TypesOK /\ ActiveOK /\ ModelsOK /\ ClosedOK
IInv == JobsInv /\ PanelOK /\ idle \subseteq SUBSET Model

USE DEF Phase, Working

LEMMA InitInv == Init => IInv
  <1> USE AssistantAssumption
  <1> SUFFICES ASSUME Init PROVE IInv
    OBVIOUS
  <1> QED
    BY DEF Init, IInv, JobsInv, TypesOK, ActiveOK, ModelsOK, ClosedOK, PanelOK, Closed

(***************************************************************************)
(* The parts of the actions                                                *)
(***************************************************************************)
Idle(phases) == \A r \in Req : phases[r] \notin Working

\* A turn of the loop.  phases is phase, with what has just been queued.
LEMMA TurnKeeps ==
    ASSUME JobsInv, NEW q, NEW phases \in [Req -> Phase], Idle(phase), Idle(phases),
           Closed => phases = phase,
           Turn(q, phases), UNCHANGED <<loaded, held, closing>>
    PROVE  JobsInv'
  <1> USE AssistantAssumption
  <1> DEFINE r == Head(q)
  <1>1. /\ TypesOK /\ ActiveOK /\ ModelsOK /\ ClosedOK
        /\ loaded' = loaded /\ held' = held /\ closing' = closing /\ (Closed <=> Closed')
    BY DEF JobsInv, Closed
  <1>2. \A x \in Req : uses[x] = None
    BY <1>1 DEF Idle, ModelsOK
  <1>3. CASE ~Closed /\ q # <<>>
    <2>1. /\ active' = r /\ drain' = "looping" /\ timer' = FALSE
          /\ phase' = [phases EXCEPT ![r] = "loading"]
          /\ uses' = [uses EXCEPT ![r] = loaded[ModelOf[r]]]
      BY <1>3 DEF Turn
    <2> HIDE DEF r
    <2>2. TypesOK'
      <3>1. phase' \in [Req -> Phase]
        BY <2>1
      <3>2. r \in Req => loaded[ModelOf[r]] \in Req \cup {None}
        BY <1>1 DEF TypesOK
      <3>3. uses' \in [Req -> Req \cup {None}]
        BY <1>1, <2>1, <3>2 DEF TypesOK
      <3> QED  BY <1>1, <3>1, <3>3 DEF TypesOK
    <2>3. \A x \in Req : x # r => phase'[x] = phases[x] /\ uses'[x] = None
      BY <1>1, <1>2, <2>1 DEF TypesOK
    <2>4. r \in Req => phase'[r] = "loading" /\ uses'[r] = loaded[ModelOf[r]]
      BY <1>1, <2>1 DEF TypesOK
    <2>5. ActiveOK'
      BY <2>1, <2>3 DEF ActiveOK, Idle
    <2>6. ModelsOK'
      BY <1>1, <2>3, <2>4 DEF ModelsOK, Idle
    <2>7. ClosedOK'
      BY <1>1, <1>3 DEF ClosedOK, Closed
    <2> QED  BY <2>2, <2>5, <2>6, <2>7 DEF JobsInv
  <1>4. CASE ~(~Closed /\ q # <<>>)
    <2>1. drain' = "ended" /\ phase' = phases /\ uses' = uses /\ timer' = timer
      BY <1>4 DEF Turn
    <2>2. TypesOK' /\ ActiveOK'
      BY <1>1, <2>1 DEF TypesOK, ActiveOK, Idle
    <2>3. ModelsOK'
      BY <1>1, <1>2, <2>1 DEF ModelsOK, Idle
    <2>4. ClosedOK'
      BY <1>1, <2>1 DEF ClosedOK, Closed, Idle
    <2> QED  BY <2>2, <2>3, <2>4 DEF JobsInv
  <1> QED  BY <1>3, <1>4

\* A request that is not working and is not queued changes its phase, nothing
\* else that matters does.
LEMMA PhaseKeeps ==
    ASSUME JobsInv, NEW r \in Req, NEW p \in Phase \ (Working \cup {"queued"}),
           phase[r] \notin Working, phase' = [phase EXCEPT ![r] = p],
           UNCHANGED <<active, drain, modelVars, closing>>
    PROVE  JobsInv'
  <1> USE AssistantAssumption
  <1>1. /\ TypesOK /\ ActiveOK /\ ModelsOK /\ ClosedOK
        /\ active' = active /\ drain' = drain /\ loaded' = loaded /\ held' = held
        /\ uses' = uses /\ timer' = timer /\ closing' = closing
    BY DEF JobsInv, modelVars
  <1>2. /\ phase' \in [Req -> Phase]
        /\ \A x \in Req : x # r => phase'[x] = phase[x]
        /\ phase'[r] \notin Working \cup {"queued"}
    BY <1>1 DEF TypesOK
  <1>3. TypesOK' /\ ActiveOK'
    BY <1>1, <1>2 DEF TypesOK, ActiveOK
  <1>4. ModelsOK'
    BY <1>1, <1>2 DEF ModelsOK
  <1>5. ClosedOK'
    BY <1>1, <1>2 DEF ClosedOK, Closed
  <1> QED  BY <1>3, <1>4, <1>5 DEF JobsInv

LEMMA RefuseKeeps ==
    ASSUME JobsInv, NEW r \in Req, phase[r] \in {"new", "context"}, Refuse(r)
    PROVE  JobsInv'
  <1>1. phase' = [phase EXCEPT ![r] = "refused"]
        /\ UNCHANGED <<active, drain, modelVars, closing>>
    BY DEF Refuse
  <1> QED  BY <1>1, PhaseKeeps

LEMMA AcceptKeeps ==
    ASSUME JobsInv, NEW r \in Req, phase[r] \in {"new", "context"}, Accept(r)
    PROVE  JobsInv'
  <1> USE AssistantAssumption
  <1> DEFINE phases == [phase EXCEPT ![r] = "queued"]
             q == Append(queue, r)
  <1>1. /\ TypesOK /\ ActiveOK /\ ModelsOK /\ ClosedOK /\ ~Closed
        /\ loaded' = loaded /\ held' = held /\ closing' = closing
    BY DEF JobsInv, Accept
  <1>2. /\ phases \in [Req -> Phase] /\ phases[r] = "queued"
        /\ \A x \in Req : x # r => phases[x] = phase[x]
    BY <1>1 DEF TypesOK
  <1>3. CASE drain = "none"
    <2>1. Turn(q, phases)
      BY <1>3 DEF Accept
    <2>2. Idle(phase)
      BY <1>1, <1>3 DEF ActiveOK, Idle
    <2>3. Idle(phases)
      BY <1>2, <2>2 DEF Idle
    <2> HIDE DEF phases, q
    <2> QED  BY <1>1, <1>2, <2>1, <2>2, <2>3, TurnKeeps
  <1>4. CASE drain # "none"
    <2>1. /\ phase' = phases /\ timer' = FALSE
          /\ active' = active /\ drain' = drain /\ uses' = uses
      BY <1>4 DEF Accept
    <2> HIDE DEF phases, q
    <2>2. TypesOK' /\ ActiveOK'
      BY <1>1, <1>2, <2>1 DEF TypesOK, ActiveOK
    <2>3. ModelsOK'
      BY <1>1, <1>2, <2>1 DEF ModelsOK
    <2>4. ClosedOK'
      BY <1>1 DEF ClosedOK, Closed
    <2> QED  BY <2>2, <2>3, <2>4 DEF JobsInv
  <1> QED  BY <1>3, <1>4

\* Settling, of the active request.
LEMMA SettleKeeps ==
    ASSUME JobsInv, NEW r \in Req, phase[r] \in Working, NEW used \in [Req -> Req \cup {None}],
           \A x \in Req : x # r => used[x] = uses[x],
           Settle(r, used), UNCHANGED <<loaded, held, timer, closing>>
    PROVE  JobsInv'
  <1> USE AssistantAssumption
  <1>1. /\ TypesOK /\ ActiveOK /\ ModelsOK /\ ClosedOK
        /\ loaded' = loaded /\ held' = held /\ timer' = timer /\ closing' = closing
    BY DEF JobsInv
  <1>2. /\ phase' = [phase EXCEPT ![r] = "ended"]
        /\ uses' = [used EXCEPT ![r] = None]
        /\ active' = active /\ drain' = drain
    BY DEF Settle
  <1>3. /\ phase' \in [Req -> Phase] /\ phase'[r] = "ended"
        /\ \A x \in Req : x # r => phase'[x] = phase[x]
    BY <1>1, <1>2 DEF TypesOK
  <1>4. /\ uses' \in [Req -> Req \cup {None}] /\ uses'[r] = None
        /\ \A x \in Req : x # r => uses'[x] = uses[x]
    BY <1>2
  <1>5. TypesOK' /\ ActiveOK'
    BY <1>1, <1>2, <1>3, <1>4 DEF TypesOK, ActiveOK
  <1>6. ModelsOK'
    BY <1>1, <1>3, <1>4 DEF ModelsOK
  <1>7. ClosedOK'
    BY <1>1, <1>3 DEF ClosedOK, Closed
  <1> QED  BY <1>5, <1>6, <1>7 DEF JobsInv

LEMMA CancelKeeps ==
    ASSUME JobsInv, NEW R \in SUBSET Req, CancelJobs(R),
           UNCHANGED <<loaded, held, uses>>, timer' = timer \/ timer' = FALSE,
           closing' = closing \/ (R = Req /\ closing' # "closed")
    PROVE  JobsInv'
  <1> USE AssistantAssumption
  <1> DEFINE Q == {r \in {x \in R : Open(x)} : phase[r] = "queued"}
  <1>1. /\ TypesOK /\ ActiveOK /\ ModelsOK /\ ClosedOK
        /\ loaded' = loaded /\ held' = held /\ uses' = uses
    BY DEF JobsInv
  <1>2. /\ phase' = [r \in Req |-> IF r \in Q THEN "ended" ELSE phase[r]]
        /\ active' = active /\ drain' = drain
    BY DEF CancelJobs
  <1>3. /\ phase' \in [Req -> Phase]
        /\ \A x \in Req : phase'[x] = phase[x] \/ (phase[x] = "queued" /\ phase'[x] = "ended")
        /\ \A x \in R : phase'[x] # "queued"
    <2>1. phase \in [Req -> Phase]
      BY <1>1 DEF TypesOK
    <2>2. \A x \in Req : x \in Q <=> x \in R /\ phase[x] = "queued"
      BY DEF Open
    <2> HIDE DEF Q
    <2>3. \A x \in Req : phase'[x] = IF x \in Q THEN "ended" ELSE phase[x]
      BY <1>2
    <2>4. phase' \in [Req -> Phase]
      BY <1>2, <2>1
    <2>5. \A x \in Req : phase'[x] = phase[x] \/ (phase[x] = "queued" /\ phase'[x] = "ended")
      BY <2>2, <2>3
    <2>6. ASSUME NEW x \in R PROVE phase'[x] # "queued"
      <3>1. x \in Req
        OBVIOUS
      <3> QED  BY <2>2, <2>3, <3>1
    <2> QED  BY <2>4, <2>5, <2>6
  <1> HIDE DEF Q
  <1>4. TypesOK' /\ ActiveOK'
    BY <1>1, <1>2, <1>3 DEF TypesOK, ActiveOK
  <1>5. ModelsOK'
    BY <1>1, <1>3 DEF ModelsOK
  <1>6. ClosedOK'
    BY <1>1, <1>3 DEF ClosedOK, Closed
  <1> QED  BY <1>4, <1>5, <1>6 DEF JobsInv

\* One turn of the loop over idle models, when no request is working.
LEMMA UnloadKeeps ==
    ASSUME JobsInv, Idle(phase), NEW rest \in SUBSET Model, Unload(rest),
           UNCHANGED <<jobVars, uses, closing>>, timer' = timer \/ timer' = FALSE
    PROVE  JobsInv'
  <1> USE AssistantAssumption
  <1>1. PICK m \in rest : /\ held' = held \ {loaded[m]}
                          /\ loaded' = [loaded EXCEPT ![m] = None]
    BY DEF Unload
  <1>2. /\ TypesOK /\ ActiveOK /\ ModelsOK /\ ClosedOK
        /\ phase' = phase /\ active' = active /\ drain' = drain
        /\ uses' = uses /\ closing' = closing
    BY DEF JobsInv, jobVars
  <1>3. /\ m \in Model /\ loaded'[m] = None
        /\ \A n \in Model : n # m => loaded'[n] = loaded[n]
        /\ loaded' \in [Model -> Req \cup {None}]
    BY <1>1, <1>2 DEF TypesOK
  <1>4. TypesOK' /\ ActiveOK'
    BY <1>2, <1>3 DEF TypesOK, ActiveOK
  <1>5. \A n \in Model : n # m => loaded[n] = None \/ loaded[n] # loaded[m]
    BY <1>2, <1>3 DEF ModelsOK
  <1>6. held' = {loaded'[n] : n \in Model} \ {None}
    <2>1. held = {loaded[n] : n \in Model} \ {None}
      BY <1>2 DEF ModelsOK
    <2>2. ASSUME NEW x PROVE x \in held' <=> x # None /\ \E n \in Model : x = loaded'[n]
      BY <1>1, <1>3, <1>5, <2>1
    <2> QED  BY <2>2
  <1>7. ModelsOK'
    BY <1>2, <1>3, <1>6 DEF ModelsOK, Idle
  <1>8. ClosedOK'
    BY <1>1, <1>2 DEF ClosedOK, Closed
  <1> QED  BY <1>4, <1>7, <1>8 DEF JobsInv

\* _run goes on with its model.
LEMMA ProceedKeeps ==
    ASSUME JobsInv, NEW r \in Req, phase[r] = "loading", uses[r] # None, Proceed(r, uses),
           UNCHANGED <<loaded, held, timer, closing>>
    PROVE  JobsInv'
  <1> USE AssistantAssumption
  <1>1. /\ TypesOK /\ ActiveOK /\ ModelsOK /\ ClosedOK
    BY DEF JobsInv
  <1>2. CASE r \in cancelled
    <2>1. Settle(r, uses) /\ uses \in [Req -> Req \cup {None}]
      BY <1>1, <1>2 DEF Proceed, TypesOK
    <2> QED  BY <2>1, SettleKeeps
  <1>3. CASE r \notin cancelled
    <2>1. /\ phase' = [phase EXCEPT ![r] = "starting"]
          /\ uses' = uses /\ active' = active /\ drain' = drain
          /\ loaded' = loaded /\ held' = held /\ timer' = timer /\ closing' = closing
      BY <1>3 DEF Proceed
    <2>2. /\ phase' \in [Req -> Phase] /\ phase'[r] = "starting"
          /\ \A x \in Req : x # r => phase'[x] = phase[x]
      BY <1>1, <2>1 DEF TypesOK
    <2>3. TypesOK' /\ ActiveOK'
      BY <1>1, <2>1, <2>2 DEF TypesOK, ActiveOK
    <2>4. ModelsOK'
      BY <1>1, <2>1, <2>2 DEF ModelsOK
    <2>5. ClosedOK'
      BY <1>1, <2>1, <2>2 DEF ClosedOK, Closed
    <2> QED  BY <2>3, <2>4, <2>5 DEF JobsInv
  <1> QED  BY <1>2, <1>3

LEMMA ModelLoadsKeeps ==
    ASSUME JobsInv, NEW r \in Req, ModelLoads(r)
    PROVE  JobsInv'
  <1> USE AssistantAssumption
  <1> DEFINE M == ModelOf[r]
             used == [uses EXCEPT ![r] = r]
  <1>1. /\ TypesOK /\ ActiveOK /\ ModelsOK /\ ClosedOK
        /\ active = r /\ phase[r] = "loading" /\ uses[r] = None /\ M \in Model
        /\ loaded' = [loaded EXCEPT ![M] = r] /\ held' = held \cup {r}
        /\ Proceed(r, used) /\ timer' = timer /\ closing' = closing
    BY DEF JobsInv, ModelLoads
  <1>2. /\ loaded' \in [Model -> Req \cup {None}] /\ loaded'[M] = r /\ loaded[M] = None
        /\ \A n \in Model : n # M => loaded'[n] = loaded[n]
    BY <1>1 DEF TypesOK, ModelsOK
  <1>3. /\ used \in [Req -> Req \cup {None}] /\ used[r] = r
        /\ \A x \in Req : x # r => used[x] = uses[x]
    BY <1>1 DEF TypesOK
  <1>4. active' = active /\ drain' = drain
    BY <1>1 DEF Proceed, Settle
  <1>5. held' = {loaded'[n] : n \in Model} \ {None}
    <2>1. held = {loaded[n] : n \in Model} \ {None}
      BY <1>1 DEF ModelsOK
    <2>2. ASSUME NEW x PROVE x \in held' <=> x # None /\ \E n \in Model : x = loaded'[n]
      <3>1. r # None
        OBVIOUS
      <3> HIDE DEF M
      <3> QED  BY <1>1, <1>2, <2>1, <3>1
    <2> QED  BY <2>2
  <1>6. \A n \in Model : loaded'[n] # None => ModelOf[loaded'[n]] = n
    BY <1>1, <1>2 DEF ModelsOK
  <1>7. \A x \in Req : x # r => phase[x] \notin Working /\ uses[x] = None
    BY <1>1 DEF ActiveOK, ModelsOK
  <1>8. closing' # "closed"
    BY <1>1 DEF ClosedOK
  <1>9. \/ /\ phase' = [phase EXCEPT ![r] = "ended"] /\ uses' = [used EXCEPT ![r] = None]
        \/ /\ phase' = [phase EXCEPT ![r] = "starting"] /\ uses' = used
    BY <1>1 DEF Proceed, Settle
  <1>10. /\ phase' \in [Req -> Phase]
         /\ \/ phase'[r] = "ended" /\ uses'[r] = None
            \/ phase'[r] = "starting" /\ uses'[r] = r
         /\ \A x \in Req : x # r => phase'[x] = phase[x] /\ uses'[x] = None
         /\ uses' \in [Req -> Req \cup {None}]
    <2>1. phase \in [Req -> Phase]
      BY <1>1 DEF TypesOK
    <2> HIDE DEF used
    <2>2. CASE phase' = [phase EXCEPT ![r] = "ended"] /\ uses' = [used EXCEPT ![r] = None]
      BY <1>3, <1>7, <2>1, <2>2
    <2>3. CASE phase' = [phase EXCEPT ![r] = "starting"] /\ uses' = used
      BY <1>3, <1>7, <2>1, <2>3
    <2> QED  BY <1>9, <2>2, <2>3
  <1> HIDE DEF M, used
  <1>11. TypesOK' /\ ActiveOK'
    BY <1>1, <1>2, <1>4, <1>10 DEF TypesOK, ActiveOK
  <1>12. ModelsOK'
    <2>1. ASSUME NEW x \in Req
          PROVE  /\ uses'[x] # None => phase'[x] \in Working /\ loaded'[ModelOf[x]] = uses'[x]
                 /\ phase'[x] = "loading" /\ uses'[x] = None => loaded'[ModelOf[x]] = None
                 /\ phase'[x] \in {"starting", "running"} => uses'[x] # None
      <3>1. CASE x = r
        BY <1>2, <1>10, <3>1 DEF M
      <3>2. CASE x # r
        BY <1>7, <1>10, <3>2
      <3> QED  BY <3>1, <3>2
    <2> QED  BY <1>5, <1>6, <2>1 DEF ModelsOK
  <1>13. ClosedOK'
    BY <1>1, <1>8, <1>10 DEF ClosedOK, Closed
  <1> QED  BY <1>11, <1>12, <1>13 DEF JobsInv

(***************************************************************************)
(* Every step keeps the invariant                                          *)
(***************************************************************************)
LEMMA WorkStep ==
    ASSUME JobsInv,
           \/ \E r \in Req : ModelReady(r) \/ ModelLoads(r) \/ Starts(r) \/ RunEnds(r)
           \/ NextJob \/ DrainSettles
    PROVE  JobsInv' /\ UNCHANGED <<closing, runs, ask, idle>>
  <1> USE AssistantAssumption
  <1>1. TypesOK /\ ActiveOK /\ ModelsOK /\ ClosedOK
    BY DEF JobsInv
  <1>2. ASSUME NEW r \in Req, ModelReady(r)
        PROVE  JobsInv' /\ UNCHANGED <<closing, runs, ask, idle>>
    BY <1>2, ProceedKeeps DEF ModelReady, askVars
  <1>3. ASSUME NEW r \in Req, ModelLoads(r)
        PROVE  JobsInv' /\ UNCHANGED <<closing, runs, ask, idle>>
    <2>1. UNCHANGED <<closing, runs, ask, idle>>
      BY <1>3 DEF ModelLoads, askVars
    <2> QED  BY <1>3, <2>1, ModelLoadsKeeps
  <1>4. ASSUME NEW r \in Req, Starts(r)
        PROVE  JobsInv' /\ UNCHANGED <<closing, runs, ask, idle>>
    <2>1. /\ phase[r] = "starting" /\ phase' = [phase EXCEPT ![r] = "running"]
          /\ active' = active /\ drain' = drain /\ loaded' = loaded /\ held' = held
          /\ uses' = uses /\ timer' = timer /\ closing' = closing
          /\ UNCHANGED <<closing, runs, ask, idle>>
      BY <1>4 DEF Starts, modelVars, askVars
    <2>2. /\ phase' \in [Req -> Phase] /\ phase'[r] = "running"
          /\ \A x \in Req : x # r => phase'[x] = phase[x]
      BY <1>1, <2>1 DEF TypesOK
    <2>3. TypesOK' /\ ActiveOK'
      BY <1>1, <2>1, <2>2 DEF TypesOK, ActiveOK
    <2>4. ModelsOK'
      BY <1>1, <2>1, <2>2 DEF ModelsOK
    <2>5. ClosedOK'
      BY <1>1, <2>1, <2>2 DEF ClosedOK, Closed
    <2> QED  BY <2>1, <2>3, <2>4, <2>5 DEF JobsInv
  <1>5. ASSUME NEW r \in Req, RunEnds(r)
        PROVE  JobsInv' /\ UNCHANGED <<closing, runs, ask, idle>>
    <2>1. /\ phase[r] \in Working /\ Settle(r, uses)
          /\ UNCHANGED <<loaded, held, timer, closing>> /\ UNCHANGED <<closing, runs, ask, idle>>
      BY <1>5 DEF RunEnds, askVars
    <2>2. uses \in [Req -> Req \cup {None}]
      BY <1>1 DEF TypesOK
    <2> QED  BY <2>1, <2>2, SettleKeeps
  <1>6. CASE NextJob
    <2>1. /\ active # None /\ phase[active] = "ended" /\ Turn(queue, phase)
          /\ UNCHANGED <<loaded, held, closing>> /\ UNCHANGED <<closing, runs, ask, idle>>
      BY <1>6 DEF NextJob, askVars
    <2>2. Idle(phase) /\ phase \in [Req -> Phase]
      BY <1>1, <2>1 DEF Idle, ActiveOK, TypesOK
    <2> QED  BY <2>1, <2>2, TurnKeeps
  <1>7. CASE DrainSettles
    <2>1. /\ drain = "ended" /\ Reschedule
          /\ UNCHANGED <<loaded, held, closing>> /\ UNCHANGED <<closing, runs, ask, idle>>
      BY <1>7 DEF DrainSettles, askVars
    <2>2. Idle(phase) /\ phase \in [Req -> Phase]
      BY <1>1, <2>1 DEF Idle, ActiveOK, TypesOK
    <2>3. CASE Turn(queue, phase)
      BY <2>1, <2>2, <2>3, TurnKeeps
    <2>4. CASE drain' = "none" /\ UNCHANGED <<phase, queue, active, uses>>
      <3>1. TypesOK' /\ ActiveOK'
        BY <1>1, <2>1, <2>4 DEF TypesOK, ActiveOK
      <3>2. ModelsOK'
        BY <1>1, <2>1, <2>4 DEF ModelsOK
      <3>3. ClosedOK'
        BY <1>1, <2>1, <2>4 DEF ClosedOK, Closed
      <3> QED  BY <2>1, <3>1, <3>2, <3>3 DEF JobsInv
    <2> QED  BY <2>1, <2>3, <2>4 DEF Reschedule
  <1> QED  BY <1>2, <1>3, <1>4, <1>5, <1>6, <1>7

LEMMA IdleStep ==
    ASSUME JobsInv, idle \subseteq SUBSET Model, IdleFires \/ IdleGoesOn
    PROVE  /\ JobsInv' /\ UNCHANGED <<closing, runs, ask>>
           /\ idle' \subseteq SUBSET Model
  <1> USE AssistantAssumption
  <1>1. TypesOK /\ ActiveOK /\ ModelsOK /\ ClosedOK
    BY DEF JobsInv
  <1>2. CASE IdleFires
    <2>1. Idle(phase)
      BY <1>1, <1>2 DEF IdleFires, ActiveOK, Idle
    <2> DEFINE rest == {m \in Model : loaded[m] # None}
    <2>4. idle' \subseteq SUBSET Model
      BY <1>2 DEF IdleFires, Unload
    <2>2. /\ Unload(rest) /\ UNCHANGED <<jobVars, uses, closing>> /\ timer' = FALSE
          /\ UNCHANGED <<closing, runs, ask>>
      BY <1>2 DEF IdleFires, askVars
    <2>3. rest \in SUBSET Model
      OBVIOUS
    <2> HIDE DEF rest
    <2> QED  BY <2>1, <2>2, <2>3, <2>4, UnloadKeeps
  <1>3. CASE IdleGoesOn
    <2>1. /\ UNCHANGED <<jobVars, uses, timer, closing>> /\ UNCHANGED <<closing, runs, ask>>
      BY <1>3 DEF IdleGoesOn, askVars
    <2>2. PICK rest \in idle : IF Busy \/ rest = {}
                               THEN idle' = {} /\ UNCHANGED <<loaded, held>>
                               ELSE Unload(rest)
      BY <1>3 DEF IdleGoesOn
    <2>5. rest \in SUBSET Model /\ idle' \subseteq SUBSET Model
      BY <2>2 DEF Unload
    <2>3. CASE Busy \/ rest = {}
      <3>1. loaded' = loaded /\ held' = held
        BY <2>2, <2>3
      <3> QED
        BY <1>1, <2>1, <2>5, <3>1
        DEF JobsInv, jobVars, TypesOK, ActiveOK, ModelsOK, ClosedOK, Closed
    <2>4. CASE ~(Busy \/ rest = {})
      <3>1. Idle(phase)
        BY <1>1, <2>4 DEF Busy, ActiveOK, Idle
      <3>2. Unload(rest)
        BY <2>2, <2>4
      <3> QED  BY <2>1, <2>5, <3>1, <3>2, UnloadKeeps
    <2> QED  BY <2>3, <2>4
  <1> QED  BY <1>2, <1>3

LEMMA NextInv == IInv /\ [Next]_vars => IInv'
  <1> USE AssistantAssumption
  <1> SUFFICES ASSUME IInv, [Next]_vars PROVE IInv'
    OBVIOUS
  <1>1. /\ idle \subseteq SUBSET Model
        /\ JobsInv /\ PanelOK /\ TypesOK /\ ClosedOK /\ Page \subseteq Req /\ Ask \subseteq Req
    BY DEF IInv, JobsInv, Req
  <1>2. ASSUME JobsInv', UNCHANGED <<closing, runs, ask>>, idle' \subseteq SUBSET Model
        PROVE  IInv'
    BY <1>1, <1>2 DEF IInv, PanelOK, Closed
  <1>3. CASE \/ \E r \in Req : ModelReady(r) \/ ModelLoads(r) \/ Starts(r) \/ RunEnds(r)
             \/ NextJob \/ DrainSettles
    BY <1>1, <1>2, <1>3, WorkStep
  <1>4. CASE IdleFires \/ IdleGoesOn
    BY <1>1, <1>2, <1>4, IdleStep
  <1>5. ASSUME NEW r \in Page, PageAsks(r)
        PROVE  IInv'
    <2>1. /\ phase[r] = "new" /\ r \in Req /\ (Accept(r) \/ Refuse(r))
          /\ UNCHANGED <<closing, runs, ask, idle>>
      BY <1>1, <1>5 DEF PageAsks, askVars, Accept, Refuse, modelVars
    <2> QED  BY <1>1, <1>2, <2>1, AcceptKeeps, RefuseKeeps
  <1>6. ASSUME NEW r \in Page, PageCancels(r)
        PROVE  IInv'
    <2>1. /\ {r} \in SUBSET Req /\ CancelJobs({r})
          /\ UNCHANGED <<loaded, held, uses, timer>> /\ UNCHANGED <<closing, runs, ask, idle>>
      BY <1>1, <1>6 DEF PageCancels, modelVars, askVars
    <2> QED  BY <1>1, <1>2, <2>1, CancelKeeps
  <1>7. ASSUME NEW r \in Ask, AskStart(r)
        PROVE  IInv'
    <2>1. phase[r] = "new" /\ r \in Req /\ ask' = ask /\ UNCHANGED <<closing, idle>>
      BY <1>1, <1>7 DEF AskStart, Refuse, modelVars
    <2>2. CASE Refuse(r) /\ runs' = runs
      BY <1>1, <1>2, <2>1, <2>2, RefuseKeeps
    <2>3. CASE /\ ask = "open" /\ phase' = [phase EXCEPT ![r] = "context"]
               /\ runs' = runs \cup {r}
               /\ UNCHANGED <<active, drain, modelVars, closing>>
      <3>1. JobsInv'
        BY <1>1, <2>1, <2>3, PhaseKeeps
      <3> QED  BY <1>1, <2>1, <2>3, <3>1 DEF IInv, PanelOK, Closed, modelVars
    <2> QED  BY <1>7, <2>2, <2>3 DEF AskStart
  <1>8. ASSUME NEW r \in Ask, ContextLoads(r)
        PROVE  IInv'
    <2>1. phase[r] = "context" /\ r \in Req /\ ask' = ask /\ UNCHANGED <<closing, idle>>
      BY <1>1, <1>8 DEF ContextLoads, Refuse, Accept, modelVars
    <2>2. CASE Accept(r) /\ runs' = runs
      BY <1>1, <1>2, <2>1, <2>2, AcceptKeeps
    <2>3. CASE Refuse(r) /\ runs' = runs \ {r}
      <3>1. JobsInv'
        BY <1>1, <2>1, <2>3, RefuseKeeps
      <3> QED  BY <1>1, <2>1, <2>3, <3>1 DEF IInv, PanelOK, Closed, modelVars
    <2> QED  BY <1>8, <2>2, <2>3 DEF ContextLoads
  <1>9. ASSUME NEW r \in Ask, AskCancel(r)
        PROVE  IInv'
    <2>1. /\ {r} \in SUBSET Req /\ CancelJobs({r})
          /\ UNCHANGED <<loaded, held, uses, timer>> /\ UNCHANGED <<closing, runs, ask, idle>>
      BY <1>1, <1>9 DEF AskCancel, modelVars
    <2> QED  BY <1>1, <1>2, <2>1, CancelKeeps
  <1>10. ASSUME NEW r \in Ask, PumpEnds(r)
         PROVE  IInv'
    <2>1. runs' = runs \ {r} /\ UNCHANGED <<jobVars, modelVars, closing, ask>>
      BY <1>10 DEF PumpEnds
    <2>2. JobsInv'
      BY <1>1, <2>1
      DEF JobsInv, jobVars, modelVars, TypesOK, ActiveOK, ModelsOK, ClosedOK, Closed
    <2> QED  BY <1>1, <2>1, <2>2 DEF IInv, PanelOK, Closed, modelVars
  <1>11. CASE AskClose
    <2>1. /\ ask = "open" /\ ask' = "closing" /\ CancelJobs(runs)
          /\ UNCHANGED <<loaded, held, uses, timer, closing, runs, idle>>
      BY <1>11 DEF AskClose, modelVars
    <2>2. runs \in SUBSET Req
      BY <1>1 DEF PanelOK
    <2>3. JobsInv'
      BY <1>1, <2>1, <2>2, CancelKeeps
    <2> QED  BY <1>1, <2>1, <2>3 DEF IInv, PanelOK, Closed, modelVars
  <1>12. CASE AskCloseEnds
    <2>1. /\ ask' = "closed" /\ runs' = {} /\ UNCHANGED <<jobVars, modelVars, closing>>
      BY <1>12 DEF AskCloseEnds
    <2>2. JobsInv'
      BY <1>1, <2>1
      DEF JobsInv, jobVars, modelVars, TypesOK, ActiveOK, ModelsOK, ClosedOK, Closed
    <2> QED  BY <1>1, <2>1, <2>2 DEF IInv, PanelOK, Closed, modelVars
  <1>13. CASE Close
    <2>1. /\ ask = "closed" /\ timer' = FALSE /\ CancelJobs(Req)
          /\ closing' \in {"draining", "cancelling"}
          /\ UNCHANGED <<loaded, held, uses, runs, ask, idle>>
      BY <1>13 DEF Close, askVars
    <2>2. JobsInv'
      BY <1>1, <2>1, CancelKeeps
    <2> QED  BY <1>1, <2>1, <2>2 DEF IInv, PanelOK, Closed, modelVars
  <1>14. CASE CancelAnswered
    <2>1. /\ closing = "cancelling" /\ closing' \in {"draining", "failed"}
          /\ UNCHANGED <<jobVars, modelVars, askVars>>
      BY <1>14 DEF CancelAnswered
    <2>2. JobsInv'
      BY <1>1, <2>1
      DEF JobsInv, jobVars, modelVars, TypesOK, ActiveOK, ModelsOK, ClosedOK, Closed
    <2> QED  BY <1>1, <2>1, <2>2 DEF IInv, PanelOK, Closed, askVars, modelVars
  <1>15. CASE CloseEnds
    <2>1. /\ closing = "draining" /\ drain = "none" /\ closing' = "closed"
          /\ held' = held \ {loaded[m] : m \in Model}
          /\ loaded' = [m \in Model |-> None]
          /\ UNCHANGED <<jobVars, uses, timer>> /\ UNCHANGED <<runs, ask, idle>>
      BY <1>15 DEF CloseEnds, Drained, askVars
    <2>2. Idle(phase) /\ ActiveOK /\ ModelsOK
      BY <1>1, <2>1 DEF JobsInv, ActiveOK, Idle
    <2>3. held' = {}
      BY <2>1, <2>2 DEF ModelsOK
    <2>4. TypesOK' /\ ActiveOK'
      BY <1>1, <2>1, <2>2 DEF jobVars, TypesOK, ActiveOK
    <2>5. ModelsOK'
      BY <2>1, <2>2, <2>3 DEF jobVars, ModelsOK, Idle
    <2>6. ClosedOK'
      BY <1>1, <2>1, <2>2, <2>3 DEF jobVars, ClosedOK, Closed, Idle
    <2> QED
      BY <1>1, <2>1, <2>4, <2>5, <2>6 DEF IInv, JobsInv, PanelOK, Closed
  <1>16. CASE UNCHANGED vars
    <2>1. UNCHANGED <<jobVars, modelVars, closing, runs, ask, idle>>
      BY <1>16 DEF vars, askVars, modelVars
    <2>2. JobsInv'
      BY <1>1, <2>1
      DEF JobsInv, jobVars, modelVars, TypesOK, ActiveOK, ModelsOK, ClosedOK, Closed
    <2> QED  BY <1>1, <1>2, <2>1, <2>2 DEF modelVars
  <1> QED
    BY <1>3, <1>4, <1>5, <1>6, <1>7, <1>8, <1>9, <1>10, <1>11, <1>12, <1>13, <1>14, <1>15,
       <1>16 DEF Next, Progress

THEOREM Invariant == Spec => []IInv
  BY InitInv, NextInv, PTL DEF Spec

(***************************************************************************)
(* Theorems                                                                *)
(***************************************************************************)
\* One request is at the adapter at a time, and the model it was given stays
\* loaded while idle models are unloaded around it.
THEOREM UseCorrect == Spec => []InUseStaysLoaded
  <1>1. IInv => InUseStaysLoaded
    <2> SUFFICES ASSUME IInv, NEW r \in Req, phase[r] \in Working,
                        phase[r] = "loading" => uses[r] # None
                 PROVE  active = r /\ uses[r] \in held
      BY DEF InUseStaysLoaded
    <2>1. active = r /\ uses[r] # None /\ loaded[ModelOf[r]] = uses[r]
      BY DEF IInv, JobsInv, ActiveOK, ModelsOK
    <2>2. ModelOf[r] \in Model
      BY AssistantAssumption
    <2> QED  BY <2>1, <2>2 DEF IInv, JobsInv, ModelsOK
  <1> QED  BY <1>1, Invariant, PTL

\* When close() has returned no request is open, the panel has no stream and
\* no model is in memory.
THEOREM CloseCorrect == Spec => []ClosedIsQuiet
  <1>1. IInv => ClosedIsQuiet
    BY DEF IInv, JobsInv, ClosedOK, PanelOK, ClosedIsQuiet, Closed, Open
  <1> QED  BY <1>1, Invariant, PTL
=============================================================================
