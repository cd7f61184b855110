------------------------------ MODULE Assistant ------------------------------
(***************************************************************************)
(* The local assistant: QvacService (backend/ai/qvac-service.mjs), which   *)
(* queues the completions of pages and of the Ask Browser panel, runs them *)
(* one at a time over a native adapter, loads models on demand, unloads    *)
(* them when idle and shuts down; and AskBrowserService                    *)
(* (backend/ai/ask-browser-service.cjs) over it.                           *)
(*                                                                         *)
(* An action is what runs between two awaits.  A request is used once, so  *)
(* the model it loads, if it has to load one, is named by the request.     *)
(* What is said in a stream is left out, and so is unloadModel, which      *)
(* nothing in the program calls.                                           *)
(***************************************************************************)
EXTENDS Naturals, Sequences, FiniteSets

CONSTANTS None,
          Page, Ask,   \* requests of pages and of the panel
          StreamOf,    \* the stream id the panel chose for a request
          Model, ModelOf,
          MaxQueue     \* _maxQueue

Req == Page \cup Ask

ASSUME AssistantAssumption ==
    /\ Page \cap Ask = {} /\ None \notin Req
    /\ ModelOf \in [Req -> Model] /\ DOMAIN StreamOf = Ask
    /\ MaxQueue \in Nat \ {0}

VARIABLES
    phase,      \* [Req -> ...] where the request is
    queue,      \* _queue
    active,     \* _active
    drain,      \* _drainPromise: none, looping, or ended and not yet settled
    cancelled,  \* open requests with job.cancelled
    loaded,     \* [Model -> Req or None] _loaded: who loaded it
    held,       \* models in native memory the adapter was not asked to unload
    uses,       \* [Req -> Req or None] the model id _run has got
    timer,      \* _idleTimer
    idle,       \* runs of _unloadIdleModels that wait for the adapter
    closing,    \* close() of QvacService
    runs,       \* _runs of AskBrowserService
    wanted,     \* entries of it with cancelRequested
    ask         \* AskBrowserService: open, closing, closed

jobVars == <<phase, queue, active, drain, cancelled>>
modelVars == <<loaded, held, uses, timer, idle>>
askVars == <<runs, wanted, ask>>
vars == <<jobVars, modelVars, closing, askVars>>

Closed == closing # "no"
Open(r) == phase[r] \in {"queued", "loading", "starting", "running"}
-----------------------------------------------------------------------------
(* The queue.                                                              *)

\* The next turn of _drain: the head of the queue becomes active and asks for
\* its model, or the loop ends.  A model already loaded is not loaded again.
Turn(q, phases) ==
    IF ~Closed /\ q # <<>>
    THEN LET r == Head(q)
         IN  /\ queue' = Tail(q) /\ active' = r /\ drain' = "looping"
             /\ phase' = [phases EXCEPT ![r] = "loading"]
             /\ uses' = [uses EXCEPT ![r] = loaded[ModelOf[r]]]
             /\ timer' = FALSE
    ELSE /\ queue' = q /\ active' = None /\ drain' = "ended"
         /\ phase' = phases
         /\ UNCHANGED <<uses, timer>>

HasRoom == Len(queue) < MaxQueue

\* complete: the request waits, and the loop starts if there is none.
Accept(r) ==
    /\ ~Closed /\ HasRoom
    /\ LET q == Append(queue, r)
           phases == [phase EXCEPT ![r] = "queued"]
       IN  IF drain = "none"
           THEN Turn(q, phases)
           ELSE /\ queue' = q /\ phase' = phases /\ timer' = FALSE
                /\ UNCHANGED <<active, drain, uses>>
    /\ UNCHANGED <<cancelled, loaded, held, idle, closing>>

Refuse(r) ==
    /\ phase' = [phase EXCEPT ![r] = "refused"]
    /\ UNCHANGED <<queue, active, drain, cancelled, modelVars, closing>>

\* cancel, for some requests: what waits in the queue is settled; the active
\* one is told to the adapter, if the adapter knows it by now, or else at its
\* first event.
Told(R) == {r \in R : phase[r] = "running"}
CancelJobs(R) ==
    LET C == {r \in R : Open(r)}
        Q == {r \in C : phase[r] = "queued"}
    IN  /\ cancelled' = cancelled \cup (C \ Q)
        /\ queue' = SelectSeq(queue, LAMBDA r : r \notin Q)
        /\ phase' = [r \in Req |-> IF r \in Q THEN "ended" ELSE phase[r]]
        /\ UNCHANGED <<active, drain>>

\* The stream is ended, the final promise settled and the job forgotten; how is
\* left out: a cancelled job and one the adapter cancelled end as cancelled.
Settle(r, used) ==
    /\ phase' = [phase EXCEPT ![r] = "ended"]
    /\ cancelled' = cancelled \ {r}
    /\ uses' = [used EXCEPT ![r] = None]
    /\ UNCHANGED <<queue, active, drain>>

\* _run, with its model: a cancelled request goes no further.
Proceed(r, used) ==
    IF r \in cancelled
    THEN Settle(r, used)
    ELSE /\ phase' = [phase EXCEPT ![r] = "starting"]
         /\ uses' = used
         /\ UNCHANGED <<queue, active, drain, cancelled>>

ModelReady(r) ==
    /\ active = r /\ phase[r] = "loading" /\ uses[r] # None
    /\ Proceed(r, uses)
    /\ UNCHANGED <<loaded, held, timer, idle, closing, askVars>>

\* ensureModel: the adapter has loaded the model.
ModelLoads(r) ==
    /\ active = r /\ phase[r] = "loading" /\ uses[r] = None
    /\ loaded' = [loaded EXCEPT ![ModelOf[r]] = r]
    /\ held' = held \cup {r}
    /\ Proceed(r, [uses EXCEPT ![r] = r])
    /\ UNCHANGED <<timer, idle, closing, askVars>>

Starts(r) ==
    /\ phase[r] = "starting"
    /\ phase' = [phase EXCEPT ![r] = "running"]
    /\ UNCHANGED <<queue, active, drain, cancelled, modelVars, closing, askVars>>

\* The run is over; or the load, the start, the run or a cancel during it is
\* rejected.
RunEnds(r) ==
    /\ \/ phase[r] = "loading" /\ uses[r] = None
       \/ phase[r] \in {"starting", "running"}
    /\ Settle(r, uses)
    /\ UNCHANGED <<loaded, held, timer, idle, closing, askVars>>

NextJob ==
    /\ active # None /\ phase[active] = "ended"
    /\ Turn(queue, phase)
    /\ UNCHANGED <<cancelled, loaded, held, idle, closing, askVars>>

\* Bug: whoever came after the last turn of the loop is not looked for.
NotRescheduled ==
    /\ drain' = "none" /\ UNCHANGED <<phase, queue, active, uses, timer>>
\* Bug: the timer is armed by loads only.
NotArmed ==
    IF queue # <<>> /\ ~Closed
    THEN Turn(queue, phase)
    ELSE drain' = "none" /\ UNCHANGED <<phase, queue, active, uses, timer>>

\* _schedule, when the loop's promise settles: a request that came after the
\* last turn starts another loop, else the idle timer is armed.
Reschedule ==
    IF queue # <<>> /\ ~Closed
    THEN Turn(queue, phase)
    ELSE /\ drain' = "none"
         /\ timer' = (~Closed /\ \E m \in Model : loaded[m] # None)
         /\ UNCHANGED <<phase, queue, active, uses>>

DrainSettles ==
    /\ drain = "ended"
    /\ Reschedule
    /\ UNCHANGED <<cancelled, loaded, held, idle, closing, askVars>>
-----------------------------------------------------------------------------
(* Idle models.                                                            *)

\* One turn of the loop of _unloadIdleModels.
Unload(rest) ==
    \E m \in rest :
        /\ held' = held \ {loaded[m]}
        /\ loaded' = [loaded EXCEPT ![m] = None]
        /\ idle' = {rest \ {m}}

\* The quiet window is taken to be longer than an unload takes, so one run of
\* _unloadIdleModels is over before the timer fires again.
IdleFires ==
    /\ timer /\ idle = {}
    /\ timer' = FALSE
    /\ Unload({m \in Model : loaded[m] # None})
    /\ UNCHANGED <<jobVars, uses, closing, askVars>>

\* Bug: the loop does not look up again.
NeverBusy == Closed
Busy == Closed \/ active # None \/ queue # <<>>

\* The adapter has unloaded one of them.
IdleGoesOn ==
    /\ \E rest \in idle :
          IF Busy \/ rest = {}
          THEN idle' = {} /\ UNCHANGED <<loaded, held>>
          ELSE Unload(rest)
    /\ UNCHANGED <<jobVars, uses, timer, closing, askVars>>
-----------------------------------------------------------------------------
(* Pages and the panel.                                                    *)

PageAsks(r) ==
    /\ phase[r] = "new"
    /\ Accept(r) \/ ((Closed \/ ~HasRoom) /\ Refuse(r))
    /\ UNCHANGED askVars

\* /api/ai/cancel, or the page goes away.
PageCancels(r) ==
    /\ Open(r)
    /\ CancelJobs({r})
    /\ UNCHANGED <<modelVars, closing, askVars>>

\* start: the id is reserved before the context is loaded.
AskStart(r) ==
    /\ phase[r] = "new"
    /\ IF ask = "open" /\ \A s \in runs : StreamOf[s] # StreamOf[r]
       THEN /\ phase' = [phase EXCEPT ![r] = "context"]
            /\ runs' = runs \cup {r}
            /\ UNCHANGED <<queue, active, drain, cancelled, modelVars, closing>>
       ELSE Refuse(r) /\ UNCHANGED runs
    /\ UNCHANGED <<wanted, ask>>

ContextLoads(r) ==
    /\ phase[r] = "context"
    /\ \/ /\ ask = "open" /\ r \notin wanted
          /\ Accept(r)
          /\ UNCHANGED <<runs, wanted>>
       \/ Refuse(r) /\ runs' = runs \ {r} /\ wanted' = wanted \ {r}
    /\ UNCHANGED ask

AskCancel(r) ==
    /\ r \in runs
    /\ wanted' = wanted \cup {r}
    /\ CancelJobs({r})
    /\ UNCHANGED <<modelVars, closing, runs, ask>>

\* _pump: the stream is over and its id free.
PumpEnds(r) ==
    /\ r \in runs /\ phase[r] = "ended"
    /\ runs' = runs \ {r} /\ wanted' = wanted \ {r}
    /\ UNCHANGED <<jobVars, modelVars, closing, ask>>
-----------------------------------------------------------------------------
(* Shutdown: the panel first, then the service.                            *)

AskClose ==
    /\ ask = "open"
    /\ ask' = "closing" /\ wanted' = wanted \cup runs
    /\ CancelJobs(runs)
    /\ UNCHANGED <<modelVars, closing, runs>>

\* Every pump has ended; what still loads its context is refused later.
AskCloseEnds ==
    /\ ask = "closing" /\ \A r \in runs : phase[r] = "context"
    /\ ask' = "closed" /\ runs' = {} /\ wanted' = {}
    /\ UNCHANGED <<jobVars, modelVars, closing>>

Close ==
    /\ closing = "no" /\ ask = "closed"
    /\ timer' = FALSE
    /\ CancelJobs(Req)
    /\ closing' = IF Told(Req) \subseteq cancelled THEN "draining" ELSE "cancelling"
    /\ UNCHANGED <<loaded, held, uses, idle, askVars>>

\* The adapter answers the cancel of close; a rejection ends close there.
CancelAnswered ==
    /\ closing = "cancelling"
    /\ closing' \in {"draining", "failed"}
    /\ UNCHANGED <<jobVars, modelVars, askVars>>

\* Bug: the loop is not waited for.
NotAwaited == TRUE
Drained == drain = "none"

\* The loop is over: every model is unloaded and the adapter closed.
CloseEnds ==
    /\ closing = "draining" /\ Drained
    /\ closing' = "closed"
    /\ held' = held \ {loaded[m] : m \in Model}
    /\ loaded' = [m \in Model |-> None]
    /\ UNCHANGED <<jobVars, uses, timer, idle, askVars>>
-----------------------------------------------------------------------------
Init ==
    /\ phase = [r \in Req |-> "new"]
    /\ queue = <<>> /\ active = None /\ drain = "none"
    /\ cancelled = {}
    /\ loaded = [m \in Model |-> None] /\ held = {}
    /\ uses = [r \in Req |-> None]
    /\ timer = FALSE /\ idle = {}
    /\ closing = "no" /\ runs = {} /\ wanted = {} /\ ask = "open"

\* What the program does by itself, and the answers of the adapter.
Progress ==
    \/ \E r \in Req : ModelReady(r) \/ ModelLoads(r) \/ Starts(r)
                      \/ RunEnds(r)
    \/ NextJob \/ DrainSettles \/ IdleGoesOn
    \/ \E r \in Ask : ContextLoads(r) \/ PumpEnds(r)
    \/ AskCloseEnds \/ CancelAnswered \/ CloseEnds

Next ==
    \/ Progress
    \/ \E r \in Page : PageAsks(r) \/ PageCancels(r)
    \/ \E r \in Ask : AskStart(r) \/ AskCancel(r)
    \/ IdleFires \/ AskClose \/ Close

Spec == Init /\ [][Next]_vars

\* The adapter answers every call, the timer fires and shutdown, once begun,
\* goes on.  Nothing makes a user or a page do anything.
FairSpec ==
    /\ Spec
    /\ WF_vars(Progress) /\ WF_vars(IdleFires)
    /\ WF_vars(Close)
-----------------------------------------------------------------------------
TypeOK ==
    /\ phase \in [Req -> {"new", "context", "queued", "loading", "starting",
                          "running", "ended", "refused"}]
    /\ queue \in Seq(Req) /\ Len(queue) <= MaxQueue
    /\ active \in Req \cup {None} /\ drain \in {"none", "looping", "ended"}
    /\ cancelled \subseteq Req
    /\ loaded \in [Model -> Req \cup {None}] /\ held \subseteq Req
    /\ uses \in [Req -> Req \cup {None}]
    /\ timer \in BOOLEAN /\ idle \subseteq SUBSET Model
    /\ closing \in {"no", "cancelling", "draining", "closed", "failed"}
    /\ runs \subseteq Ask /\ wanted \subseteq Ask
    /\ ask \in {"open", "closing", "closed"}

\* At most one request is at the adapter, and the model it was given stays
\* loaded, although idle models are unloaded one await at a time while it comes
\* (QVAC_NATIVE_AI.md:79; qvac-service.mjs:284-293, :319-337).
InUseStaysLoaded ==
    \A r \in Req :
        (phase[r] \in {"starting", "running"} \/ (phase[r] = "loading" /\ uses[r] # None))
            => active = r /\ uses[r] \in held

\* When close() has returned, every request has been answered, the panel has no
\* stream and no model is left in native memory (QVAC_NATIVE_AI.md:90).
ClosedIsQuiet ==
    closing = "closed" =>
        /\ \A r \in Req : ~Open(r)
        /\ runs = {} /\ held = {}

\* Every request that was accepted is answered, also one that arrives between
\* the last turn of the loop and the end of its promise, and the stream id of
\* the panel comes free (qvac-service.mjs:254-260, ask-browser-service.cjs).
RequestSettles ==
    \A r \in Req :
        /\ Open(r) ~> phase[r] = "ended"
        /\ r \in runs ~> r \notin runs

\* A model does not stay in memory: it is unloaded when nobody asks any more,
\* or on shutdown, unless the adapter refused to cancel and close() gave up
\* (QVAC_NATIVE_AI.md:83, :90).
MemoryReleased == held # {} ~> (held = {} \/ closing = "failed")
=============================================================================
