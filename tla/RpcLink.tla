------------------------------ MODULE RpcLink ------------------------------
(***************************************************************************)
(* The RPC link between the renderer and the backend of one launch.  A     *)
(* page load holds an RpcClient over a WsPipe that reconnects; the host    *)
(* bridges at most one renderer socket to the backend's in-memory pipe,    *)
(* buffers what the backend writes while no renderer is attached, and      *)
(* tears the process down when none returns within the grace period.       *)
(* Diagnostic sockets share the backend under ids of the host's own.       *)
(*                                                                         *)
(* Code: src/index.js, src/ui/boot.js, src/ui/rpc-client.js,               *)
(* src/backend/rpc.js, src/backend/rpc-websocket-auth.cjs.  Frames are     *)
(* whole: the length prefix is parsed by both ends and is not modelled.    *)
(***************************************************************************)
EXTENDS Integers, SequencesExt

CONSTANTS
    MaxSockets,     \* bound: renderer sockets, numbered in the order they open
    MaxLoads,       \* bound: page loads (renderer reloads), numbered
    MaxAttempts,    \* maxReconnectAttempts of a WsPipe
    MaxCalls,       \* bound: requests of one page load
    MaxEvents,      \* bound: push events of the backend
    Diag            \* diagnostic sockets, one request each

ASSUME RpcAssumption ==
    /\ MaxSockets \in Nat /\ MaxLoads \in Nat \ {0} /\ MaxAttempts \in Nat
    /\ MaxCalls \in Nat /\ MaxEvents \in Nat
    /\ Diag \cap Nat = {}

None == 0           \* no socket
Socket == 1..MaxSockets
Load == 1..MaxLoads

VARIABLES
    page,       \* the load and its RpcClient: load, next, connected, calls
    pipe,       \* the load's WsPipe: sock, state, attempts, boot
    sock,       \* each renderer socket at both of its ends, and what it carries
    host,       \* index.js: client, timer, torn, and eventBuffer as buffer
    backend,    \* the frames WorkletRPC handlers are working on
    emitted,    \* push events so far
    diag,       \* DiagnosticRpcRouter: the open sockets, pending, nextHostId
    answers,    \* ghost: <<asker's call, call it was answered with>>
    seen,       \* ghost: the events the page received
    lost        \* ghost: the events written to a socket that was already cut

vars == <<page, pipe, sock, host, backend, emitted, diag, answers, seen, lost>>

\* What a frame answers is not on the wire: "of" is the caller and the id it
\* used, kept to tell one call from another that uses the same id.
Caller == Load \cup Diag
Calls == [id : Int, of : Caller \X Nat]
Reply(call) == [kind |-> "reply", id |-> call.id, of |-> call.of]
Event(n) == [kind |-> "event", n |-> n]
IsReply(frame) == frame.kind = "reply"
Events(frames) == {f.n : f \in {g \in ToSet(frames) : ~IsReply(g)}}

Unopened == [page |-> "idle", host |-> "idle", cut |-> FALSE,
             up |-> <<>>, down |-> <<>>]

Init ==
    /\ page = [load |-> 1, next |-> 1, connected |-> FALSE, calls |-> {}]
    /\ pipe = [sock |-> None, state |-> "waiting", attempts |-> 0, boot |-> TRUE]
    /\ sock = [s \in Socket |-> Unopened]
    /\ host = [client |-> None, timer |-> FALSE, torn |-> FALSE, buffer |-> <<>>]
    /\ backend = {} /\ emitted = 0
    /\ diag = [open |-> Diag, pending |-> {}, nextHostId |-> -1]
    /\ answers = {} /\ seen = <<>> /\ lost = {}

-----------------------------------------------------------------------------
(* The page: WsPipe and RpcClient.                                         *)

Here == pipe.sock
Opened == {s \in Socket : sock[s].page # "idle"}

\* _connect: the reconnect timer, or the port scan of startBackend, fires.
Connect ==
    /\ pipe.state = "waiting"
    /\ \E s \in Socket \ Opened :
        /\ \A t \in Socket \ Opened : s <= t
        /\ pipe' = [pipe EXCEPT !.sock = s, !.state = "connecting"]
        /\ sock' = [sock EXCEPT ![s].page = "connecting", ![s].cut = host.torn]
    /\ UNCHANGED <<page, host, backend, emitted, diag, answers, seen, lost>>

\* 'open': the host has answered the handshake, also of a socket it refused.
Open ==
    /\ pipe.state = "connecting" /\ sock[Here].host # "idle"
    /\ pipe' = [pipe EXCEPT !.state = "open", !.attempts = 0, !.boot = FALSE]
    /\ page' = [page EXCEPT !.connected = TRUE]
    /\ sock' = [sock EXCEPT ![Here].page = "open"]
    /\ UNCHANGED <<host, backend, emitted, diag, answers, seen, lost>>

Rescheduled ==
    IF pipe.boot \/ pipe.attempts < MaxAttempts
    THEN [pipe EXCEPT !.state = "waiting",
                      !.attempts = IF pipe.boot THEN @ ELSE @ + 1]
    ELSE [pipe EXCEPT !.state = "failed"]

\* _handleDisconnect of the pipe, then _disconnect of the client: every call
\* that waits is rejected.  A socket delivers what it carries before 'close'.
Disconnect ==
    /\ pipe.state \in {"connecting", "open"} /\ sock[Here].cut
    /\ pipe.state = "open" => sock[Here].down = <<>>
    /\ pipe' = Rescheduled
    /\ page' = [page EXCEPT !.connected = FALSE, !.calls = {}]
    /\ sock' = [sock EXCEPT ![Here].page = "closed", ![Here].down = <<>>]
    /\ lost' = lost \cup Events(sock[Here].down)
    /\ UNCHANGED <<host, backend, emitted, diag, answers, seen>>

\* startBackend's deadline: the load shows the failure and stops scanning.
GiveUp ==
    /\ pipe.boot /\ pipe.state = "waiting"
    /\ pipe' = [pipe EXCEPT !.state = "failed"]
    /\ UNCHANGED <<page, sock, host, backend, emitted, diag, answers, seen, lost>>

\* request: a fresh id, an entry in _pending, a frame on the socket (which is
\* lost if the connection is cut and the page has not heard of it yet).
Request ==
    /\ page.connected /\ page.next <= MaxCalls
    /\ page' = [page EXCEPT !.next = @ + 1, !.calls = @ \cup {page.next}]
    /\ sock' = IF sock[Here].cut THEN sock
               ELSE [sock EXCEPT ![Here].up =
                       Append(@, [id |-> page.next, of |-> <<page.load, page.next>>])]
    /\ UNCHANGED <<pipe, host, backend, emitted, diag, answers, seen, lost>>

Timeout(id) ==
    /\ id \in page.calls
    /\ page' = [page EXCEPT !.calls = @ \ {id}]
    /\ UNCHANGED <<pipe, sock, host, backend, emitted, diag, answers, seen, lost>>

\* _dispatch: a reply settles the call that waits under its id, if one does.
Receive ==
    /\ pipe.state = "open" /\ sock[Here].down # <<>>
    /\ LET frame == Head(sock[Here].down)
           answered == IsReply(frame) /\ frame.id \in page.calls
       IN  /\ page' = IF answered THEN [page EXCEPT !.calls = @ \ {frame.id}] ELSE page
           /\ answers' = IF answered
                         THEN answers \cup {<<<<page.load, frame.id>>, frame.of>>}
                         ELSE answers
           /\ seen' = IF IsReply(frame) THEN seen ELSE Append(seen, frame.n)
    /\ sock' = [sock EXCEPT ![Here].down = Tail(@)]
    /\ UNCHANGED <<pipe, host, backend, emitted, diag, lost>>

\* The user reloads the renderer: a new page, a new pipe, a new RpcClient.
Reload ==
    /\ page.load + 1 \in Load
    /\ page' = [load |-> page.load + 1, next |-> 1, connected |-> FALSE, calls |-> {}]
    /\ pipe' = [sock |-> None, state |-> "waiting", attempts |-> 0, boot |-> TRUE]
    /\ sock' = IF pipe.state \in {"connecting", "open"}
               THEN [sock EXCEPT ![Here].page = "closed", ![Here].cut = TRUE,
                                 ![Here].down = <<>>]
               ELSE sock
    /\ lost' = IF Here = None THEN lost ELSE lost \cup Events(sock[Here].down)
    /\ UNCHANGED <<host, backend, emitted, diag, answers, seen>>

-----------------------------------------------------------------------------
(* The host: index.js.                                                     *)

\* Where a frame of the backend goes: the renderer's socket, or the buffer.
Cut(s) == s # None /\ sock[s].cut
Forward(frame) ==
    /\ sock' = IF host.client # None /\ ~Cut(host.client)
               THEN [sock EXCEPT ![host.client].down = Append(@, frame)] ELSE sock
    /\ host' = IF host.client = None
               THEN [host EXCEPT !.buffer = Append(@, frame)] ELSE host
    /\ lost' = IF Cut(host.client) THEN lost \cup Events(<<frame>>) ELSE lost

\* Bug: the buffer is emptied before it is written
BacklogDropped == <<>>
Backlog == host.buffer

\* Bug: the buffer is written and kept
Kept == host
Flushed == [host EXCEPT !.buffer = <<>>]

\* onSocket: one renderer at a time, and the one that is taken gets what was
\* buffered, in order, before anything else.
Accept(s) ==
    /\ ~host.torn /\ sock[s].page # "idle" /\ sock[s].host = "idle"
    /\ IF host.client # None
       THEN /\ sock' = [sock EXCEPT ![s].host = "refused", ![s].cut = TRUE]
            /\ UNCHANGED <<host, lost>>
       ELSE /\ host' = [Flushed EXCEPT !.client = s, !.timer = FALSE]
            /\ sock' = [sock EXCEPT ![s].host = "taken",
                                    ![s].down = IF Cut(s) THEN @ ELSE Backlog]
            /\ lost' = IF Cut(s) THEN lost \cup Events(host.buffer) ELSE lost
    /\ UNCHANGED <<page, pipe, backend, emitted, diag, answers, seen>>

\* socket.on('data'): the frame reaches a handler through the in-memory pipe.
HostReceives(s) ==
    /\ ~host.torn /\ sock[s].host = "taken" /\ sock[s].up # <<>>
    /\ backend' = backend \cup {Head(sock[s].up)}
    /\ sock' = [sock EXCEPT ![s].up = Tail(@)]
    /\ UNCHANGED <<page, pipe, host, emitted, diag, answers, seen, lost>>

\* Bug: any socket's end detaches the renderer.
AnyDetaches(s) == TRUE
IsAttached(s) == host.client = s
\* detachRenderer: only the socket that is attached detaches the renderer.
Detached(s) ==
    IF IsAttached(s) THEN [host EXCEPT !.client = None, !.timer = TRUE] ELSE host

\* A socket that fails emits 'error' and later 'close'; each detaches it.
HostError(s) ==
    /\ ~host.torn /\ sock[s].host = "taken" /\ sock[s].cut
    /\ host' = Detached(s)
    /\ sock' = [sock EXCEPT ![s].host = "errored", ![s].up = <<>>]
    /\ UNCHANGED <<page, pipe, backend, emitted, diag, answers, seen, lost>>

HostClose(s) ==
    /\ ~host.torn /\ sock[s].cut /\ sock[s].up = <<>>
    /\ sock[s].host \in {"taken", "errored"}
    /\ host' = Detached(s)
    /\ sock' = [sock EXCEPT ![s].host = "closed"]
    /\ UNCHANGED <<page, pipe, backend, emitted, diag, answers, seen, lost>>

\* teardown: the server, the renderer's socket and the backend pipe close.
TearDown ==
    /\ host' = [host EXCEPT !.timer = FALSE, !.torn = TRUE]
    /\ sock' = [s \in Socket |-> IF sock[s].page = "idle" THEN sock[s]
                                 ELSE [sock[s] EXCEPT !.cut = TRUE]]
    /\ UNCHANGED <<page, pipe, backend, emitted, diag, answers, seen, lost>>

\* Bug: the grace period ends and nothing comes of it
GraceForgotten ==
    /\ host.timer /\ ~host.torn
    /\ host' = [host EXCEPT !.timer = FALSE]
    /\ UNCHANGED <<page, pipe, sock, backend, emitted, diag, answers, seen, lost>>

GraceEnds ==
    /\ host.timer /\ ~host.torn
    /\ IF host.client = None THEN TearDown
       ELSE /\ host' = [host EXCEPT !.timer = FALSE]
            /\ UNCHANGED <<page, pipe, sock, backend, emitted, diag, answers, seen, lost>>

\* SIGTERM, SIGINT, or the Electron host ending the worker.
Quit == ~host.torn /\ TearDown

\* The connection breaks: what was under way is delivered up to some frame.
Breaks(s) ==
    /\ sock[s].page \in {"connecting", "open"} /\ ~sock[s].cut
    /\ \E i \in 0..Len(sock[s].up), j \in 0..Len(sock[s].down) :
        /\ sock' = [sock EXCEPT ![s].cut = TRUE, ![s].up = SubSeq(@, 1, i),
                                ![s].down = SubSeq(@, 1, j)]
        /\ lost' = lost \cup Events(SubSeq(sock[s].down, j + 1, Len(sock[s].down)))
    /\ UNCHANGED <<page, pipe, host, backend, emitted, diag, answers, seen>>

-----------------------------------------------------------------------------
(* The backend, and the diagnostic sockets of the host.                    *)

\* A reply the router has a route for goes to the socket that asked, if it is
\* still there; the renderer's side sees every frame.
RouteOf(call) == {r \in diag.pending : r.hostId = call.id}
Routed(call) == [diag EXCEPT !.pending = @ \ RouteOf(call)]
Told(call) == {<<<<r.of, 1>>, call.of>> : r \in {x \in RouteOf(call) : x.of \in diag.open}}

\* A handler returns or throws: _reply.
Finish(call) ==
    /\ ~host.torn /\ call \in backend
    /\ backend' = backend \ {call}
    /\ Forward(Reply(call))
    /\ diag' = Routed(call)
    /\ answers' = answers \cup Told(call)
    /\ UNCHANGED <<page, pipe, emitted, seen>>

Emit ==
    /\ ~host.torn /\ emitted < MaxEvents
    /\ emitted' = emitted + 1
    /\ Forward(Event(emitted + 1))
    /\ UNCHANGED <<page, pipe, backend, diag, answers, seen>>

\* Bug: the host's ids count up like the renderer's
HostIdCountsUp == -diag.nextHostId
HostId == diag.nextHostId
Asks(d) ==
    /\ ~host.torn /\ d \in diag.open
    /\ \A r \in diag.pending : r.of # d
    /\ \A a \in answers : a[1] # <<d, 1>>
    /\ diag' = [diag EXCEPT !.pending = @ \cup {[hostId |-> HostId, of |-> d]},
                            !.nextHostId = @ - 1]
    /\ backend' = backend \cup {[id |-> HostId, of |-> <<d, 1>>]}
    /\ UNCHANGED <<page, pipe, sock, host, emitted, answers, seen, lost>>

DiagClose(d) ==
    /\ d \in diag.open
    /\ diag' = [diag EXCEPT !.open = @ \ {d},
                            !.pending = {r \in @ : r.of # d}]
    /\ UNCHANGED <<page, pipe, sock, host, backend, emitted, answers, seen, lost>>

-----------------------------------------------------------------------------
PageNext == \/ Connect \/ Open \/ Disconnect \/ GiveUp \/ Request \/ Receive
            \/ Reload \/ \E id \in 1..MaxCalls : Timeout(id)
HostNext == \/ GraceEnds \/ Quit
            \/ \E s \in Socket : \/ Accept(s) \/ HostReceives(s) \/ HostError(s)
                                 \/ HostClose(s) \/ Breaks(s)
BackendNext == \/ Emit \/ \E call \in backend : Finish(call)
               \/ \E d \in Diag : Asks(d) \/ DiagClose(d)
Next == PageNext \/ HostNext \/ BackendNext
Spec == Init /\ [][Next]_vars

\* Timers fire: a request's timeout, the grace period.
FairSpec ==
    /\ Spec
    /\ WF_vars(GraceEnds)
    /\ \A id \in 1..MaxCalls : WF_vars(Timeout(id))

-----------------------------------------------------------------------------
(* Properties.                                                             *)

TypeOK ==
    /\ page \in [load : Load, next : 1..(MaxCalls + 1), connected : BOOLEAN,
                 calls : SUBSET (1..MaxCalls)]
    /\ pipe \in [sock : Socket \cup {None}, attempts : 0..MaxAttempts, boot : BOOLEAN,
                 state : {"waiting", "connecting", "open", "failed"}]
    /\ host.client \in Socket \cup {None} /\ host.timer \in BOOLEAN /\ host.torn \in BOOLEAN
    /\ page.connected <=> pipe.state = "open"
    /\ pipe.state \in {"connecting", "open"} => Here \in Socket
    /\ page.calls # {} => page.connected
    /\ \A id \in page.calls : id < page.next
    /\ emitted \in 0..MaxEvents

\* The renderer and the diagnostics share one backend and number their own
\* calls; an answer never crosses from one side to the other, and a diagnostic
\* gets the answer to its own call (rpc-websocket-auth.cjs:110-130).  So does a
\* page, but for replies to a call of an earlier load: a reload starts the ids
\* again at 1 while the host keeps the backend and what it has buffered
\* (rpc-client.js:13, index.js:117-119, 231-233), so an old reply can settle a
\* new call of the same id.
AnswersKeepToTheirSide ==
    \A a \in answers :
        IF a[1][1] \in Diag THEN a[2] = a[1]
        ELSE a[2][1] \in 1..a[1][1] /\ a[2][2] = a[1][2]

\* The page never gets an event twice nor a later event before an earlier one,
\* whatever reconnections and reloads lie between (index.js:117-119, 213-214).
EventsInOrder ==
    \A i, j \in DOMAIN seen : i < j => seen[i] < seen[j]

\* An event the page has not seen is buffered, on its way to the page, or was
\* written to a connection that broke: detaching the renderer loses none
\* (index.js:107-112, 235).
OnTheWay == UNION {Events(sock[s].down) : s \in Socket}
EventsAccounted ==
    1..emitted \subseteq ToSet(seen) \cup lost \cup Events(host.buffer) \cup OnTheWay

\* The host lets go of a renderer only when that renderer's own connection is
\* over: a late 'close' of an older socket detaches nobody (index.js:227-229).
AttachedWhileOpen ==
    \A s \in Socket : sock[s].host = "taken" /\ ~sock[s].cut => host.client = s

\* A host that had a renderer and has none gets one again or ends: no zombie
\* keeps the Corestore lock or the port (index.js:231-238).
HadRenderer == \E s \in Socket : sock[s].host \in {"taken", "errored", "closed"}
DetachedEnds ==
    (HadRenderer /\ host.client = None) ~> (host.client # None \/ host.torn)

=============================================================================
