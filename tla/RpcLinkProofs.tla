---------------------------- MODULE RpcLinkProofs ----------------------------
(***************************************************************************)
(* Theorems about the RPC link, for any number of sockets, page loads,     *)
(* calls, events and diagnostics.                                          *)
(***************************************************************************)
EXTENDS RpcLink, SequenceTheorems, TLAPS

(***************************************************************************)
(* Calls and frames                                                        *)
(***************************************************************************)
\* Calls of the page and its earlier loads, and of diagnostics: their ids tell
\* them apart.
PageCalls(load) ==
    {c \in Calls : c.of[1] \in 1..load /\ c.of[2] = c.id /\ c.id \in 1..MaxCalls}

DiagCalls == {c \in Calls : c.of[1] \in Diag /\ c.of[2] = 1 /\ c.id < 0}

CallsOf(load) == PageCalls(load) \cup DiagCalls

Frames(load) == {Reply(c) : c \in CallsOf(load)} \cup {Event(n) : n \in Nat}

Link(load) ==
    [page : {"idle", "connecting", "open", "closed"},
     host : {"idle", "taken", "refused", "errored", "closed"},
     cut : BOOLEAN, up : Seq(PageCalls(load)), down : Seq(Frames(load))]

LEMMA SeqOfLarger ==
    ASSUME NEW S, NEW T, S \subseteq T, NEW s \in Seq(S)
    PROVE  s \in Seq(T)
  <1>1. Len(s) \in Nat /\ DOMAIN s = 1..Len(s) /\ \A i \in 1..Len(s) : s[i] \in T
    OBVIOUS
  <1>2. s = [i \in 1..Len(s) |-> s[i]]
    OBVIOUS
  <1> QED  BY <1>1, <1>2

LEMMA HeadTail ==
    ASSUME NEW S, NEW s \in Seq(S), s # <<>>
    PROVE  Head(s) \in S /\ Tail(s) \in Seq(S)
  OBVIOUS

LEMMA Prefix ==
    ASSUME NEW S, NEW s \in Seq(S), NEW i \in 0..Len(s)
    PROVE  SubSeq(s, 1, i) \in Seq(S)
  <1>1. Len(s) \in Nat /\ 1 \in Int /\ i \in Int /\ \A k \in 1..i : s[k] \in S
    OBVIOUS
  <1> QED  BY <1>1, SubSeqProperties

\* A reload keeps what was there.
LEMMA LargerLoad ==
    ASSUME NEW load \in Nat
    PROVE  /\ CallsOf(load) \subseteq CallsOf(load + 1)
           /\ Link(load) \subseteq Link(load + 1)
           /\ Seq(Frames(load)) \subseteq Seq(Frames(load + 1))
  <1>1. 1..load \subseteq 1..(load + 1)
    OBVIOUS
  <1>2. PageCalls(load) \subseteq PageCalls(load + 1)
    BY <1>1 DEF PageCalls
  <1>3. CallsOf(load) \subseteq CallsOf(load + 1)
    BY <1>2 DEF CallsOf
  <1>4. Frames(load) \subseteq Frames(load + 1)
    BY <1>3 DEF Frames
  <1>5. /\ Seq(PageCalls(load)) \subseteq Seq(PageCalls(load + 1))
        /\ Seq(Frames(load)) \subseteq Seq(Frames(load + 1))
    BY <1>2, <1>4, SeqOfLarger
  <1>6. Link(load) \subseteq Link(load + 1)
    BY <1>5 DEF Link
  <1> QED  BY <1>3, <1>5, <1>6

\* A reply under an id the page is waiting for is to a call of the page or an
\* earlier load, with that id.
LEMMA ReplyToPage ==
    ASSUME NEW load \in Nat, NEW f \in Frames(load), IsReply(f), f.id \in 1..MaxCalls
    PROVE  f.of[1] \in 1..load /\ f.of[2] = f.id
  <1>1. PICK c \in CallsOf(load) : f = Reply(c)
    BY DEF Frames, IsReply, Event
  <1>2. f.id = c.id /\ f.of = c.of
    BY <1>1 DEF Reply
  <1>3. c.id \in Nat
    BY <1>2, RpcAssumption
  <1>4. c \in PageCalls(load)
    BY <1>3 DEF CallsOf, DiagCalls
  <1> QED  BY <1>2, <1>4 DEF PageCalls

(***************************************************************************)
(* The inductive invariant                                                 *)
(***************************************************************************)
PageOK ==
    /\ page \in [load : Load, next : Nat \ {0}, connected : BOOLEAN,
                 calls : SUBSET (1..MaxCalls)]
    /\ pipe \in [sock : Socket \cup {None}, attempts : Nat, boot : BOOLEAN,
                 state : {"waiting", "connecting", "open", "failed"}]
    /\ pipe.state \in {"connecting", "open"} => pipe.sock \in Socket

LinkOK ==
    /\ sock \in [Socket -> Link(page.load)]
    /\ host \in [client : Socket \cup {None}, timer : BOOLEAN, torn : BOOLEAN,
                 buffer : Seq(Frames(page.load))]

\* The host knows only sockets that have been opened.
IdleOK == \A s \in Socket : sock[s].page = "idle" => sock[s].host = "idle"

AttachedOK ==
    \A s \in Socket : sock[s].host = "taken" /\ ~sock[s].cut => host.client = s

\* The host's ids go down from -1, each is used once, and who waits under one
\* is whose call has it.
DiagOK ==
    /\ backend \subseteq CallsOf(page.load)
    /\ diag.open \subseteq Diag /\ diag.pending \subseteq [hostId : Int, of : Diag]
    /\ diag.nextHostId \in Int /\ diag.nextHostId < 0
    /\ diag = [open |-> diag.open, pending |-> diag.pending, nextHostId |-> diag.nextHostId]
    /\ \A r \in diag.pending : diag.nextHostId < r.hostId /\ r.hostId < 0
    /\ \A c \in backend : diag.nextHostId < c.id
    /\ \A r \in diag.pending, c \in backend : c.id = r.hostId => c.of = <<r.of, 1>>

IInv == PageOK /\ LinkOK /\ IdleOK /\ AttachedOK /\ DiagOK /\ AnswersKeepToTheirSide

LEMMA InitInv == Init => IInv
  <1> USE RpcAssumption
  <1> SUFFICES ASSUME Init PROVE IInv
    OBVIOUS
  <1>1. PageOK
    BY DEF Init, PageOK, Load, None
  <1>2. Unopened \in Link(page.load)
    BY DEF Unopened, Link
  <1>3. LinkOK /\ IdleOK /\ AttachedOK
    BY <1>2 DEF Init, LinkOK, IdleOK, AttachedOK, Unopened, None
  <1>4. DiagOK
    BY DEF Init, DiagOK
  <1>5. AnswersKeepToTheirSide
    BY DEF Init, AnswersKeepToTheirSide
  <1> QED  BY <1>1, <1>3, <1>4, <1>5 DEF IInv

(***************************************************************************)
(* Steps of the page                                                       *)
(***************************************************************************)
\* The host's end of a socket stays, unless it is cut.
AtPageEnd(old, new) ==
    /\ new.host = old.host /\ (new.page = "idle" => old.page = "idle")
    /\ old.cut => new.cut \/ old.page = "idle"

\* Neither the load, the host, the backend nor the diagnostics change, nor more
\* than one socket.
LEMMA PageStep ==
    ASSUME IInv, PageOK', page'.load = page.load, UNCHANGED <<host, backend, diag>>,
           AnswersKeepToTheirSide',
           \/ sock' = sock
           \/ \E s \in Socket : \E new \in Link(page.load) :
                 AtPageEnd(sock[s], new) /\ sock' = [sock EXCEPT ![s] = new]
    PROVE  IInv'
  <1>1. LinkOK /\ IdleOK /\ AttachedOK /\ DiagOK
    BY DEF IInv
  <1>2. LinkOK'
    BY <1>1 DEF LinkOK
  <1>3. \A s \in Socket : sock'[s] = sock[s] \/ AtPageEnd(sock[s], sock'[s])
    BY <1>1 DEF LinkOK
  <1>4. IdleOK'
    BY <1>1, <1>3 DEF IdleOK, AtPageEnd
  <1>5. AttachedOK'
    BY <1>1, <1>3 DEF AttachedOK, IdleOK, AtPageEnd
  <1>6. DiagOK'
    BY <1>1 DEF DiagOK
  <1> QED  BY <1>2, <1>4, <1>5, <1>6 DEF IInv

LEMMA Sockets ==
    ASSUME IInv, NEW s \in Socket
    PROVE  /\ sock[s] \in Link(page.load) /\ sock[s].up \in Seq(PageCalls(page.load))
           /\ sock[s].down \in Seq(Frames(page.load)) /\ sock[s].cut \in BOOLEAN
  BY DEF IInv, LinkOK, Link

LEMMA SameAnswers ==
    ASSUME IInv, answers' = answers
    PROVE  AnswersKeepToTheirSide'
  BY DEF IInv, AnswersKeepToTheirSide

LEMMA ConnectStep == ASSUME IInv, Connect PROVE IInv'
  <1>1. PICK s \in Socket \ Opened :
            /\ pipe' = [pipe EXCEPT !.sock = s, !.state = "connecting"]
            /\ sock' = [sock EXCEPT ![s].page = "connecting", ![s].cut = host.torn]
    BY DEF Connect
  <1>2. page' = page /\ UNCHANGED <<host, backend, diag>> /\ answers' = answers
    BY DEF Connect
  <1>3. PageOK'
    BY <1>1, <1>2 DEF IInv, PageOK
  <1> DEFINE new == [sock[s] EXCEPT !.page = "connecting", !.cut = host.torn]
  <1>4. new \in Link(page.load) /\ AtPageEnd(sock[s], new)
    BY Sockets DEF IInv, LinkOK, Link, AtPageEnd, Opened
  <1>5. sock' = [sock EXCEPT ![s] = new]
    BY <1>1 DEF IInv, LinkOK
  <1> HIDE DEF new
  <1> QED  BY <1>2, <1>3, <1>4, <1>5, PageStep, SameAnswers

LEMMA OpenStep == ASSUME IInv, Open PROVE IInv'
  <1> DEFINE s == pipe.sock
             new == [sock[s] EXCEPT !.page = "open"]
  <1>1. /\ s \in Socket /\ page'.load = page.load
        /\ pipe' = [pipe EXCEPT !.state = "open", !.attempts = 0, !.boot = FALSE]
        /\ page' = [page EXCEPT !.connected = TRUE]
        /\ UNCHANGED <<host, backend, diag>> /\ answers' = answers
    BY DEF Open, IInv, PageOK
  <1>2. PageOK'
    BY <1>1 DEF IInv, PageOK
  <1>3. new \in Link(page.load) /\ AtPageEnd(sock[s], new)
    BY <1>1, Sockets DEF Link, AtPageEnd
  <1>4. sock' = [sock EXCEPT ![s] = new]
    BY <1>1 DEF IInv, LinkOK, Open, Here
  <1> HIDE DEF new, s
  <1> QED  BY <1>1, <1>2, <1>3, <1>4, PageStep, SameAnswers

LEMMA DisconnectStep == ASSUME IInv, Disconnect PROVE IInv'
  <1> DEFINE s == pipe.sock
             new == [sock[s] EXCEPT !.page = "closed", !.down = <<>>]
  <1>1. /\ s \in Socket /\ page'.load = page.load
        /\ pipe' = Rescheduled
        /\ page' = [page EXCEPT !.connected = FALSE, !.calls = {}]
        /\ UNCHANGED <<host, backend, diag>> /\ answers' = answers
    BY DEF Disconnect, IInv, PageOK
  <1>2. PageOK'
    <2>1. page' \in [load : Load, next : Nat \ {0}, connected : BOOLEAN,
                     calls : SUBSET (1..MaxCalls)]
      BY <1>1 DEF IInv, PageOK
    <2>2. /\ pipe' \in [sock : Socket \cup {None}, attempts : Nat, boot : BOOLEAN,
                        state : {"waiting", "connecting", "open", "failed"}]
          /\ pipe'.state \notin {"connecting", "open"}
      <3>1. pipe \in [sock : Socket \cup {None}, attempts : Nat, boot : BOOLEAN,
                      state : {"waiting", "connecting", "open", "failed"}]
        BY DEF IInv, PageOK
      <3>2. CASE pipe' = [pipe EXCEPT !.state = "failed"]
        BY <3>1, <3>2
      <3>3. CASE \E n \in Nat : pipe' = [pipe EXCEPT !.state = "waiting", !.attempts = n]
        BY <3>1, <3>3
      <3>4. pipe.attempts \in Nat /\ pipe.attempts + 1 \in Nat
        BY <3>1
      <3> QED  BY <1>1, <3>2, <3>3, <3>4 DEF Rescheduled
    <2> QED  BY <2>1, <2>2 DEF PageOK
  <1>3. new \in Link(page.load) /\ AtPageEnd(sock[s], new)
    <2>1. <<>> \in Seq(Frames(page.load))
      OBVIOUS
    <2>2. sock[s] \in Link(page.load)
      BY <1>1, Sockets
    <2>3. ASSUME NEW old \in Link(page.load), NEW d \in Seq(Frames(page.load))
          PROVE  LET cleared == [old EXCEPT !.page = "closed", !.down = d]
                 IN  cleared \in Link(page.load) /\ AtPageEnd(old, cleared)
      BY <2>3 DEF Link, AtPageEnd
    <2> QED  BY <2>1, <2>2, <2>3, Zenon
  <1>4. sock' = [sock EXCEPT ![s] = new]
    BY <1>1 DEF IInv, LinkOK, Disconnect, Here
  <1> HIDE DEF new, s
  <1> QED  BY <1>1, <1>2, <1>3, <1>4, PageStep, SameAnswers

LEMMA GiveUpStep == ASSUME IInv, GiveUp PROVE IInv'
  <1>1. /\ pipe' = [pipe EXCEPT !.state = "failed"] /\ page' = page /\ sock' = sock
        /\ UNCHANGED <<host, backend, diag>> /\ answers' = answers
    BY DEF GiveUp
  <1>2. PageOK'
    BY <1>1 DEF IInv, PageOK
  <1> QED  BY <1>1, <1>2, PageStep, SameAnswers

LEMMA RequestStep == ASSUME IInv, Request PROVE IInv'
  <1> DEFINE s == pipe.sock
             call == [id |-> page.next, of |-> <<page.load, page.next>>]
             new == [sock[s] EXCEPT !.up = Append(@, call)]
  <1>1. /\ page.next <= MaxCalls
        /\ page' = [page EXCEPT !.next = @ + 1, !.calls = @ \cup {page.next}]
        /\ pipe' = pipe /\ UNCHANGED <<host, backend, diag>> /\ answers' = answers
    BY DEF Request
  <1>2. page.load \in Load /\ page.next \in 1..MaxCalls /\ page.load \in Nat
        /\ page.load \in 1..page.load
    BY <1>1, RpcAssumption DEF IInv, PageOK, Load
  <1>3. PageOK' /\ page'.load = page.load
    <2>1. page.calls \cup {page.next} \in SUBSET (1..MaxCalls) /\ page.next + 1 \in Nat \ {0}
      BY <1>2 DEF IInv, PageOK
    <2>2. /\ page' \in [load : Load, next : Nat \ {0}, connected : BOOLEAN,
                        calls : SUBSET (1..MaxCalls)]
          /\ page'.load = page.load
      BY <1>1, <2>1 DEF IInv, PageOK
    <2> QED  BY <1>1, <2>2 DEF IInv, PageOK
  <1>4. call \in PageCalls(page.load)
    BY <1>2 DEF PageCalls, Calls, Caller
  <1>5. CASE sock' = sock
    BY <1>1, <1>3, <1>5, PageStep, SameAnswers
  <1>6. CASE sock' # sock
    <2>1. sock' = [sock EXCEPT ![s] = new]
      BY <1>6 DEF Request, Here, IInv, LinkOK
    <2>2. CASE s \in Socket
      <3>1. Append(sock[s].up, call) \in Seq(PageCalls(page.load))
        <4> HIDE DEF call
        <4> QED  BY <1>4, <2>2, Sockets
      <3>2. new \in Link(page.load) /\ AtPageEnd(sock[s], new)
        <4> HIDE DEF call
        <4> QED  BY <2>2, <3>1, Sockets, SMTT(30) DEF Link, AtPageEnd
      <3> HIDE DEF new
      <3> QED  BY <1>1, <1>3, <2>1, <2>2, <3>2, PageStep, SameAnswers
    <2>3. CASE s \notin Socket
      <3> HIDE DEF new
      <3> QED  BY <1>6, <2>1, <2>3 DEF IInv, LinkOK
    <2> QED  BY <2>2, <2>3
  <1> QED  BY <1>5, <1>6

LEMMA TimeoutStep == ASSUME IInv, NEW id, Timeout(id) PROVE IInv'
  <1>1. /\ page' = [page EXCEPT !.calls = @ \ {id}] /\ pipe' = pipe /\ sock' = sock
        /\ UNCHANGED <<host, backend, diag>> /\ answers' = answers
    BY DEF Timeout
  <1>2. PageOK' /\ page'.load = page.load
    BY <1>1 DEF IInv, PageOK
  <1> QED  BY <1>1, <1>2, PageStep, SameAnswers

LEMMA ReceiveStep == ASSUME IInv, Receive PROVE IInv'
  <1> DEFINE s == pipe.sock
             frame == Head(sock[s].down)
             answered == IsReply(frame) /\ frame.id \in page.calls
             new == [sock[s] EXCEPT !.down = Tail(@)]
  <1>1. /\ s \in Socket /\ sock[s].down # <<>>
        /\ page' = IF answered THEN [page EXCEPT !.calls = @ \ {frame.id}] ELSE page
        /\ answers' = IF answered
                      THEN answers \cup {<<<<page.load, frame.id>>, frame.of>>}
                      ELSE answers
        /\ pipe' = pipe /\ UNCHANGED <<host, backend, diag>>
    BY DEF Receive, IInv, PageOK, Here
  <1>2. /\ frame \in Frames(page.load) /\ Tail(sock[s].down) \in Seq(Frames(page.load))
    BY <1>1, Sockets, HeadTail
  <1>3. PageOK' /\ page'.load = page.load
    BY <1>1 DEF IInv, PageOK
  <1>4. AnswersKeepToTheirSide'
    <2>1. CASE answered
      <3>1. page.load \in Nat /\ page.load \notin Diag /\ frame.id \in 1..MaxCalls
        BY <2>1, RpcAssumption DEF IInv, PageOK, Load
      <3>2. frame.of[1] \in 1..page.load /\ frame.of[2] = frame.id
        BY <1>2, <2>1, <3>1, ReplyToPage
      <3>3. answers' = answers \cup {<<<<page.load, frame.id>>, frame.of>>}
        BY <1>1, <2>1
      <3> HIDE DEF frame
      <3> QED  BY <3>1, <3>2, <3>3 DEF IInv, AnswersKeepToTheirSide
    <2>2. CASE ~answered
      BY <1>1, <2>2, SameAnswers
    <2> QED  BY <2>1, <2>2
  <1>5. new \in Link(page.load) /\ AtPageEnd(sock[s], new)
    <2> HIDE DEF answered, frame
    <2> DEFINE rest == Tail(sock[s].down)
    <2>1. new = [sock[s] EXCEPT !.down = rest] /\ rest \in Seq(Frames(page.load))
      BY <1>1, <1>2, Sockets DEF Link
    <2>2. sock[s] \in Link(page.load)
      BY <1>1, Sockets
    <2> HIDE DEF new, rest, s
    <2> QED  BY <2>1, <2>2 DEF Link, AtPageEnd
  <1>6. sock' = [sock EXCEPT ![s] = new]
    BY <1>1 DEF IInv, LinkOK, Receive, Here
  <1> HIDE DEF new, s, frame, answered
  <1> QED  BY <1>1, <1>3, <1>4, <1>5, <1>6, PageStep

LEMMA ReloadStep == ASSUME IInv, Reload PROVE IInv'
  <1> DEFINE s == pipe.sock
             load == page.load
             new == [sock[s] EXCEPT !.page = "closed", !.cut = TRUE, !.down = <<>>]
  <1>1. /\ load + 1 \in Load /\ load \in Nat
        /\ page' = [load |-> load + 1, next |-> 1, connected |-> FALSE, calls |-> {}]
        /\ pipe' = [sock |-> None, state |-> "waiting", attempts |-> 0, boot |-> TRUE]
        /\ UNCHANGED <<host, backend, diag>> /\ answers' = answers
    BY RpcAssumption DEF Reload, IInv, PageOK, Load
  <1>2. PageOK'
    BY <1>1 DEF PageOK
  <1>3. sock' = sock \/ (s \in Socket /\ sock' = [sock EXCEPT ![s] = new])
    <2>1. CASE pipe.state \in {"connecting", "open"}
      BY <2>1 DEF Reload, Here, IInv, LinkOK, PageOK
    <2>2. CASE pipe.state \notin {"connecting", "open"}
      BY <2>2 DEF Reload
    <2> QED  BY <2>1, <2>2
  <1>4. ASSUME s \in Socket
        PROVE  new \in Link(load) /\ AtPageEnd(sock[s], new)
    <2> HIDE DEF s
    <2>1. <<>> \in Seq(Frames(load))
      OBVIOUS
    <2>2. /\ sock[s] \in Link(load) /\ sock[s].up \in Seq(PageCalls(load))
          /\ sock[s].down \in Seq(Frames(load)) /\ sock[s].cut \in BOOLEAN
      BY <1>4, Sockets
    <2> QED  BY <2>1, <2>2 DEF Link, AtPageEnd
  <1>5. \A t \in Socket : sock'[t] \in Link(load) /\ AtPageEnd(sock[t], sock'[t])
    <2> HIDE DEF new, s
    <2>1. sock \in [Socket -> Link(load)] /\ \A t \in Socket : AtPageEnd(sock[t], sock[t])
      BY DEF IInv, LinkOK, AtPageEnd
    <2> QED  BY <1>3, <1>4, <2>1
  <1>6. LinkOK'
    <2>1. DOMAIN sock' = Socket /\ sock' = [t \in Socket |-> sock'[t]]
      BY <1>3 DEF IInv, LinkOK
    <2>2. Link(load) \subseteq Link(load + 1) /\ page'.load = load + 1
          /\ Seq(Frames(load)) \subseteq Seq(Frames(load + 1))
      BY <1>1, LargerLoad
    <2>3. sock' \in [Socket -> Link(load + 1)]
      BY <1>5, <2>1, <2>2
    <2>4. host' \in [client : Socket \cup {None}, timer : BOOLEAN, torn : BOOLEAN,
                     buffer : Seq(Frames(load + 1))]
      BY <1>1, <2>2 DEF IInv, LinkOK
    <2> QED  BY <2>2, <2>3, <2>4 DEF LinkOK
  <1>7. IdleOK'
    BY <1>5 DEF IInv, IdleOK, AtPageEnd
  <1>8. AttachedOK'
    BY <1>1, <1>5 DEF IInv, AttachedOK, IdleOK, AtPageEnd
  <1>9. DiagOK'
    <2>1. CallsOf(load) \subseteq CallsOf(load + 1) /\ page'.load = load + 1
      BY <1>1, LargerLoad
    <2> QED  BY <1>1, <2>1 DEF IInv, DiagOK
  <1> QED  BY <1>1, <1>2, <1>6, <1>7, <1>8, <1>9, SameAnswers DEF IInv

(***************************************************************************)
(* Steps of the host                                                       *)
(***************************************************************************)
HostSet == [client : Socket \cup {None}, timer : BOOLEAN, torn : BOOLEAN,
            buffer : Seq(Frames(page.load))]

\* The page, the backend and the diagnostics stay; one socket changes at the
\* host's end.
LEMMA HostStep ==
    ASSUME IInv, UNCHANGED <<page, pipe, backend, diag, answers>>, host' \in HostSet,
           NEW s \in Socket, NEW new \in Link(page.load),
           sock' = [sock EXCEPT ![s] = new], new.page = sock[s].page, new.page # "idle",
           new.host = "taken" /\ ~new.cut => host'.client = s,
           \A t \in Socket \ {s} : host.client = t => host'.client = t
    PROVE  IInv'
  <1>1. PageOK' /\ AnswersKeepToTheirSide' /\ DiagOK'
    BY SameAnswers DEF IInv, PageOK, DiagOK
  <1>2. LinkOK'
    BY DEF IInv, LinkOK, HostSet
  <1>3. sock'[s] = new /\ \A t \in Socket \ {s} : sock'[t] = sock[t]
    BY DEF IInv, LinkOK
  <1>4. IdleOK'
    BY <1>3 DEF IInv, IdleOK
  <1>5. AttachedOK'
    BY <1>3 DEF IInv, AttachedOK
  <1> QED  BY <1>1, <1>2, <1>4, <1>5 DEF IInv

LEMMA HostType == ASSUME IInv PROVE host \in HostSet /\ None \notin Socket
  BY DEF IInv, LinkOK, HostSet, None, Socket

LEMMA AcceptStep == ASSUME IInv, NEW s \in Socket, Accept(s) PROVE IInv'
  <1>1. /\ sock[s].page # "idle" /\ sock[s].host = "idle"
        /\ UNCHANGED <<page, pipe, backend, diag, answers>>
    BY DEF Accept
  <1>2. CASE host.client # None
    <2> DEFINE new == [sock[s] EXCEPT !.host = "refused", !.cut = TRUE]
    <2>1. sock' = [sock EXCEPT ![s] = new] /\ host' = host
      BY <1>2 DEF Accept, IInv, LinkOK
    <2>2. new \in Link(page.load) /\ new.page = sock[s].page /\ new.host # "taken"
      BY Sockets DEF Link
    <2> HIDE DEF new
    <2> QED  BY <1>1, <2>1, <2>2, HostStep, HostType
  <1>3. CASE host.client = None
    <2> DEFINE down == IF Cut(s) THEN sock[s].down ELSE host.buffer
               new == [sock[s] EXCEPT !.host = "taken", !.down = down]
    <2>1. sock' = [sock EXCEPT ![s] = new]
      BY <1>3 DEF Accept, IInv, LinkOK, Backlog
    <2>2. down \in Seq(Frames(page.load))
      BY Sockets, HostType DEF HostSet
    <2>3. host' = [[host EXCEPT !.buffer = <<>>] EXCEPT !.client = s, !.timer = FALSE]
      BY <1>3 DEF Accept, Flushed
    <2>4. host' \in HostSet /\ host'.client = s
      <3>1. <<>> \in Seq(Frames(page.load))
        OBVIOUS
      <3> QED  BY <2>3, <3>1, HostType DEF HostSet
    <2> HIDE DEF down
    <2>5. new \in Link(page.load) /\ new.page = sock[s].page
      BY <2>2, Sockets DEF Link
    <2>6. \A t \in Socket \ {s} : host.client # t
      BY <1>3, HostType
    <2> HIDE DEF new
    <2> QED  BY <1>1, <2>1, <2>4, <2>5, <2>6, HostStep
  <1> QED  BY <1>2, <1>3

LEMMA HostReceivesStep == ASSUME IInv, NEW s \in Socket, HostReceives(s) PROVE IInv'
  <1> DEFINE call == Head(sock[s].up)
             rest == Tail(sock[s].up)
             new == [sock[s] EXCEPT !.up = rest]
  <1>1. /\ sock[s].up # <<>> /\ backend' = backend \cup {call}
        /\ sock' = [sock EXCEPT ![s] = new]
        /\ UNCHANGED <<page, pipe, host, diag, answers>>
    BY DEF HostReceives, IInv, LinkOK
  <1>2. call \in PageCalls(page.load) /\ rest \in Seq(PageCalls(page.load))
    BY <1>1, Sockets, HeadTail
  <1> HIDE DEF rest, call
  <1>3. new \in Link(page.load) /\ AtPageEnd(sock[s], new)
    BY <1>2, Sockets DEF Link, AtPageEnd
  <1> HIDE DEF new
  <1>4. LinkOK /\ IdleOK /\ AttachedOK /\ DiagOK
    BY DEF IInv
  <1>5. LinkOK' /\ \A t \in Socket : sock'[t] = sock[t] \/ AtPageEnd(sock[t], sock'[t])
    BY <1>1, <1>3, <1>4 DEF LinkOK
  <1>6. IdleOK' /\ AttachedOK'
    BY <1>1, <1>4, <1>5 DEF IdleOK, AttachedOK, AtPageEnd
  <1>7. call \in CallsOf(page.load) /\ call.id \in Int /\ call.id > 0
    BY <1>2 DEF PageCalls, CallsOf, Calls
  <1>8. DiagOK'
    BY <1>1, <1>4, <1>7 DEF DiagOK
  <1> QED  BY <1>1, <1>5, <1>6, <1>8, SameAnswers DEF IInv, PageOK

\* Only the attached socket detaches.
LEMMA DetachedHost ==
    ASSUME IInv, NEW s \in Socket
    PROVE  /\ Detached(s) \in HostSet
           /\ \A t \in Socket \ {s} : host.client = t => Detached(s).client = t
  BY HostType DEF Detached, IsAttached, HostSet

LEMMA DetachStep ==
    ASSUME IInv, NEW s \in Socket, HostError(s) \/ HostClose(s)
    PROVE  IInv'
  <1>1. /\ sock[s].host \in {"taken", "errored"} /\ sock[s].page # "idle"
        /\ host' = Detached(s) /\ UNCHANGED <<page, pipe, backend, diag, answers>>
    BY DEF HostError, HostClose, IInv, IdleOK
  <1>2. CASE HostError(s)
    <2> DEFINE new == [sock[s] EXCEPT !.host = "errored", !.up = <<>>]
    <2>1. sock' = [sock EXCEPT ![s] = new]
      BY <1>2 DEF HostError, IInv, LinkOK
    <2>2. new \in Link(page.load) /\ new.page = sock[s].page /\ new.host # "taken"
      <3>1. <<>> \in Seq(PageCalls(page.load))
        OBVIOUS
      <3> QED  BY <3>1, Sockets DEF Link
    <2> HIDE DEF new
    <2> QED  BY <1>1, <2>1, <2>2, DetachedHost, HostStep
  <1>3. CASE HostClose(s)
    <2> DEFINE new == [sock[s] EXCEPT !.host = "closed"]
    <2>1. sock' = [sock EXCEPT ![s] = new]
      BY <1>3 DEF HostClose, IInv, LinkOK
    <2>2. new \in Link(page.load) /\ new.page = sock[s].page /\ new.host # "taken"
      BY Sockets DEF Link
    <2> HIDE DEF new
    <2> QED  BY <1>1, <2>1, <2>2, DetachedHost, HostStep
  <1> QED  BY <1>2, <1>3

LEMMA TearDownStep == ASSUME IInv, TearDown PROVE IInv'
  <1>1. /\ host' = [host EXCEPT !.timer = FALSE, !.torn = TRUE]
        /\ sock' = [s \in Socket |-> IF sock[s].page = "idle" THEN sock[s]
                                     ELSE [sock[s] EXCEPT !.cut = TRUE]]
        /\ UNCHANGED <<page, pipe, backend, diag, answers>>
    BY DEF TearDown
  <1>2. PageOK' /\ AnswersKeepToTheirSide' /\ DiagOK'
    BY <1>1, SameAnswers DEF IInv, PageOK, DiagOK
  <1>3. \A s \in Socket : sock'[s] \in Link(page.load) /\ AtPageEnd(sock[s], sock'[s])
    BY <1>1, Sockets DEF Link, AtPageEnd
  <1>4. host' \in HostSet /\ host'.client = host.client
    BY <1>1, HostType DEF HostSet
  <1>5. LinkOK'
    BY <1>1, <1>3, <1>4 DEF LinkOK, HostSet
  <1>6. IdleOK' /\ AttachedOK'
    BY <1>3, <1>4 DEF IInv, IdleOK, AttachedOK, AtPageEnd
  <1> QED  BY <1>2, <1>5, <1>6 DEF IInv

LEMMA GraceStep == ASSUME IInv, GraceEnds PROVE IInv'
  <1>1. CASE host.client = None
    BY <1>1, TearDownStep DEF GraceEnds
  <1>2. CASE host.client # None
    <2>1. /\ host' = [host EXCEPT !.timer = FALSE] /\ sock' = sock
          /\ UNCHANGED <<page, pipe, backend, diag, answers>>
      BY <1>2 DEF GraceEnds
    <2>2. host' \in HostSet /\ host'.client = host.client
      BY <2>1, HostType DEF HostSet
    <2> QED
      BY <2>1, <2>2, SameAnswers
      DEF IInv, PageOK, LinkOK, HostSet, IdleOK, AttachedOK, DiagOK
  <1> QED  BY <1>1, <1>2

LEMMA BreaksStep == ASSUME IInv, NEW s \in Socket, Breaks(s) PROVE IInv'
  <1>1. PICK i \in 0..Len(sock[s].up), j \in 0..Len(sock[s].down) :
            sock' = [sock EXCEPT ![s].cut = TRUE, ![s].up = SubSeq(@, 1, i),
                                 ![s].down = SubSeq(@, 1, j)]
    BY DEF Breaks
  <1>2. /\ sock[s].page # "idle" /\ UNCHANGED <<page, pipe, host, backend, diag, answers>>
    BY DEF Breaks
  <1> DEFINE up == SubSeq(sock[s].up, 1, i)
             down == SubSeq(sock[s].down, 1, j)
             new == [sock[s] EXCEPT !.cut = TRUE, !.up = up, !.down = down]
  <1>3. up \in Seq(PageCalls(page.load)) /\ down \in Seq(Frames(page.load))
    BY Sockets, Prefix
  <1>4. sock' = [sock EXCEPT ![s] = new]
    BY <1>1 DEF IInv, LinkOK
  <1> HIDE DEF up, down
  <1>5. new \in Link(page.load) /\ new.page = sock[s].page /\ new.cut
    BY <1>3, Sockets DEF Link
  <1> HIDE DEF new
  <1> QED  BY <1>2, <1>4, <1>5, HostStep, HostType

(***************************************************************************)
(* Steps of the backend and the diagnostics                                *)
(***************************************************************************)
\* A frame that is forwarded reaches the socket of the client or the buffer.
LEMMA ForwardStep ==
    ASSUME IInv, NEW frame \in Frames(page.load), Forward(frame),
           page' = page, pipe' = pipe, DiagOK', AnswersKeepToTheirSide'
    PROVE  IInv'
  <1>1. PageOK' /\ LinkOK /\ IdleOK /\ AttachedOK
    BY DEF IInv, PageOK
  <1>2. host' \in HostSet /\ host'.client = host.client
    <2>1. host \in HostSet /\ Append(host.buffer, frame) \in Seq(Frames(page.load))
      BY HostType DEF HostSet
    <2> DEFINE more == Append(host.buffer, frame)
    <2>2. host' = host \/ host' = [host EXCEPT !.buffer = more]
      BY DEF Forward
    <2> HIDE DEF more
    <2> QED
      <3>1. more \in Seq(Frames(page.load))
        BY <2>1 DEF more
      <3> QED  BY <2>1, <2>2, <3>1 DEF HostSet
  <1>3. \/ sock' = sock
        \/ \E s \in Socket : \E new \in Link(page.load) :
              AtPageEnd(sock[s], new) /\ sock' = [sock EXCEPT ![s] = new]
    <2>1. CASE host.client = None \/ Cut(host.client)
      BY <2>1 DEF Forward
    <2>2. CASE host.client # None /\ ~Cut(host.client)
      <3> DEFINE s == host.client
                 down == Append(sock[s].down, frame)
                 new == [sock[s] EXCEPT !.down = down]
      <3>1. s \in Socket
        BY <2>2, HostType DEF HostSet
      <3>2. sock' = [sock EXCEPT ![s] = new]
        BY <1>1, <2>2, <3>1 DEF Forward, LinkOK
      <3> HIDE DEF s
      <3>3. sock[s] \in Link(page.load) /\ down \in Seq(Frames(page.load))
        BY <3>1, Sockets
      <3> HIDE DEF down
      <3>4. new \in Link(page.load) /\ AtPageEnd(sock[s], new)
        BY <3>3 DEF Link, AtPageEnd
      <3> HIDE DEF new
      <3> QED  BY <3>1, <3>2, <3>4
    <2> QED  BY <2>1, <2>2
  <1>4. LinkOK'
    <2>1. sock' \in [Socket -> Link(page.load)]
      BY <1>1, <1>3 DEF LinkOK
    <2> QED  BY <1>2, <2>1 DEF LinkOK, HostSet
  <1>5. \A s \in Socket : sock'[s] = sock[s] \/ AtPageEnd(sock[s], sock'[s])
    BY <1>1, <1>3 DEF LinkOK
  <1>6. IdleOK' /\ AttachedOK'
    BY <1>1, <1>2, <1>5 DEF IdleOK, AttachedOK, AtPageEnd
  <1> QED  BY <1>1, <1>4, <1>6 DEF IInv

\* Who waits under an id is told of the call that has it.
LEMMA FinishStep == ASSUME IInv, NEW call \in backend, Finish(call) PROVE IInv'
  <1>1. /\ backend' = backend \ {call} /\ Forward(Reply(call))
        /\ diag' = [diag EXCEPT !.pending = @ \ RouteOf(call)]
        /\ answers' = answers \cup Told(call) /\ page' = page /\ pipe' = pipe
    BY DEF Finish, Routed
  <1>2. DiagOK /\ call \in CallsOf(page.load)
    BY DEF IInv, DiagOK
  <1>3. Reply(call) \in Frames(page.load)
    BY <1>2 DEF Frames
  <1>4. DiagOK'
    <2>1. /\ diag'.pending \subseteq diag.pending /\ diag'.open = diag.open
          /\ diag'.nextHostId = diag.nextHostId
          /\ diag' = [open |-> diag'.open, pending |-> diag'.pending,
                      nextHostId |-> diag'.nextHostId]
      BY <1>1, <1>2 DEF DiagOK
    <2> QED  BY <1>1, <1>2, <2>1 DEF DiagOK
  <1>5. \A a \in Told(call) : a[1][1] \in Diag /\ a[2] = a[1]
    <2>1. SUFFICES ASSUME NEW a \in Told(call) PROVE a[1][1] \in Diag /\ a[2] = a[1]
      OBVIOUS
    <2>2. PICK r \in diag.pending :
              r.hostId = call.id /\ r.of \in diag.open /\ a = <<<<r.of, 1>>, call.of>>
      BY DEF Told, RouteOf
    <2>3. call.of = <<r.of, 1>> /\ r.of \in Diag
      BY <1>2, <2>2 DEF DiagOK
    <2> QED  BY <2>2, <2>3
  <1>6. AnswersKeepToTheirSide'
    BY <1>1, <1>5 DEF IInv, AnswersKeepToTheirSide
  <1> QED  BY <1>1, <1>3, <1>4, <1>6, ForwardStep

LEMMA EmitStep == ASSUME IInv, emitted \in Nat, Emit PROVE IInv'
  <1>1. /\ Forward(Event(emitted + 1))
        /\ UNCHANGED <<page, pipe, backend, diag, answers>>
    BY DEF Emit
  <1>2. Event(emitted + 1) \in Frames(page.load)
    BY DEF Frames
  <1>3. DiagOK' /\ AnswersKeepToTheirSide'
    BY <1>1, SameAnswers DEF IInv, DiagOK
  <1> QED  BY <1>1, <1>2, <1>3, ForwardStep

\* What the page, its sockets and the host hold does not depend on the
\* diagnostics.
LEMMA DiagStep ==
    ASSUME IInv, UNCHANGED <<page, pipe, sock, host>>, DiagOK', AnswersKeepToTheirSide'
    PROVE  IInv'
  BY DEF IInv, PageOK, LinkOK, IdleOK, AttachedOK

LEMMA AsksStep == ASSUME IInv, NEW d \in Diag, Asks(d) PROVE IInv'
  <1> DEFINE call == [id |-> diag.nextHostId, of |-> <<d, 1>>]
             route == [hostId |-> diag.nextHostId, of |-> d]
             ids == diag.nextHostId - 1
  <1>1. /\ diag' = [diag EXCEPT !.pending = @ \cup {route}, !.nextHostId = @ - 1]
        /\ backend' = backend \cup {call}
        /\ UNCHANGED <<page, pipe, sock, host, answers>>
    BY DEF Asks, HostId
  <1>2. DiagOK /\ diag.nextHostId \in Int /\ diag.nextHostId < 0
    BY DEF IInv, DiagOK
  <1>3. call \in CallsOf(page.load)
    BY <1>2 DEF CallsOf, DiagCalls, Calls, Caller
  <1>4. /\ diag'.pending = diag.pending \cup {route} /\ diag'.open = diag.open
        /\ diag'.nextHostId = ids
        /\ diag' = [open |-> diag'.open, pending |-> diag'.pending,
                    nextHostId |-> diag'.nextHostId]
    BY <1>1, <1>2 DEF DiagOK
  <1>5. /\ ids \in Int /\ ids < diag.nextHostId /\ ids < 0
        /\ call.id = diag.nextHostId /\ call.of = <<d, 1>>
        /\ route.hostId = diag.nextHostId /\ route.of = d
        /\ route \in [hostId : Int, of : Diag]
    BY <1>2
  <1>6. \A c \in CallsOf(page.load) : c.id \in Int
    BY DEF CallsOf, PageCalls, DiagCalls, Calls
  <1> HIDE DEF call, route, ids
  <1>7. DiagOK'
    <2>1. /\ backend' \subseteq CallsOf(page'.load) /\ diag'.open \subseteq Diag
          /\ diag'.pending \subseteq [hostId : Int, of : Diag]
      BY <1>1, <1>2, <1>3, <1>4, <1>5 DEF DiagOK
    <2>2. \A r \in diag'.pending : diag'.nextHostId < r.hostId /\ r.hostId < 0
      <3>1. \A r \in diag.pending : r.hostId \in Int
        BY <1>2 DEF DiagOK
      <3> QED  BY <1>2, <1>4, <1>5, <3>1 DEF DiagOK
    <2>3. \A c \in backend' : diag'.nextHostId < c.id
      <3>1. \A c \in backend : c.id \in Int
        BY <1>2, <1>6 DEF DiagOK
      <3> QED  BY <1>1, <1>2, <1>4, <1>5, <3>1 DEF DiagOK
    <2>4. \A r \in diag'.pending, c \in backend' : c.id = r.hostId => c.of = <<r.of, 1>>
      <3>1. \A r \in diag.pending : r.hostId # diag.nextHostId
        BY <1>2 DEF DiagOK
      <3>2. \A c \in backend : c.id # diag.nextHostId
        BY <1>2, <1>6 DEF DiagOK
      <3> QED  BY <1>1, <1>2, <1>4, <1>5, <3>1, <3>2 DEF DiagOK
    <2> QED  BY <1>4, <1>5, <2>1, <2>2, <2>3, <2>4 DEF DiagOK
  <1> QED  BY <1>1, <1>7, DiagStep, SameAnswers

LEMMA DiagCloseStep == ASSUME IInv, NEW d \in Diag, DiagClose(d) PROVE IInv'
  <1>1. /\ diag' = [diag EXCEPT !.open = @ \ {d}, !.pending = {r \in @ : r.of # d}]
        /\ UNCHANGED <<page, pipe, sock, host, backend, answers>>
    BY DEF DiagClose
  <1>2. DiagOK
    BY DEF IInv
  <1>3. /\ diag'.pending \subseteq diag.pending /\ diag'.open \subseteq diag.open
        /\ diag'.nextHostId = diag.nextHostId
        /\ diag' = [open |-> diag'.open, pending |-> diag'.pending,
                    nextHostId |-> diag'.nextHostId]
    BY <1>1, <1>2 DEF DiagOK
  <1>4. DiagOK'
    BY <1>1, <1>2, <1>3 DEF DiagOK
  <1> QED  BY <1>1, <1>4, DiagStep, SameAnswers

(***************************************************************************)
(* The events a sequence of frames carries                                 *)
(***************************************************************************)
Ordered(frames) ==
    \A i, j \in DOMAIN frames :
        i < j /\ ~IsReply(frames[i]) /\ ~IsReply(frames[j]) => frames[i].n < frames[j].n

EventOf(frame) == IF IsReply(frame) THEN {} ELSE {frame.n}

LEMMA EventsAre ==
    ASSUME NEW S, NEW s \in Seq(S), NEW n
    PROVE  n \in Events(s) <=> \E i \in 1..Len(s) : ~IsReply(s[i]) /\ n = s[i].n
  BY DEF Events, ToSet

LEMMA NoEvents == Events(<<>>) = {} /\ Ordered(<<>>)
  BY DEF Events, ToSet, Ordered

LEMMA EventsAppend ==
    ASSUME NEW S, NEW s \in Seq(S), NEW f \in S
    PROVE  /\ Events(Append(s, f)) = Events(s) \cup EventOf(f)
           /\ Ordered(s) /\ (\A m \in Events(s), n \in EventOf(f) : m < n)
                 => Ordered(Append(s, f))
  <1> DEFINE u == Append(s, f)
  <1>1. /\ u \in Seq(S) /\ Len(u) = Len(s) + 1 /\ u[Len(s) + 1] = f /\ Len(s) \in Nat
        /\ \A i \in 1..Len(s) : u[i] = s[i]
        /\ DOMAIN u = 1..Len(u) /\ DOMAIN s = 1..Len(s)
    OBVIOUS
  <1> HIDE DEF u
  <1>2. \A i \in 1..Len(u) : i \in 1..Len(s) \/ i = Len(s) + 1
    BY <1>1
  <1>3. 1..Len(s) \subseteq 1..Len(u) /\ Len(s) + 1 \in 1..Len(u)
    BY <1>1
  <1>4. ASSUME NEW n PROVE n \in Events(u) <=> n \in Events(s) \/ n \in EventOf(f)
    <2>1. n \in Events(u) <=> \E i \in 1..Len(u) : ~IsReply(u[i]) /\ n = u[i].n
      BY <1>1, EventsAre
    <2>2. n \in Events(s) <=> \E i \in 1..Len(s) : ~IsReply(s[i]) /\ n = s[i].n
      BY EventsAre
    <2>3. n \in EventOf(f) <=> ~IsReply(f) /\ n = f.n
      BY DEF EventOf
    <2> QED  BY <1>1, <1>2, <1>3, <2>1, <2>2, <2>3
  <1>5. ASSUME Ordered(s), \A m \in Events(s), n \in EventOf(f) : m < n,
               NEW i \in 1..Len(u), NEW j \in 1..Len(u), i < j, ~IsReply(u[i]), ~IsReply(u[j])
        PROVE  u[i].n < u[j].n
    <2>1. i \in 1..Len(s) /\ u[i] = s[i]
      BY <1>1, <1>5
    <2>2. CASE j \in 1..Len(s)
      BY <1>1, <1>5, <2>1, <2>2 DEF Ordered
    <2>3. CASE j = Len(s) + 1
      <3>1. s[i].n \in Events(s) /\ f.n \in EventOf(f)
        BY <1>1, <1>5, <2>1, <2>3, EventsAre DEF EventOf
      <3> QED  BY <1>1, <1>5, <2>1, <2>3, <3>1
    <2> QED  BY <1>2, <2>2, <2>3
  <1> QED  BY <1>1, <1>4, <1>5 DEF u, Ordered

LEMMA EventsTail ==
    ASSUME NEW S, NEW s \in Seq(S), s # <<>>
    PROVE  /\ Events(s) = EventOf(Head(s)) \cup Events(Tail(s))
           /\ Ordered(s) => /\ Ordered(Tail(s))
                            /\ \A m \in EventOf(Head(s)), n \in Events(Tail(s)) : m < n
  <1> DEFINE u == Tail(s)
  <1>1. /\ u \in Seq(S) /\ Len(u) = Len(s) - 1 /\ Len(s) \in Nat /\ Len(s) > 0
        /\ Head(s) = s[1] /\ \A i \in 1..Len(u) : u[i] = s[i + 1]
        /\ DOMAIN u = 1..Len(u) /\ DOMAIN s = 1..Len(s)
    OBVIOUS
  <1> HIDE DEF u
  <1>2. \A i \in 1..Len(s) : i = 1 \/ (i - 1 \in 1..Len(u) /\ i - 1 + 1 = i)
    BY <1>1
  <1>3. 1 \in 1..Len(s) /\ \A i \in 1..Len(u) : i + 1 \in 1..Len(s) /\ 1 < i + 1
    BY <1>1
  <1>4. ASSUME NEW n PROVE n \in Events(s) <=> n \in EventOf(Head(s)) \/ n \in Events(u)
    <2>1. n \in Events(u) <=> \E i \in 1..Len(u) : ~IsReply(u[i]) /\ n = u[i].n
      BY <1>1, EventsAre
    <2>2. n \in Events(s) <=> \E i \in 1..Len(s) : ~IsReply(s[i]) /\ n = s[i].n
      BY EventsAre
    <2>3. n \in EventOf(Head(s)) <=> ~IsReply(s[1]) /\ n = s[1].n
      BY <1>1 DEF EventOf
    <2>4. ASSUME NEW i \in 1..Len(s), ~IsReply(s[i]), n = s[i].n
          PROVE  n \in EventOf(Head(s)) \/ n \in Events(u)
      <3>1. CASE i = 1
        BY <2>3, <2>4, <3>1
      <3>2. CASE i # 1
        <4>1. i - 1 \in 1..Len(u) /\ u[i - 1] = s[i]
          BY <1>1, <1>2, <3>2
        <4> QED  BY <2>1, <2>4, <4>1
      <3> QED  BY <3>1, <3>2
    <2>5. ASSUME NEW i \in 1..Len(u), ~IsReply(u[i]), n = u[i].n
          PROVE  n \in Events(s)
      BY <1>1, <1>3, <2>2, <2>5
    <2> QED  BY <1>3, <2>1, <2>2, <2>3, <2>4, <2>5
  <1>5. ASSUME Ordered(s) PROVE Ordered(u)
    <2> SUFFICES ASSUME NEW i \in 1..Len(u), NEW j \in 1..Len(u), i < j,
                        ~IsReply(u[i]), ~IsReply(u[j])
                 PROVE  u[i].n < u[j].n
      BY <1>1 DEF Ordered
    <2>1. /\ i + 1 \in 1..Len(s) /\ j + 1 \in 1..Len(s) /\ i + 1 < j + 1
          /\ u[i] = s[i + 1] /\ u[j] = s[j + 1]
      BY <1>1, <1>3
    <2> QED  BY <1>1, <1>5, <2>1 DEF Ordered
  <1>6. ASSUME Ordered(s), NEW m \in EventOf(Head(s)), NEW n \in Events(u)
        PROVE  m < n
    <2>1. ~IsReply(s[1]) /\ m = s[1].n
      BY <1>1 DEF EventOf
    <2>2. PICK i \in 1..Len(u) : ~IsReply(u[i]) /\ n = u[i].n
      BY <1>1, EventsAre
    <2>3. i + 1 \in 1..Len(s) /\ 1 < i + 1 /\ u[i] = s[i + 1]
      BY <1>1, <1>3
    <2> QED  BY <1>1, <1>3, <1>6, <2>1, <2>2, <2>3 DEF Ordered
  <1> QED  BY <1>4, <1>5, <1>6 DEF u

\* A connection that breaks delivers a first part and loses the rest.
LEMMA EventsSplit ==
    ASSUME NEW S, NEW s \in Seq(S), NEW k \in 0..Len(s)
    PROVE  /\ Events(s) \subseteq Events(SubSeq(s, 1, k)) \cup Events(SubSeq(s, k + 1, Len(s)))
           /\ Events(SubSeq(s, 1, k)) \subseteq Events(s)
           /\ Ordered(s) => Ordered(SubSeq(s, 1, k))
  <1> DEFINE u == SubSeq(s, 1, k)
             v == SubSeq(s, k + 1, Len(s))
             l == Len(s)
  <1>1. l \in Nat /\ k \in Nat /\ k <= l /\ 1 \in Int /\ k + 1 \in Int
        /\ DOMAIN s = 1..l /\ \A i \in 1..l : s[i] \in S
    OBVIOUS
  <1>2. u \in Seq(S) /\ Len(u) = k /\ \A i \in 1..k : u[i] = s[i]
    <2>1. \A i \in 1..k : s[i] \in S
      BY <1>1
    <2>2. /\ u \in Seq(S) /\ Len(u) = IF 1 <= k THEN k - 1 + 1 ELSE 0
          /\ \A i \in 1..(k - 1 + 1) : u[i] = s[1 + i - 1]
      BY <1>1, <2>1, SubSeqProperties
    <2> HIDE DEF u
    <2> QED  BY <1>1, <2>2
  <1>3. v \in Seq(S) /\ Len(v) = l - k /\ \A i \in 1..(l - k) : v[i] = s[k + i]
    <2>1. \A i \in (k + 1)..l : s[i] \in S
      BY <1>1
    <2>2. /\ v \in Seq(S) /\ Len(v) = IF k + 1 <= l THEN l - (k + 1) + 1 ELSE 0
          /\ \A i \in 1..(l - (k + 1) + 1) : v[i] = s[k + 1 + i - 1]
      BY <1>1, <2>1, SubSeqProperties
    <2>3. \A i \in 1..(l - k) : k + 1 + i - 1 = k + i
      BY <1>1
    <2> HIDE DEF v, l
    <2>4. l - (k + 1) + 1 = l - k /\ Len(v) = l - k
      BY <1>1, <2>2
    <2> QED  BY <2>2, <2>3, <2>4
  <1> HIDE DEF u, v
  <1>4. ASSUME NEW n \in Events(s) PROVE n \in Events(u) \/ n \in Events(v)
    <2>1. PICK i \in 1..l : ~IsReply(s[i]) /\ n = s[i].n
      BY EventsAre
    <2>2. CASE i <= k
      <3>1. i \in 1..k /\ u[i] = s[i]
        BY <1>1, <1>2, <2>2
      <3> QED  BY <1>2, <2>1, <3>1, EventsAre
    <2>3. CASE i > k
      <3>1. i - k \in 1..(l - k) /\ k + (i - k) = i
        BY <1>1, <2>3
      <3>2. v[i - k] = s[i]
        BY <1>3, <3>1
      <3> QED  BY <1>3, <2>1, <3>1, <3>2, EventsAre
    <2> QED  BY <1>1, <2>2, <2>3
  <1>5. ASSUME NEW n \in Events(u) PROVE n \in Events(s)
    <2>1. PICK i \in 1..k : ~IsReply(u[i]) /\ n = u[i].n
      BY <1>2, EventsAre
    <2>2. i \in 1..l /\ u[i] = s[i]
      BY <1>1, <1>2
    <2> QED  BY <2>1, <2>2, EventsAre
  <1>6. ASSUME Ordered(s) PROVE Ordered(u)
    <2>1. DOMAIN u = 1..k /\ \A i \in 1..k : i \in 1..l /\ u[i] = s[i]
      BY <1>1, <1>2
    <2> HIDE DEF l
    <2> QED  BY <1>1, <1>6, <2>1 DEF Ordered
  <1> QED  BY <1>4, <1>5, <1>6 DEF u, v

(***************************************************************************)
(* Where the events are                                                    *)
(***************************************************************************)
\* Only the socket of the page's pipe carries frames to it, and none before the
\* host has taken it; a socket the page has let go of is cut.
SocketOK(s) ==
    /\ sock[s].page \in {"connecting", "open"} =>
          pipe.sock = s /\ pipe.state \in {"connecting", "open"}
    /\ sock[s].page = "closed" => sock[s].cut
    /\ sock[s].host = "idle" => sock[s].down = <<>>
    /\ sock[s].down # <<>> => sock[s].page \in {"connecting", "open"}

\* Nothing is buffered while a renderer is attached.
ClientOK ==
    host.client # None => sock[host.client].host = "taken" /\ host.buffer = <<>>

Where == ClientOK /\ \A s \in Socket : SocketOK(s)

\* What the page has seen comes before what is on its way, and that before what
\* is buffered.
Flow ==
    /\ emitted \in Nat /\ seen \in Seq(Nat) /\ EventsInOrder
    /\ Ordered(host.buffer) /\ \A s \in Socket : Ordered(sock[s].down)
    /\ \A x \in ToSet(seen) : \A n \in Events(host.buffer) : x < n
    /\ \A s \in Socket :
          /\ \A x \in ToSet(seen) : \A n \in Events(sock[s].down) : x < n
          /\ \A m \in Events(sock[s].down), n \in Events(host.buffer) : m < n
          /\ Events(sock[s].down) \subseteq 1..emitted
    /\ ToSet(seen) \subseteq 1..emitted /\ Events(host.buffer) \subseteq 1..emitted

FlowInv == Where /\ Flow /\ EventsAccounted

\* Steps that give the page no event, and lose those they take off the way.
LEMMA FlowThins ==
    ASSUME Flow, EventsAccounted,
           host'.buffer = host.buffer, seen' = seen, emitted' = emitted, lost \subseteq lost',
           \A s \in Socket : /\ Ordered(sock'[s].down)
                             /\ Events(sock'[s].down) \subseteq Events(sock[s].down)
                             /\ Events(sock[s].down) \subseteq Events(sock'[s].down) \cup lost'
    PROVE  Flow' /\ EventsAccounted'
  <1>1. Flow'
    BY DEF Flow, EventsInOrder
  <1>2. OnTheWay \subseteq OnTheWay' \cup lost'
    BY DEF OnTheWay
  <1>3. EventsAccounted'
    BY <1>2 DEF EventsAccounted
  <1> QED  BY <1>1, <1>3

LEMMA FlowStays ==
    ASSUME Flow, EventsAccounted,
           host'.buffer = host.buffer, seen' = seen, emitted' = emitted, lost \subseteq lost',
           \A s \in Socket : sock'[s].down = sock[s].down
    PROVE  Flow' /\ EventsAccounted'
  <1>1. \A s \in Socket : /\ Ordered(sock'[s].down)
                          /\ Events(sock'[s].down) \subseteq Events(sock[s].down)
                          /\ Events(sock[s].down) \subseteq Events(sock'[s].down) \cup lost'
    BY DEF Flow
  <1> QED  BY <1>1, FlowThins

(***************************************************************************)
(* Steps of the page                                                       *)
(***************************************************************************)
LEMMA ConnectFlow == ASSUME IInv, FlowInv, Connect PROVE FlowInv'
  <1>1. PICK s \in Socket \ Opened :
            /\ pipe.state = "waiting"
            /\ pipe' = [pipe EXCEPT !.sock = s, !.state = "connecting"]
            /\ sock' = [sock EXCEPT ![s].page = "connecting", ![s].cut = host.torn]
    BY DEF Connect
  <1> DEFINE new == [sock[s] EXCEPT !.page = "connecting", !.cut = host.torn]
  <1>2. sock' = [sock EXCEPT ![s] = new]
    BY <1>1 DEF IInv, LinkOK
  <1>3. new.page = "connecting" /\ new.host = sock[s].host /\ new.down = sock[s].down
    BY Sockets DEF Link
  <1> HIDE DEF new
  <1>4. \A t \in Socket : sock'[t] = IF t = s THEN new ELSE sock[t]
    BY <1>2 DEF IInv, LinkOK
  <1>5. pipe'.sock = s /\ pipe'.state = "connecting"
    BY <1>1 DEF IInv, PageOK
  <1>6. UNCHANGED <<host, emitted, seen, lost>>
    BY DEF Connect
  <1>7. Flow' /\ EventsAccounted'
    BY <1>3, <1>4, <1>6, FlowStays DEF FlowInv
  <1>8. ASSUME NEW t \in Socket PROVE SocketOK(t)'
    <2>1. SocketOK(t)
      BY DEF FlowInv, Where
    <2>2. CASE t = s
      BY <1>3, <1>4, <1>5, <2>1, <2>2 DEF SocketOK
    <2>3. CASE t # s
      <3>1. sock'[t] = sock[t] /\ sock[t].page \notin {"connecting", "open"}
        BY <1>1, <1>4, <2>1, <2>3 DEF SocketOK
      <3> QED  BY <2>1, <3>1 DEF SocketOK
    <2> QED  BY <2>2, <2>3
  <1>9. ClientOK'
    BY <1>3, <1>4, <1>6, HostType DEF FlowInv, Where, ClientOK, HostSet
  <1> QED  BY <1>7, <1>8, <1>9 DEF FlowInv, Where

\* Every socket keeps what it carries and its host's end.
LEMMA SocketsStay ==
    ASSUME IInv, FlowInv, UNCHANGED <<emitted, seen, lost>>,
           host'.client = host.client, host'.buffer = host.buffer,
           pipe'.sock = pipe.sock,
           pipe.state \in {"connecting", "open"} => pipe'.state \in {"connecting", "open"},
           \A s \in Socket :
              /\ sock'[s].down = sock[s].down /\ sock'[s].host = sock[s].host
              /\ sock[s].cut => sock'[s].cut
              /\ \/ sock'[s].page = sock[s].page
                 \/ {sock'[s].page, sock[s].page} = {"connecting", "open"}
    PROVE  FlowInv'
  <1>1. Flow' /\ EventsAccounted'
    BY FlowStays DEF FlowInv
  <1>2. ASSUME NEW s \in Socket PROVE SocketOK(s)'
    <2>1. SocketOK(s)
      BY DEF FlowInv, Where
    <2>2. sock'[s].page \in {"connecting", "open"} <=> sock[s].page \in {"connecting", "open"}
      OBVIOUS
    <2>3. sock'[s].page = "closed" => sock[s].page = "closed"
      OBVIOUS
    <2> QED  BY <2>1, <2>2, <2>3 DEF SocketOK
  <1>3. ClientOK'
    BY HostType DEF FlowInv, Where, ClientOK, HostSet
  <1> QED  BY <1>1, <1>2, <1>3 DEF FlowInv, Where

LEMMA OpenFlow == ASSUME IInv, FlowInv, Open PROVE FlowInv'
  <1> DEFINE s == pipe.sock
             new == [sock[s] EXCEPT !.page = "open"]
  <1>1. /\ s \in Socket /\ pipe.state = "connecting"
        /\ pipe' = [pipe EXCEPT !.state = "open", !.attempts = 0, !.boot = FALSE]
        /\ UNCHANGED <<host, emitted, seen, lost>>
    BY DEF Open, IInv, PageOK
  <1>2. sock' = [sock EXCEPT ![s] = new]
    BY <1>1 DEF IInv, LinkOK, Open, Here
  <1>3. /\ new.page = "open" /\ new.host = sock[s].host /\ new.down = sock[s].down
        /\ new.cut = sock[s].cut
    BY <1>1, Sockets DEF Link
  <1>4. pipe'.sock = s /\ pipe'.state = "open"
    BY <1>1 DEF IInv, PageOK
  <1> HIDE DEF new, s
  <1>5. \A t \in Socket : sock'[t] = IF t = s THEN new ELSE sock[t]
    BY <1>1, <1>2 DEF IInv, LinkOK
  <1>6. ASSUME sock[s].page \in {"idle", "closed"} PROVE FlowInv'
    <2>1. Flow' /\ EventsAccounted'
      BY <1>1, <1>3, <1>5, FlowStays DEF FlowInv
    <2>2. \A t \in Socket : SocketOK(t)'
      BY <1>1, <1>3, <1>4, <1>5, <1>6 DEF FlowInv, Where, SocketOK, s
    <2>3. ClientOK'
      BY <1>1, <1>3, <1>5, HostType DEF FlowInv, Where, ClientOK, HostSet
    <2> QED  BY <2>1, <2>2, <2>3 DEF FlowInv, Where
  <1>7. ASSUME sock[s].page \in {"connecting", "open"} PROVE FlowInv'
    <2>1. \A t \in Socket :
              /\ sock'[t].down = sock[t].down /\ sock'[t].host = sock[t].host
              /\ sock[t].cut => sock'[t].cut
              /\ \/ sock'[t].page = sock[t].page
                 \/ {sock'[t].page, sock[t].page} = {"connecting", "open"}
      BY <1>3, <1>5, <1>7
    <2>2. pipe'.sock = pipe.sock /\ pipe'.state \in {"connecting", "open"}
      BY <1>4 DEF s
    <2> QED  BY <1>1, <2>1, <2>2, SocketsStay
  <1>8. sock[s].page \in {"idle", "connecting", "open", "closed"}
    BY <1>1, Sockets DEF Link
  <1> QED  BY <1>6, <1>7, <1>8

\* The page lets go of its socket, with what that still carried.
LEMMA PageLeaves ==
    ASSUME IInv, FlowInv, NEW s \in Socket, s = pipe.sock, UNCHANGED <<host, emitted, seen>>,
           NEW new, sock' = [sock EXCEPT ![s] = new],
           new.page = "closed", new.cut, new.down = <<>>, new.host = sock[s].host,
           lost' = lost \cup Events(sock[s].down)
    PROVE  FlowInv'
  <1>1. \A t \in Socket : sock'[t] = IF t = s THEN new ELSE sock[t]
    BY DEF IInv, LinkOK
  <1>2. Flow' /\ EventsAccounted'
    <2>1. \A t \in Socket : /\ Ordered(sock'[t].down)
                            /\ Events(sock'[t].down) \subseteq Events(sock[t].down)
                            /\ Events(sock[t].down) \subseteq Events(sock'[t].down) \cup lost'
      BY <1>1, NoEvents DEF FlowInv, Flow
    <2> QED  BY <2>1, FlowThins DEF FlowInv
  <1>3. \A t \in Socket : SocketOK(t)'
    <2>1. ASSUME NEW t \in Socket, t # s PROVE SocketOK(t)'
      BY <1>1, <2>1 DEF FlowInv, Where, SocketOK
    <2>2. SocketOK(s)'
      BY <1>1 DEF FlowInv, Where, SocketOK
    <2> QED  BY <2>1, <2>2
  <1>4. ClientOK'
    BY <1>1, HostType DEF FlowInv, Where, ClientOK, HostSet
  <1> QED  BY <1>2, <1>3, <1>4 DEF FlowInv, Where

LEMMA DisconnectFlow == ASSUME IInv, FlowInv, Disconnect PROVE FlowInv'
  <1> DEFINE s == pipe.sock
             new == [sock[s] EXCEPT !.page = "closed", !.down = <<>>]
  <1>1. /\ s \in Socket /\ sock[s].cut /\ UNCHANGED <<host, emitted, seen>>
        /\ lost' = lost \cup Events(sock[s].down)
    BY DEF Disconnect, IInv, PageOK, Here
  <1>2. sock' = [sock EXCEPT ![s] = new]
    BY <1>1 DEF IInv, LinkOK, Disconnect, Here
  <1>3. /\ new.page = "closed" /\ new.cut /\ new.down = <<>> /\ new.host = sock[s].host
    BY <1>1, Sockets DEF Link
  <1> HIDE DEF new
  <1> QED  BY <1>1, <1>2, <1>3, PageLeaves

LEMMA ReloadFlow == ASSUME IInv, FlowInv, Reload PROVE FlowInv'
  <1> DEFINE s == pipe.sock
             new == [sock[s] EXCEPT !.page = "closed", !.cut = TRUE, !.down = <<>>]
  <1>1. UNCHANGED <<host, emitted, seen>>
    BY DEF Reload
  <1>2. CASE pipe.state \in {"connecting", "open"}
    <2>1. /\ s \in Socket /\ sock' = [sock EXCEPT ![s] = new]
          /\ lost' = lost \cup Events(sock[s].down)
      BY <1>2, HostType DEF Reload, Here, IInv, LinkOK, PageOK
    <2>2. new.page = "closed" /\ new.cut /\ new.down = <<>> /\ new.host = sock[s].host
      BY <2>1, Sockets DEF Link
    <2> HIDE DEF new
    <2> QED  BY <1>1, <2>1, <2>2, PageLeaves
  <1>3. CASE pipe.state \notin {"connecting", "open"}
    <2>1. sock' = sock /\ lost \subseteq lost'
      BY <1>3 DEF Reload
    <2>2. Flow' /\ EventsAccounted'
      BY <1>1, <2>1, FlowStays DEF FlowInv
    <2>3. \A t \in Socket : SocketOK(t)'
      BY <1>3, <2>1 DEF FlowInv, Where, SocketOK
    <2>4. ClientOK'
      BY <1>1, <2>1 DEF FlowInv, Where, ClientOK
    <2> QED  BY <2>2, <2>3, <2>4 DEF FlowInv, Where
  <1> QED  BY <1>2, <1>3

LEMMA GiveUpFlow == ASSUME IInv, FlowInv, GiveUp PROVE FlowInv'
  <1>1. /\ pipe.state = "waiting" /\ pipe' = [pipe EXCEPT !.state = "failed"]
        /\ sock' = sock /\ UNCHANGED <<host, emitted, seen, lost>>
    BY DEF GiveUp
  <1>2. pipe'.sock = pipe.sock
    BY <1>1 DEF IInv, PageOK
  <1> QED  BY <1>1, <1>2, SocketsStay

LEMMA RequestFlow == ASSUME IInv, FlowInv, Request \/ \E id \in 1..MaxCalls : Timeout(id)
                     PROVE  FlowInv'
  <1>1. pipe' = pipe /\ UNCHANGED <<host, emitted, seen, lost>>
    BY DEF Request, Timeout
  <1>2. \A t \in Socket :
            /\ sock'[t].down = sock[t].down /\ sock'[t].host = sock[t].host
            /\ sock'[t].cut = sock[t].cut /\ sock'[t].page = sock[t].page
    <2>1. CASE sock' = sock
      BY <2>1
    <2>2. CASE sock' # sock
      <3> DEFINE s == pipe.sock
                 up == Append(sock[s].up,
                              [id |-> page.next, of |-> <<page.load, page.next>>])
                 new == [sock[s] EXCEPT !.up = up]
      <3>1. sock' = [sock EXCEPT ![s] = new]
        BY <2>2 DEF Request, Timeout, Here, IInv, LinkOK
      <3> HIDE DEF up
      <3>2. CASE s \in Socket
        <4>1. /\ new.down = sock[s].down /\ new.host = sock[s].host
              /\ new.cut = sock[s].cut /\ new.page = sock[s].page
          BY <3>2, Sockets DEF Link
        <4> HIDE DEF new, s
        <4>2. \A t \in Socket : sock'[t] = IF t = s THEN new ELSE sock[t]
          BY <3>1, <3>2 DEF IInv, LinkOK
        <4> QED  BY <4>1, <4>2
      <3>3. CASE s \notin Socket
        <4> HIDE DEF new
        <4> QED  BY <2>2, <3>1, <3>3 DEF IInv, LinkOK
      <3> QED  BY <3>2, <3>3
    <2> QED  BY <2>1, <2>2
  <1> QED  BY <1>1, <1>2, SocketsStay

\* The page takes the first frame of its socket: the oldest event there is.
LEMMA ReceiveFlow == ASSUME IInv, FlowInv, Receive PROVE FlowInv'
  <1> DEFINE s == pipe.sock
             frame == Head(sock[s].down)
             rest == Tail(sock[s].down)
             new == [sock[s] EXCEPT !.down = rest]
  <1>1. /\ s \in Socket /\ sock[s].down # <<>>
        /\ seen' = IF IsReply(frame) THEN seen ELSE Append(seen, frame.n)
        /\ pipe' = pipe /\ UNCHANGED <<host, emitted, lost>>
    BY DEF Receive, IInv, PageOK, Here
  <1>2. sock' = [sock EXCEPT ![s] = new]
    BY <1>1 DEF IInv, LinkOK, Receive, Here
  <1>3. sock[s].down \in Seq(Frames(page.load))
    BY <1>1, Sockets
  <1>4. /\ Events(sock[s].down) = EventOf(frame) \cup Events(rest)
        /\ Ordered(rest) /\ \A m \in EventOf(frame), n \in Events(rest) : m < n
    BY <1>1, <1>3, EventsTail DEF FlowInv, Flow
  <1> HIDE DEF rest
  <1>5. /\ new.down = rest /\ new.host = sock[s].host
        /\ new.cut = sock[s].cut /\ new.page = sock[s].page
    BY <1>1, Sockets DEF Link
  <1> HIDE DEF new, frame
  <1>6. \A t \in Socket : sock'[t] = IF t = s THEN new ELSE sock[t]
    BY <1>1, <1>2 DEF IInv, LinkOK
  <1>o. \A t \in Socket \ {s} : sock[t].down = <<>>
    BY DEF FlowInv, Where, SocketOK, s
  <1> HIDE DEF s
  <1>7. Where'
    <2>1. \A t \in Socket : SocketOK(t)'
      BY <1>1, <1>5, <1>6 DEF FlowInv, Where, SocketOK
    <2>2. ClientOK'
      BY <1>1, <1>5, <1>6, HostType DEF FlowInv, Where, ClientOK, HostSet
    <2> QED  BY <2>1, <2>2 DEF Where
  <1>8. /\ seen' \in Seq(Nat) /\ ToSet(seen') = ToSet(seen) \cup EventOf(frame)
        /\ EventsInOrder'
    <2>1. CASE IsReply(frame)
      BY <1>1, <2>1 DEF FlowInv, Flow, EventsInOrder, EventOf
    <2>2. CASE ~IsReply(frame)
      <3> DEFINE n == frame.n
      <3>1. EventOf(frame) = {n} /\ seen' = Append(seen, n)
        BY <1>1, <2>2 DEF EventOf
      <3>2. n \in Events(sock[s].down)
        BY <1>4, <3>1
      <3>3. /\ n \in Nat /\ seen \in Seq(Nat) /\ Len(seen) \in Nat
            /\ \A x \in ToSet(seen) : x < n
        <4>1. n \in 1..emitted /\ emitted \in Nat /\ seen \in Seq(Nat)
          BY <1>1, <3>2 DEF FlowInv, Flow
        <4>2. \A x \in ToSet(seen) : x < n
          BY <1>1, <3>2 DEF FlowInv, Flow
        <4> HIDE DEF n
        <4> QED  BY <4>1, <4>2
      <3> HIDE DEF n
      <3>4. /\ seen' \in Seq(Nat) /\ DOMAIN seen' = 1..(Len(seen) + 1)
            /\ seen'[Len(seen) + 1] = n /\ \A i \in 1..Len(seen) : seen'[i] = seen[i]
        BY <3>1, <3>3
      <3>5. \A i \in 1..(Len(seen) + 1) : i \in 1..Len(seen) \/ i = Len(seen) + 1
        BY <3>3
      <3>6. /\ DOMAIN seen = 1..Len(seen) /\ 1..Len(seen) \subseteq 1..(Len(seen) + 1)
            /\ Len(seen) + 1 \in 1..(Len(seen) + 1)
        BY <3>3
      <3>7. ToSet(seen') = ToSet(seen) \cup {n}
        BY <3>4, <3>5, <3>6 DEF ToSet
      <3>8. EventsInOrder'
        <4> SUFFICES ASSUME NEW i \in 1..(Len(seen) + 1), NEW j \in 1..(Len(seen) + 1), i < j
                     PROVE  seen'[i] < seen'[j]
          BY <3>4 DEF EventsInOrder
        <4>0. i \in 1..Len(seen)
          BY <3>3
        <4>1. i \in 1..Len(seen) /\ seen'[i] = seen[i]
          BY <3>4, <4>0
        <4>2. CASE j \in 1..Len(seen)
          BY <3>4, <3>6, <4>1, <4>2 DEF FlowInv, Flow, EventsInOrder
        <4>3. CASE j = Len(seen) + 1
          <5>1. seen[i] \in ToSet(seen)
            BY <3>6, <4>1 DEF ToSet
          <5> QED  BY <3>3, <3>4, <4>1, <4>3, <5>1
        <4> QED  BY <3>5, <4>2, <4>3
      <3> QED  BY <3>1, <3>4, <3>7, <3>8
    <2> QED  BY <2>1, <2>2
  <1>9. Flow'
    <2>1. \A t \in Socket :
            /\ Events(sock'[t].down) = IF t = s THEN Events(rest) ELSE {}
            /\ Ordered(sock'[t].down)
      BY <1>4, <1>5, <1>6, <1>o, NoEvents
    <2>2. /\ \A x \in ToSet(seen) \cup EventOf(frame), n \in Events(rest) : x < n
          /\ \A x \in ToSet(seen) \cup EventOf(frame), n \in Events(host.buffer) : x < n
          /\ \A m \in Events(rest), n \in Events(host.buffer) : m < n
          /\ Events(rest) \subseteq 1..emitted /\ EventOf(frame) \subseteq 1..emitted
          /\ ToSet(seen) \subseteq 1..emitted
          /\ Events(host.buffer) \subseteq 1..emitted /\ Ordered(host.buffer)
      BY <1>1, <1>4 DEF FlowInv, Flow
    <2>3. emitted' \in Nat /\ host' = host /\ emitted' = emitted
      BY <1>1 DEF FlowInv, Flow
    <2> QED  BY <1>8, <2>1, <2>2, <2>3 DEF Flow
  <1>10. EventsAccounted'
    <2>1. OnTheWay \subseteq OnTheWay' \cup EventOf(frame)
      BY <1>4, <1>5, <1>6 DEF OnTheWay
    <2> QED  BY <1>1, <1>8, <2>1 DEF FlowInv, EventsAccounted
  <1> QED  BY <1>7, <1>9, <1>10 DEF FlowInv

(***************************************************************************)
(* Steps of the host                                                       *)
(***************************************************************************)
LEMMA RefuseFlow ==
    ASSUME IInv, FlowInv, NEW s \in Socket, Accept(s), host.client # None
    PROVE  FlowInv'
  <1> DEFINE new == [sock[s] EXCEPT !.host = "refused", !.cut = TRUE]
  <1>1. /\ sock' = [sock EXCEPT ![s] = new] /\ sock[s].host = "idle"
        /\ UNCHANGED <<host, lost, pipe, emitted, seen>>
    BY DEF Accept, IInv, LinkOK
  <1>2. /\ new.page = sock[s].page /\ new.host = "refused" /\ new.cut
        /\ new.down = sock[s].down
    BY Sockets DEF Link
  <1> HIDE DEF new
  <1>3. \A t \in Socket : sock'[t] = IF t = s THEN new ELSE sock[t]
    BY <1>1 DEF IInv, LinkOK
  <1>4. Flow' /\ EventsAccounted'
    BY <1>1, <1>2, <1>3, FlowStays DEF FlowInv
  <1>5. \A t \in Socket : SocketOK(t)'
    BY <1>1, <1>2, <1>3 DEF FlowInv, Where, SocketOK
  <1>6. ClientOK'
    BY <1>1, <1>3, HostType DEF FlowInv, Where, ClientOK, HostSet
  <1> QED  BY <1>4, <1>5, <1>6 DEF FlowInv, Where

\* A socket that is taken gets what was buffered; no other carries anything.
LEMMA TakeFlow ==
    ASSUME IInv, FlowInv, NEW s \in Socket, Accept(s), host.client = None
    PROVE  FlowInv'
  <1> DEFINE down == IF Cut(s) THEN sock[s].down ELSE host.buffer
             new == [sock[s] EXCEPT !.host = "taken", !.down = down]
  <1>1. /\ sock' = [sock EXCEPT ![s] = new]
        /\ sock[s].host = "idle" /\ sock[s].page # "idle"
        /\ host' = [[host EXCEPT !.buffer = <<>>] EXCEPT !.client = s, !.timer = FALSE]
        /\ lost' = IF Cut(s) THEN lost \cup Events(host.buffer) ELSE lost
        /\ UNCHANGED <<pipe, emitted, seen>>
    BY DEF Accept, Flushed, Backlog, IInv, LinkOK
  <1>2. host'.buffer = <<>> /\ host'.client = s
    BY <1>1, HostType DEF HostSet
  <1>3. Cut(s) <=> sock[s].cut
    BY HostType DEF Cut
  <1>4. sock[s].down = <<>> /\ SocketOK(s)
    BY <1>1 DEF FlowInv, Where, SocketOK
  <1> HIDE DEF down
  <1>5. /\ new.page = sock[s].page /\ new.host = "taken" /\ new.cut = sock[s].cut
        /\ new.down = down
    BY Sockets DEF Link
  <1> HIDE DEF new
  <1>6. \A t \in Socket : sock'[t] = IF t = s THEN new ELSE sock[t]
    BY <1>1 DEF IInv, LinkOK
  <1>7. ClientOK'
    BY <1>2, <1>5, <1>6 DEF ClientOK
  <1>n. Events(<<>>) = {} /\ Ordered(<<>>)
    BY NoEvents
  <1>8. CASE sock[s].cut
    <2>1. down = <<>> /\ lost' = lost \cup Events(host.buffer)
      BY <1>1, <1>3, <1>4, <1>8 DEF down
    <2>2. \A t \in Socket : sock'[t].down = sock[t].down
      BY <1>4, <1>5, <1>6, <2>1
    <2>3. \A t \in Socket : SocketOK(t)'
      BY <1>1, <1>5, <1>6, <2>2 DEF FlowInv, Where, SocketOK
    <2>4. Flow'
      BY <1>1, <1>2, <1>n, <2>2 DEF FlowInv, Flow, EventsInOrder
    <2>5. OnTheWay' = OnTheWay
      BY <2>2 DEF OnTheWay
    <2>6. EventsAccounted'
      BY <1>1, <2>1, <2>5 DEF FlowInv, EventsAccounted
    <2> QED  BY <1>7, <2>3, <2>4, <2>6 DEF FlowInv, Where
  <1>9. CASE ~sock[s].cut
    <2>1. down = host.buffer /\ lost' = lost
      BY <1>1, <1>3, <1>9 DEF down
    <2>2. sock[s].page \in {"connecting", "open"}
      <3>1. sock[s].page \in {"idle", "connecting", "open", "closed"}
        BY Sockets DEF Link
      <3> QED  BY <1>1, <1>4, <1>9, <3>1 DEF SocketOK
    <2>3. \A t \in Socket : sock[t].down = <<>>
      BY <1>4, <2>2 DEF FlowInv, Where, SocketOK
    <2>4. \A t \in Socket : sock'[t].down = IF t = s THEN host.buffer ELSE <<>>
      BY <1>5, <1>6, <2>1, <2>3
    <2>5. \A t \in Socket : SocketOK(t)'
      BY <1>1, <1>5, <1>6, <2>2, <2>4 DEF FlowInv, Where, SocketOK
    <2>6. Flow'
      BY <1>1, <1>2, <1>n, <2>4 DEF FlowInv, Flow, EventsInOrder
    <2>7. OnTheWay = {} /\ OnTheWay' = Events(host.buffer)
      BY <1>n, <2>3, <2>4 DEF OnTheWay
    <2>8. EventsAccounted'
      BY <1>1, <2>1, <2>7 DEF FlowInv, EventsAccounted
    <2> QED  BY <1>7, <2>5, <2>6, <2>8 DEF FlowInv, Where
  <1> QED  BY <1>8, <1>9, Sockets

LEMMA HostReceivesFlow ==
    ASSUME IInv, FlowInv, NEW s \in Socket, HostReceives(s)
    PROVE  FlowInv'
  <1> DEFINE rest == Tail(sock[s].up)
             new == [sock[s] EXCEPT !.up = rest]
  <1>1. sock' = [sock EXCEPT ![s] = new] /\ UNCHANGED <<pipe, host, emitted, seen, lost>>
    BY DEF HostReceives, IInv, LinkOK
  <1> HIDE DEF rest
  <1>2. /\ new.down = sock[s].down /\ new.host = sock[s].host
        /\ new.cut = sock[s].cut /\ new.page = sock[s].page
    BY Sockets DEF Link
  <1> HIDE DEF new
  <1>3. \A t \in Socket : sock'[t] = IF t = s THEN new ELSE sock[t]
    BY <1>1 DEF IInv, LinkOK
  <1>4. \A t \in Socket :
            /\ sock'[t].down = sock[t].down /\ sock'[t].host = sock[t].host
            /\ sock'[t].cut = sock[t].cut /\ sock'[t].page = sock[t].page
    BY <1>2, <1>3
  <1> QED  BY <1>1, <1>4, SocketsStay

\* The host lets go of a socket; the one it is attached to stays, if another.
LEMMA DetachFlow ==
    ASSUME IInv, FlowInv, NEW s \in Socket, HostError(s) \/ HostClose(s)
    PROVE  FlowInv'
  <1> DEFINE up == IF HostError(s) THEN <<>> ELSE sock[s].up
             end == IF HostError(s) THEN "errored" ELSE "closed"
             new == [sock[s] EXCEPT !.host = end, !.up = up]
  <1>1. /\ sock[s].host \in {"taken", "errored"} /\ host' = Detached(s)
        /\ UNCHANGED <<pipe, emitted, seen, lost>>
    BY DEF HostError, HostClose
  <1>2. sock' = [sock EXCEPT ![s] = new]
    <2>1. CASE HostError(s)
      BY <2>1 DEF HostError, IInv, LinkOK
    <2>2. CASE ~HostError(s)
      <3>1. sock' = [sock EXCEPT ![s] = [sock[s] EXCEPT !.host = "closed"]]
        BY <2>2 DEF HostClose, IInv, LinkOK
      <3>2. [sock[s] EXCEPT !.host = "closed"] = new
        BY <2>2, Sockets DEF Link
      <3> QED  BY <3>1, <3>2
    <2> QED  BY <2>1, <2>2
  <1> HIDE DEF up
  <1>3. /\ new.down = sock[s].down /\ new.host \notin {"idle", "taken"}
        /\ new.cut = sock[s].cut /\ new.page = sock[s].page
    BY Sockets DEF Link
  <1> HIDE DEF new, end
  <1>4. \A t \in Socket : sock'[t] = IF t = s THEN new ELSE sock[t]
    BY <1>2 DEF IInv, LinkOK
  <1>5. /\ host'.buffer = host.buffer
        /\ host'.client = IF host.client = s THEN None ELSE host.client
    BY <1>1, HostType DEF Detached, IsAttached, HostSet
  <1>6. Flow' /\ EventsAccounted'
    BY <1>1, <1>3, <1>4, <1>5, FlowStays DEF FlowInv
  <1>7. \A t \in Socket : SocketOK(t)'
    BY <1>1, <1>3, <1>4 DEF FlowInv, Where, SocketOK
  <1>8. ClientOK'
    BY <1>4, <1>5, HostType DEF FlowInv, Where, ClientOK, HostSet
  <1> QED  BY <1>6, <1>7, <1>8 DEF FlowInv, Where

LEMMA TearDownFlow == ASSUME IInv, FlowInv, TearDown PROVE FlowInv'
  <1>1. /\ host' = [host EXCEPT !.timer = FALSE, !.torn = TRUE]
        /\ sock' = [t \in Socket |-> IF sock[t].page = "idle" THEN sock[t]
                                     ELSE [sock[t] EXCEPT !.cut = TRUE]]
        /\ UNCHANGED <<pipe, emitted, seen, lost>>
    BY DEF TearDown
  <1>2. host'.client = host.client /\ host'.buffer = host.buffer
    BY <1>1, HostType DEF HostSet
  <1>3. ASSUME NEW t \in Socket
        PROVE  /\ sock'[t].down = sock[t].down /\ sock'[t].host = sock[t].host
               /\ sock[t].cut => sock'[t].cut
               /\ sock'[t].page = sock[t].page
    BY <1>1, Sockets DEF Link
  <1> QED  BY <1>1, <1>2, <1>3, SocketsStay

LEMMA GraceFlow == ASSUME IInv, FlowInv, GraceEnds PROVE FlowInv'
  <1>1. CASE host.client = None
    BY <1>1, TearDownFlow DEF GraceEnds
  <1>2. CASE host.client # None
    <2>1. /\ host' = [host EXCEPT !.timer = FALSE]
          /\ UNCHANGED <<sock, pipe, emitted, seen, lost>>
      BY <1>2 DEF GraceEnds
    <2>2. host'.client = host.client /\ host'.buffer = host.buffer
      BY <2>1, HostType DEF HostSet
    <2> QED  BY <2>1, <2>2, SocketsStay
  <1> QED  BY <1>1, <1>2

LEMMA BreaksFlow ==
    ASSUME IInv, FlowInv, NEW s \in Socket, Breaks(s)
    PROVE  FlowInv'
  <1>1. PICK i \in 0..Len(sock[s].up), j \in 0..Len(sock[s].down) :
            /\ sock' = [sock EXCEPT ![s].cut = TRUE, ![s].up = SubSeq(@, 1, i),
                                    ![s].down = SubSeq(@, 1, j)]
            /\ lost' = lost \cup Events(SubSeq(sock[s].down, j + 1, Len(sock[s].down)))
    BY DEF Breaks
  <1> DEFINE up == SubSeq(sock[s].up, 1, i)
             down == SubSeq(sock[s].down, 1, j)
             rest == SubSeq(sock[s].down, j + 1, Len(sock[s].down))
             new == [sock[s] EXCEPT !.cut = TRUE, !.up = up, !.down = down]
  <1>2. /\ sock[s].page \in {"connecting", "open"} /\ UNCHANGED <<pipe, host, emitted, seen>>
        /\ sock' = [sock EXCEPT ![s] = new] /\ lost' = lost \cup Events(rest)
    BY <1>1 DEF Breaks, IInv, LinkOK
  <1>3. /\ Events(sock[s].down) \subseteq Events(down) \cup Events(rest)
        /\ Events(down) \subseteq Events(sock[s].down) /\ Ordered(down)
    BY Sockets, EventsSplit DEF FlowInv, Flow
  <1>4. sock[s].down = <<>> => down = <<>>
    BY Sockets
  <1> HIDE DEF up, down, rest
  <1>5. /\ new.down = down /\ new.host = sock[s].host
        /\ new.cut /\ new.page = sock[s].page
    BY Sockets DEF Link
  <1> HIDE DEF new
  <1>6. \A t \in Socket : sock'[t] = IF t = s THEN new ELSE sock[t]
    BY <1>2 DEF IInv, LinkOK
  <1>7. Flow' /\ EventsAccounted'
    <2>1. \A t \in Socket : /\ Ordered(sock'[t].down)
                            /\ Events(sock'[t].down) \subseteq Events(sock[t].down)
                            /\ Events(sock[t].down) \subseteq Events(sock'[t].down) \cup lost'
      BY <1>2, <1>3, <1>5, <1>6 DEF FlowInv, Flow
    <2> QED  BY <1>2, <2>1, FlowThins DEF FlowInv
  <1>8. \A t \in Socket : SocketOK(t)'
    BY <1>2, <1>4, <1>5, <1>6 DEF FlowInv, Where, SocketOK
  <1>9. ClientOK'
    BY <1>2, <1>5, <1>6, HostType DEF FlowInv, Where, ClientOK, HostSet
  <1> QED  BY <1>7, <1>8, <1>9 DEF FlowInv, Where

(***************************************************************************)
(* Steps of the backend                                                    *)
(***************************************************************************)
\* A frame is forwarded: a reply, or the next event.
LEMMA ForwardFlow ==
    ASSUME IInv, FlowInv, NEW frame \in Frames(page.load), Forward(frame),
           pipe' = pipe, seen' = seen, emitted' \in Nat,
           1..emitted' = 1..emitted \cup EventOf(frame),
           \A n \in EventOf(frame) : \A m \in 1..emitted : m < n
    PROVE  FlowInv'
  <1>0. host.client \in Socket \cup {None} /\ None \notin Socket
        /\ host.buffer \in Seq(Frames(page.load))
    BY HostType DEF HostSet
  <1>f. /\ emitted \in Nat /\ seen \in Seq(Nat) /\ EventsInOrder
        /\ 1..emitted \subseteq 1..emitted' /\ EventOf(frame) \subseteq 1..emitted'
        /\ ToSet(seen) \subseteq 1..emitted /\ Events(host.buffer) \subseteq 1..emitted
        /\ \A t \in Socket : Events(sock[t].down) \subseteq 1..emitted
    BY DEF FlowInv, Flow
  <1>1. CASE host.client = None
    <2> DEFINE more == Append(host.buffer, frame)
    <2>1. sock' = sock /\ lost' = lost /\ host' = [host EXCEPT !.buffer = more]
      BY <1>1 DEF Forward, Cut
    <2>2. /\ Events(more) = Events(host.buffer) \cup EventOf(frame) /\ Ordered(more)
      <3>1. \A m \in Events(host.buffer), n \in EventOf(frame) : m < n
        BY <1>f
      <3> QED  BY <1>0, <3>1, EventsAppend DEF FlowInv, Flow
    <2> HIDE DEF more
    <2>3. host'.buffer = more /\ host'.client = None
      BY <1>1, <2>1, HostType DEF HostSet
    <2>4. Where'
      BY <2>1, <2>3 DEF FlowInv, Where, ClientOK, SocketOK
    <2>5. Flow'
      BY <1>f, <2>1, <2>2, <2>3 DEF FlowInv, Flow, EventsInOrder
    <2>6. EventsAccounted'
      BY <2>1, <2>2, <2>3 DEF FlowInv, EventsAccounted, OnTheWay
    <2> QED  BY <2>4, <2>5, <2>6 DEF FlowInv
  <1>2. CASE host.client # None /\ Cut(host.client)
    <2>1. /\ sock' = sock /\ host' = host /\ lost' = lost \cup Events(<<frame>>)
      BY <1>2 DEF Forward
    <2>2. Events(<<frame>>) = EventOf(frame)
      BY DEF Events, EventOf, ToSet
    <2>3. Where'
      BY <2>1 DEF FlowInv, Where, ClientOK, SocketOK
    <2>4. Flow'
      BY <1>f, <2>1 DEF FlowInv, Flow, EventsInOrder
    <2>5. EventsAccounted'
      BY <2>1, <2>2 DEF FlowInv, EventsAccounted, OnTheWay
    <2> QED  BY <2>3, <2>4, <2>5 DEF FlowInv
  <1>3. CASE host.client # None /\ ~Cut(host.client)
    <2> DEFINE s == host.client
               down == Append(sock[s].down, frame)
               new == [sock[s] EXCEPT !.down = down]
    <2>1. s \in Socket /\ ~sock[s].cut /\ sock[s].host = "taken" /\ host.buffer = <<>>
      BY <1>0, <1>3 DEF Cut, FlowInv, Where, ClientOK
    <2>2. sock' = [sock EXCEPT ![s] = new] /\ lost' = lost /\ host' = host
      BY <1>3, <2>1 DEF Forward, IInv, LinkOK
    <2>3. Events(down) = Events(sock[s].down) \cup EventOf(frame) /\ Ordered(down)
      <3>1. \A m \in Events(sock[s].down), n \in EventOf(frame) : m < n
        BY <1>f, <2>1
      <3>2. sock[s].down \in Seq(Frames(page.load)) /\ Ordered(sock[s].down)
        BY <2>1, Sockets DEF FlowInv, Flow
      <3> HIDE DEF s
      <3> QED  BY <3>1, <3>2, EventsAppend
    <2> HIDE DEF down
    <2>4. /\ new.down = down /\ new.host = "taken" /\ ~new.cut /\ new.page = sock[s].page
      BY <2>1, Sockets DEF Link
    <2>5. \A t \in Socket : sock'[t] = IF t = s THEN new ELSE sock[t]
      <3> HIDE DEF new
      <3> QED  BY <2>1, <2>2 DEF IInv, LinkOK
    <2> HIDE DEF new
    <2>6. sock[s].page \in {"connecting", "open"}
      <3>1. sock[s].page \in {"idle", "connecting", "open", "closed"}
        BY <2>1, Sockets DEF Link
      <3> QED  BY <2>1, <3>1 DEF IInv, IdleOK, FlowInv, Where, SocketOK
    <2>7. \A t \in Socket : SocketOK(t)'
      BY <2>1, <2>4, <2>5, <2>6 DEF FlowInv, Where, SocketOK
    <2>8. ClientOK'
      BY <2>1, <2>2, <2>4, <2>5 DEF ClientOK
    <2>9. \A t \in Socket : sock'[t].down = IF t = s THEN down ELSE sock[t].down
      BY <2>4, <2>5
    <2> HIDE DEF s
    <2>10. Flow'
      <3>1. Events(host'.buffer) = {} /\ Ordered(host'.buffer)
        BY <2>1, <2>2, NoEvents
      <3>2. \A t \in Socket : Ordered(sock'[t].down)
        BY <2>3, <2>9 DEF FlowInv, Flow
      <3>3. \A t \in Socket : Events(sock'[t].down) \subseteq Events(sock[t].down) \cup EventOf(frame)
        BY <2>3, <2>9
      <3>4. \A t \in Socket : \A x \in ToSet(seen) : \A n \in Events(sock'[t].down) : x < n
        BY <1>f, <3>3 DEF FlowInv, Flow
      <3>5. \A t \in Socket : Events(sock'[t].down) \subseteq 1..emitted'
        BY <1>f, <3>3
      <3> QED  BY <1>f, <3>1, <3>2, <3>4, <3>5 DEF Flow, EventsInOrder
    <2>11. EventsAccounted'
      <3>1. OnTheWay' = OnTheWay \cup EventOf(frame)
        BY <2>1, <2>3, <2>9 DEF OnTheWay
      <3> QED  BY <2>2, <3>1 DEF FlowInv, EventsAccounted
    <2> QED  BY <2>7, <2>8, <2>10, <2>11 DEF FlowInv, Where
  <1> QED  BY <1>1, <1>2, <1>3

LEMMA FinishFlow == ASSUME IInv, FlowInv, NEW call \in backend, Finish(call) PROVE FlowInv'
  <1>1. Forward(Reply(call)) /\ pipe' = pipe /\ seen' = seen /\ emitted' = emitted
    BY DEF Finish
  <1>2. Reply(call) \in Frames(page.load) /\ EventOf(Reply(call)) = {}
    BY DEF IInv, DiagOK, Frames, EventOf, IsReply, Reply
  <1>3. emitted \in Nat
    BY DEF FlowInv, Flow
  <1> HIDE DEF Reply
  <1> QED  BY <1>1, <1>2, <1>3, ForwardFlow

LEMMA EmitFlow == ASSUME IInv, FlowInv, Emit PROVE FlowInv'
  <1>1. /\ Forward(Event(emitted + 1)) /\ pipe' = pipe /\ seen' = seen
        /\ emitted' = emitted + 1 /\ emitted \in Nat
    BY DEF Emit, FlowInv, Flow
  <1>2. Event(emitted + 1) \in Frames(page.load) /\ EventOf(Event(emitted + 1)) = {emitted + 1}
    BY <1>1 DEF Frames, EventOf, IsReply, Event
  <1>3. /\ emitted' \in Nat /\ 1..emitted' = 1..emitted \cup {emitted + 1}
        /\ \A m \in 1..emitted : m < emitted + 1
    BY <1>1
  <1> QED  BY <1>1, <1>2, <1>3, ForwardFlow

LEMMA FlowNext == ASSUME IInv, FlowInv, [Next]_vars PROVE FlowInv'
  <1>1. CASE PageNext
    BY <1>1, ConnectFlow, OpenFlow, DisconnectFlow, GiveUpFlow, RequestFlow, ReceiveFlow,
       ReloadFlow DEF PageNext
  <1>2. CASE HostNext
    <2>1. CASE GraceEnds \/ Quit
      BY <2>1, GraceFlow, TearDownFlow DEF Quit
    <2>2. ASSUME NEW s \in Socket,
                 Accept(s) \/ HostReceives(s) \/ HostError(s) \/ HostClose(s) \/ Breaks(s)
          PROVE  FlowInv'
      BY <2>2, RefuseFlow, TakeFlow, HostReceivesFlow, DetachFlow, BreaksFlow
    <2> QED  BY <1>2, <2>1, <2>2 DEF HostNext
  <1>3. CASE BackendNext
    <2>1. ASSUME NEW d \in Diag, Asks(d) \/ DiagClose(d) PROVE FlowInv'
      <3>1. UNCHANGED <<pipe, sock, host, emitted, seen, lost>>
        BY <2>1 DEF Asks, DiagClose
      <3> QED  BY <3>1, SocketsStay
    <2> QED  BY <1>3, <2>1, EmitFlow, FinishFlow DEF BackendNext
  <1>4. CASE UNCHANGED vars
    <2>1. UNCHANGED <<pipe, sock, host, emitted, seen, lost>>
      BY <1>4 DEF vars
    <2> QED  BY <2>1, SocketsStay
  <1> QED  BY <1>1, <1>2, <1>3, <1>4 DEF Next

LEMMA FlowInit == Init => FlowInv
  <1> SUFFICES ASSUME Init PROVE FlowInv
    OBVIOUS
  <1>1. /\ seen = <<>> /\ host.buffer = <<>> /\ emitted = 0 /\ host.client = None
        /\ \A s \in Socket : /\ sock[s].page = "idle" /\ sock[s].down = <<>>
    BY DEF Init, Unopened
  <1>2. Where
    BY <1>1 DEF Where, ClientOK, SocketOK
  <1>3. ToSet(seen) = {} /\ seen \in Seq(Nat) /\ EventsInOrder
    BY <1>1 DEF ToSet, EventsInOrder
  <1>4. Flow
    BY <1>1, <1>3, NoEvents DEF Flow
  <1>5. EventsAccounted
    BY <1>1 DEF EventsAccounted
  <1> QED  BY <1>2, <1>4, <1>5 DEF FlowInv

(***************************************************************************)
(* The theorems                                                            *)
(***************************************************************************)
LEMMA StutterStep == ASSUME IInv, UNCHANGED vars PROVE IInv'
  BY DEF vars, IInv, PageOK, LinkOK, IdleOK, AttachedOK, DiagOK, AnswersKeepToTheirSide

LEMMA Emitted == ASSUME emitted \in Nat, [Next]_vars PROVE emitted' \in Nat
  <1>1. CASE PageNext
    BY <1>1 DEF PageNext, Connect, Open, Disconnect, GiveUp, Request, Receive, Reload,
                Timeout
  <1>2. CASE HostNext
    BY <1>2 DEF HostNext, GraceEnds, TearDown, Quit, Accept, HostReceives, HostError,
                HostClose, Breaks
  <1>3. CASE BackendNext
    <2>1. CASE Emit
      BY <2>1 DEF Emit
    <2>2. ASSUME NEW call \in backend, Finish(call) PROVE emitted' \in Nat
      BY <2>2 DEF Finish
    <2>3. ASSUME NEW d \in Diag, Asks(d) \/ DiagClose(d) PROVE emitted' \in Nat
      BY <2>3 DEF Asks, DiagClose
    <2> QED  BY <1>3, <2>1, <2>2, <2>3 DEF BackendNext
  <1> QED  BY <1>1, <1>2, <1>3 DEF Next, vars

LEMMA NextInv == ASSUME IInv, emitted \in Nat, [Next]_vars PROVE IInv'
  <1>1. CASE PageNext
    BY <1>1, ConnectStep, OpenStep, DisconnectStep, GiveUpStep, RequestStep, ReceiveStep,
       ReloadStep, TimeoutStep DEF PageNext
  <1>2. CASE HostNext
    <2>1. CASE GraceEnds \/ Quit
      BY <2>1, GraceStep, TearDownStep DEF Quit
    <2>2. ASSUME NEW s \in Socket,
                 Accept(s) \/ HostReceives(s) \/ HostError(s) \/ HostClose(s) \/ Breaks(s)
          PROVE  IInv'
      BY <2>2, AcceptStep, HostReceivesStep, DetachStep, BreaksStep
    <2> QED  BY <1>2, <2>1, <2>2 DEF HostNext
  <1>3. CASE BackendNext
    BY <1>3, EmitStep, FinishStep, AsksStep, DiagCloseStep DEF BackendNext
  <1> QED  BY <1>1, <1>2, <1>3, StutterStep DEF Next

LEMMA Invariant == Spec => [](IInv /\ emitted \in Nat)
  <1>1. Init => IInv /\ emitted \in Nat
    BY InitInv DEF Init
  <1>2. (IInv /\ emitted \in Nat) /\ [Next]_vars => (IInv /\ emitted \in Nat)'
    BY NextInv, Emitted
  <1> QED  BY <1>1, <1>2, PTL DEF Spec

\* For any number of reloads, reconnections, calls and diagnostic sockets, a
\* diagnostic gets the answer to its own call only, and a page the answer to a
\* call of its own id, its own or an earlier load's: no answer crosses between
\* the renderer and the diagnostics (rpc-websocket-auth.cjs:110-130).
THEOREM AnswersCorrect == Spec => []AnswersKeepToTheirSide
  <1>1. IInv => AnswersKeepToTheirSide
    BY DEF IInv
  <1> QED  BY <1>1, Invariant, PTL

\* For any number of sockets, the host is attached to a renderer it took for as
\* long as that renderer's connection stands, and so to one at most: a late
\* 'close' of an older socket detaches nobody (index.js:227-229).
THEOREM AttachedCorrect == Spec => []AttachedWhileOpen
  <1>1. IInv => AttachedWhileOpen
    BY DEF IInv, AttachedOK, AttachedWhileOpen
  <1> QED  BY <1>1, Invariant, PTL

LEMMA FlowAlways == Spec => []FlowInv
  <1>1. (IInv /\ FlowInv) /\ [Next]_vars => FlowInv'
    BY FlowNext
  <1> QED  BY <1>1, FlowInit, Invariant, PTL DEF Spec

\* For any number of reconnections and reloads, the page receives every event
\* at most once and in the order of their emission (index.js:117-119, 213-214).
THEOREM OrderCorrect == Spec => []EventsInOrder
  <1>1. FlowInv => EventsInOrder
    BY DEF FlowInv, Flow
  <1> QED  BY <1>1, FlowAlways, PTL

\* An event the page has not seen is buffered, on its way to it, or was written
\* to a connection that broke (index.js:107-112, 235).
THEOREM AccountedCorrect == Spec => []EventsAccounted
  <1>1. FlowInv => EventsAccounted
    BY DEF FlowInv
  <1> QED  BY <1>1, FlowAlways, PTL

=============================================================================
