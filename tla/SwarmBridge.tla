----------------------------- MODULE SwarmBridge -----------------------------
(***************************************************************************)
(* The bridge that lets pages use the swarm: joins that may have to ask    *)
(* the user, the counters that limit them, the grants that remember the    *)
(* answers, the channels, and the event streams pages attach to them.      *)
(*                                                                         *)
(* A join is one call that waits four times: for the grant store, for the  *)
(* user, for the grant to be stored, and for the swarm.  A channel id      *)
(* stands for the join that makes it.  Topic None is a topic derived from  *)
(* the page's own drive (Tier A).                                          *)
(***************************************************************************)
EXTENDS Integers, FiniteSets

CONSTANTS
    App,         \* drive keys of pages
    Topic,       \* topics that belong to no drive
    None,
    MaxChannels, \* maxChannelsPerApp
    MaxJoins,    \* maxJoinsPerMinute
    MaxPending,  \* maxPendingConsents
    MaxCalls,    \* a bound on the joins in a behaviour
    MaxStreams   \* a bound on the event streams

ASSUME LimitsAssumption ==
    /\ MaxChannels \in Nat /\ MaxJoins \in Nat /\ MaxPending \in Nat
    /\ MaxCalls \in Nat /\ MaxStreams \in Nat /\ None \notin Topic

\* Join calls, and the channels they make, are numbered as they come; so are
\* streams.
Chan == 1..MaxCalls
Stream == 1..MaxStreams

VARIABLES
    chan,     \* [Chan -> the join call or channel]
    channels, \* bridge.channels
    joins,    \* [App -> joinsInWindow]
    count,    \* [App -> channelCount]
    pending,  \* [App -> pending]
    grants,   \* the pairs <<app, topic>> in swarm-grants.bee
    approved, \* the pairs the user has ever approved (history)
    stream,   \* [Stream -> the page's event stream]
    attached  \* [Chan -> channel._stream]

vars == <<chan, channels, joins, count, pending, grants, approved, stream, attached>>

Idle == [stage |-> "idle"]

Calling(a, t, stage) == [stage |-> stage, app |-> a, topic |-> t]

At(c, stage) == chan[c].stage = stage

Moved(c, stage) == chan' = [chan EXCEPT ![c].stage = stage]

ByApp(a) == {c \in Chan : ~At(c, "idle") /\ chan[c].app = a}

Granted(c) == <<chan[c].app, chan[c].topic>> \in grants

(***************************************************************************)
(* join                                                                    *)
(***************************************************************************)
New(c) == At(c, "idle") /\ \A d \in Chan : d < c => ~At(d, "idle")

WithinRate(a) == joins[a] + 1 <= MaxJoins

\* Bug: one channel too many
WithinChannelsAndOne(a) == count[a] <= MaxChannels

WithinChannels(a) == count[a] + 1 <= MaxChannels

\* Both limits are taken before anything is known of the topic.
Join(c, a, t) ==
    /\ New(c) /\ WithinRate(a) /\ WithinChannels(a)
    /\ joins' = [joins EXCEPT ![a] = @ + 1]
    /\ count' = [count EXCEPT ![a] = @ + 1]
    /\ chan' = [chan EXCEPT ![c] = Calling(a, t, IF t = None THEN "joining" ELSE "granting")]
    /\ channels' = IF t = None THEN channels \cup {c} ELSE channels
    /\ UNCHANGED <<pending, grants, approved, stream, attached>>

\* A topic that is no topic is refused once both limits are taken.
JoinBadTopic(c, a) ==
    /\ New(c) /\ WithinRate(a) /\ WithinChannels(a)
    /\ joins' = [joins EXCEPT ![a] = @ + 1]
    /\ count' = [count EXCEPT ![a] = @ + 1]
    /\ chan' = [chan EXCEPT ![c] = Calling(a, None, "refused")]
    /\ UNCHANGED <<channels, pending, grants, approved, stream, attached>>

\* One join too many for the channels still counts against the rate.
JoinRefused(c, a, t) ==
    /\ New(c) /\ WithinRate(a) /\ ~WithinChannels(a)
    /\ joins' = [joins EXCEPT ![a] = @ + 1]
    /\ chan' = [chan EXCEPT ![c] = Calling(a, t, "refused")]
    /\ UNCHANGED <<channels, count, pending, grants, approved, stream, attached>>

WindowTurns(a) ==
    /\ joins[a] > 0
    /\ joins' = [joins EXCEPT ![a] = 0]
    /\ UNCHANGED <<chan, channels, count, pending, grants, approved, stream, attached>>

\* channels.set and swarm.join, up to the wait for the swarm.
Entered(c) == channels' = channels \cup {c} /\ Moved(c, "joining")

GrantFound(c) ==
    /\ At(c, "granting") /\ Granted(c)
    /\ Entered(c)
    /\ UNCHANGED <<joins, count, pending, grants, approved, stream, attached>>

\* No grant, or a store that cannot be read: the user has to be asked.
MayAsk(c) == pending[chan[c].app] < MaxPending

Ask(c) ==
    /\ At(c, "granting") /\ MayAsk(c)
    /\ pending' = [pending EXCEPT ![chan[c].app] = @ + 1]
    /\ Moved(c, "asking")
    /\ UNCHANGED <<channels, joins, count, grants, approved, stream, attached>>

AskRefused(c) ==
    /\ At(c, "granting") /\ ~MayAsk(c)
    /\ Moved(c, "refused")
    /\ UNCHANGED <<channels, joins, count, pending, grants, approved, stream, attached>>

(***************************************************************************)
(* The consent ceremony                                                    *)
(***************************************************************************)
Unasked(c) == pending' = [pending EXCEPT ![chan[c].app] = IF @ > 0 THEN @ - 1 ELSE 0]

Approve(c) ==
    /\ At(c, "asking")
    /\ Unasked(c) /\ Moved(c, "storing")
    /\ approved' = approved \cup {<<chan[c].app, chan[c].topic>>}
    /\ UNCHANGED <<channels, joins, count, grants, stream, attached>>

\* Bug: the answer is not looked at
DenyAnyway(c) ==
    /\ At(c, "asking")
    /\ Unasked(c) /\ Moved(c, "storing")
    /\ UNCHANGED <<channels, joins, count, grants, approved, stream, attached>>

\* The user says no, or nobody answers for two minutes.
Deny(c) ==
    /\ At(c, "asking")
    /\ Unasked(c) /\ Moved(c, "refused")
    /\ UNCHANGED <<channels, joins, count, grants, approved, stream, attached>>

\* Bug: the timer rejects nothing
TimeoutForgets(c) == At(c, "asking") /\ UNCHANGED vars

ConsentTimeout(c) == Deny(c)

\* grants.add; a store that fails is only warned about.
Stored(c) ==
    /\ At(c, "storing")
    /\ grants' \in {grants, grants \cup {<<chan[c].app, chan[c].topic>>}}
    /\ Entered(c)
    /\ UNCHANGED <<joins, count, pending, approved, stream, attached>>

RevokeGrant(a, t) ==
    /\ <<a, t>> \in grants
    /\ grants' = grants \ {<<a, t>>}
    /\ UNCHANGED <<chan, channels, joins, count, pending, approved, stream, attached>>

(***************************************************************************)
(* Channels and streams                                                    *)
(***************************************************************************)
Flushed(c) ==
    /\ At(c, "joining")
    /\ Moved(c, "open")
    /\ UNCHANGED <<channels, joins, count, pending, grants, approved, stream, attached>>

\* leave, up to the wait for the swarm to let the topic go.
Left(c) ==
    IF c \in channels
      THEN channels' = channels \ {c} /\ Moved(c, "leaving")
      ELSE UNCHANGED <<channels, chan>>

PageLeaves(c) ==
    /\ At(c, "open") /\ Left(c)
    /\ UNCHANGED <<joins, count, pending, grants, approved, stream, attached>>

\* The rest of _leaveSwarm: the count is given back and the stream closed,
\* which runs its close handler; that finds no channel any more.
LeaveDone(c) ==
    /\ At(c, "leaving")
    /\ count' = [count EXCEPT ![chan[c].app] = IF @ > 0 THEN @ - 1 ELSE 0]
    /\ stream' = IF attached[c] = None THEN stream
                 ELSE [stream EXCEPT ![attached[c]].phase = "ended"]
    /\ attached' = [attached EXCEPT ![c] = None]
    /\ Moved(c, "gone")
    /\ UNCHANGED <<channels, joins, pending, grants, approved>>

\* The page opens its stream.  An unknown channel gets an error and no more.
\* Otherwise the stream replaces an earlier one and the buffered events are
\* flushed to it; only then is the close handler set.  A page so slow that the
\* flush already overruns its queue has its stream closed before that.
Attach(s, c) ==
    /\ stream[s].phase = "none" /\ \A r \in Stream : r < s => stream[r].phase # "none"
    /\ chan[c].stage \in {"open", "leaving", "gone"}
    /\ IF c \in channels
         THEN /\ \E stalled \in BOOLEAN :
                    stream' = [stream EXCEPT ![s] =
                        [phase |-> IF stalled THEN "ended" ELSE "open",
                         chan |-> c, handled |-> ~stalled]]
              /\ attached' = [attached EXCEPT ![c] = s]
         ELSE /\ stream' = [stream EXCEPT ![s] =
                               [phase |-> "ended", chan |-> c, handled |-> FALSE]]
              /\ UNCHANGED attached
    /\ UNCHANGED <<chan, channels, joins, count, pending, grants, approved>>

\* Bug: a stream ends and its channel does not hear of it
StreamJustCloses(s) ==
    /\ stream[s].phase = "open"
    /\ stream' = [stream EXCEPT ![s].phase = "ended"]
    /\ UNCHANGED <<chan, channels, joins, count, pending, grants, approved, attached>>

\* The page goes away, or falls too far behind and is cut off.
StreamCloses(s) ==
    /\ stream[s].phase = "open"
    /\ stream' = [stream EXCEPT ![s].phase = "ended"]
    /\ Left(stream[s].chan)
    /\ UNCHANGED <<joins, count, pending, grants, approved, attached>>

\* destroy, at shutdown: every channel leaves.  Nothing stops joins still in
\* flight, and the HTTP side keeps its own reference to the bridge.
Destroy ==
    /\ channels # {}
    /\ channels' = {}
    /\ chan' = [c \in Chan |-> IF c \in channels THEN [chan[c] EXCEPT !.stage = "leaving"]
                              ELSE chan[c]]
    /\ UNCHANGED <<joins, count, pending, grants, approved, stream, attached>>

Init ==
    /\ chan = [c \in Chan |-> Idle]
    /\ channels = {}
    /\ joins = [a \in App |-> 0]
    /\ count = [a \in App |-> 0]
    /\ pending = [a \in App |-> 0]
    /\ grants \in SUBSET (App \X Topic)
    /\ approved = grants
    /\ stream = [s \in Stream |-> [phase |-> "none"]]
    /\ attached = [c \in Chan |-> None]

Next ==
    \/ \E c \in Chan, a \in App, t \in Topic \cup {None} :
          Join(c, a, t) \/ JoinRefused(c, a, t) \/ JoinBadTopic(c, a)
    \/ \E a \in App : WindowTurns(a) \/ \E t \in Topic : RevokeGrant(a, t)
    \/ \E c \in Chan : \/ GrantFound(c) \/ Ask(c) \/ AskRefused(c)
                       \/ Approve(c) \/ Deny(c) \/ ConsentTimeout(c) \/ Stored(c)
                       \/ Flushed(c) \/ PageLeaves(c) \/ LeaveDone(c)
    \/ \E s \in Stream : StreamCloses(s) \/ \E c \in Chan : Attach(s, c)
    \/ Destroy

Spec == Init /\ [][Next]_vars

\* The store answers, the consent timer fires, the swarm flushes and lets go.
Fairness ==
    \A c \in Chan :
        /\ WF_vars(GrantFound(c) \/ Ask(c) \/ AskRefused(c))
        /\ WF_vars(ConsentTimeout(c)) /\ WF_vars(Stored(c))
        /\ WF_vars(Flushed(c)) /\ WF_vars(LeaveDone(c))

FairSpec == Spec /\ Fairness

(***************************************************************************)
(* Properties                                                              *)
(***************************************************************************)
Waiting == {"granting", "asking", "storing", "joining"}

\* The calls and channels that hold one of their app's places.
Taken(a) == {c \in ByApp(a) : chan[c].stage \in Waiting \cup {"open", "leaving"}}

TypeOK ==
    /\ \A c \in Chan :
          chan[c] \in {Idle} \cup [stage: Waiting \cup {"open", "leaving", "gone", "refused"},
                                  app: App, topic: Topic \cup {None}]
    /\ DOMAIN chan = Chan
    /\ channels = {c \in Chan : chan[c].stage \in {"joining", "open"}}
    /\ joins \in [App -> 0..MaxJoins]
    /\ count \in [App -> Nat] /\ pending \in [App -> Nat]
    /\ grants \subseteq App \X Topic /\ approved \subseteq App \X Topic
    /\ \A s \in Stream :
          stream[s] \in {[phase |-> "none"]} \cup
              [phase: {"open", "ended"}, chan: Chan, handled: BOOLEAN]
    /\ attached \in [Chan -> Stream \cup {None}]

\* An app never has more than its channels, those still being joined or left
\* included, and never more than its consent sheets: the places are taken in
\* the turn that checks them, so calls that overlap while the store and the
\* user are asked cannot pass a limit together
\* (swarm-bridge.js:100-103, :207-225, :265-271, :291-294).
WithinLimits ==
    \A a \in App :
        /\ Cardinality(Taken(a)) <= count[a] /\ count[a] <= MaxChannels
        /\ Cardinality({c \in ByApp(a) : At(c, "asking")}) <= pending[a]
        /\ pending[a] <= MaxPending

\* A channel on a topic that is not the page's own has been approved by the
\* user for this app and this topic, in this join or an earlier one
\* (swarm-bridge.js:200-233).
ConsentFirst ==
    \A c \in channels :
        chan[c].topic # None => <<chan[c].app, chan[c].topic>> \in approved

\* Every join is answered, with a channel or a refusal: a prompt nobody
\* answers times out (index.js:2562-2571).
JoinSettles ==
    \A c \in Chan : chan[c].stage \in Waiting ~> chan[c].stage \notin Waiting

\* A page that goes away, or is cut off, takes its channel with it: the close
\* handler leaves it (swarm-bridge.js:441-447).  A stream cut off by its own
\* first flush has no handler yet, and is excepted.
StreamEndLeaves ==
    \A s \in Stream, c \in Chan :
        stream[s] = [phase |-> "ended", chan |-> c, handled |-> TRUE] ~> At(c, "gone")
=============================================================================
