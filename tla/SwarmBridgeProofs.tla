-------------------------- MODULE SwarmBridgeProofs --------------------------
(***************************************************************************)
(* Theorems about the swarm bridge, for any number of pages, topics, joins *)
(* and streams and any limits.                                             *)
(***************************************************************************)
EXTENDS SwarmBridge, FiniteSetTheorems, TLAPS

Stage == {"granting", "asking", "storing", "joining", "open", "leaving", "gone", "refused"}

Call == [stage: Stage, app: App, topic: Topic \cup {None}]

\* The stages in which a call holds one of its app's places.
Placed == Waiting \cup {"open", "leaving"}

Asking(a) == {c \in ByApp(a) : At(c, "asking")}

(***************************************************************************)
(* The inductive invariant                                                 *)
(***************************************************************************)
TypesOK ==
    /\ DOMAIN chan = Chan /\ \A c \in Chan : chan[c] = Idle \/ chan[c] \in Call
    /\ channels \subseteq {c \in Chan : chan[c].stage \in {"joining", "open"}}
    /\ count \in [App -> Nat] /\ pending \in [App -> Nat]

NeedsApproval(call) ==
    \/ call.stage = "storing"
    \/ call.stage \in {"joining", "open"} /\ call.topic # None

ConsentOK ==
    /\ grants \subseteq approved
    /\ \A c \in Chan :
             NeedsApproval(chan[c]) => <<chan[c].app, chan[c].topic>> \in approved

PlacesOK ==
    \A a \in App : Cardinality(Taken(a)) <= count[a] /\ count[a] <= MaxChannels

SheetsOK ==
    \A a \in App : Cardinality(Asking(a)) <= pending[a] /\ pending[a] <= MaxPending

IInv == TypesOK /\ ConsentOK /\ PlacesOK /\ SheetsOK

LEMMA Finite ==
    ASSUME NEW a
    PROVE  /\ IsFiniteSet(Taken(a)) /\ Cardinality(Taken(a)) \in Nat
           /\ IsFiniteSet(Asking(a)) /\ Cardinality(Asking(a)) \in Nat
  <1>1. IsFiniteSet(Chan)
    BY FS_Interval, LimitsAssumption DEF Chan
  <1>2. Taken(a) \subseteq Chan /\ Asking(a) \subseteq Chan
    BY DEF Taken, Asking, ByApp
  <1> QED  BY <1>1, <1>2, FS_Subset, FS_CardinalityType

LEMMA InitInv == Init => IInv
  <1> SUFFICES ASSUME Init PROVE IInv
    OBVIOUS
  <1>1. \A c \in Chan : chan[c] = Idle /\ chan[c].stage = "idle"
    BY DEF Init, Idle
  <1>2. TypesOK /\ ConsentOK
    BY <1>1 DEF Init, TypesOK, ConsentOK, NeedsApproval
  <1>3. ASSUME NEW a \in App
        PROVE  Taken(a) = {} /\ Asking(a) = {} /\ count[a] = 0 /\ pending[a] = 0
    BY <1>1 DEF Init, Taken, Asking, ByApp, At
  <1>4. PlacesOK /\ SheetsOK
    BY <1>3, FS_EmptySet, LimitsAssumption DEF PlacesOK, SheetsOK
  <1> QED  BY <1>2, <1>4 DEF IInv

(***************************************************************************)
(* Calls that move                                                         *)
(***************************************************************************)
\* One call changes, and no other.
Only(c) ==
    /\ DOMAIN chan' = Chan /\ (chan'[c] = Idle \/ chan'[c] \in Call)
    /\ \A d \in Chan \ {c} : chan'[d] = chan[d]

LEMMA MovedOnly ==
    ASSUME TypesOK, NEW c \in Chan, chan[c].stage # "idle", NEW st \in Stage, Moved(c, st)
    PROVE  /\ Only(c) /\ chan[c] \in Call /\ chan'[c] \in Call /\ chan'[c].stage = st
           /\ chan'[c].app = chan[c].app /\ chan'[c].topic = chan[c].topic
  <1>1. chan[c] \in Call /\ DOMAIN chan = Chan
    BY DEF TypesOK, Idle
  <1>2. chan' = [chan EXCEPT ![c] = [chan[c] EXCEPT !.stage = st]]
    BY DEF Moved
  <1>3. [chan[c] EXCEPT !.stage = st] \in Call
    BY <1>1 DEF Call
  <1> QED  BY <1>1, <1>2, <1>3 DEF Only, Call

LEMMA Members ==
    ASSUME NEW a \in App, NEW d \in Chan
    PROVE  /\ d \in Taken(a) <=> chan[d].stage \in Placed /\ chan[d].app = a
           /\ d \in Asking(a) <=> chan[d].stage = "asking" /\ chan[d].app = a
           /\ d \in Taken(a)' <=> chan'[d].stage \in Placed /\ chan'[d].app = a
           /\ d \in Asking(a)' <=> chan'[d].stage = "asking" /\ chan'[d].app = a
  <1>1. "idle" \notin Placed
    BY DEF Placed, Waiting
  <1>2. /\ Taken(a) = {c \in ByApp(a) : chan[c].stage \in Placed}
        /\ Taken(a)' = {c \in ByApp(a)' : chan'[c].stage \in Placed}
    BY DEF Taken, Placed, Waiting
  <1> QED  BY <1>1, <1>2 DEF Asking, ByApp, At

\* Other calls stay in the sets they are in.
LEMMA OnlySets ==
    ASSUME NEW c \in Chan, Only(c), NEW a \in App
    PROVE  /\ Taken(a)' \subseteq Taken(a) \cup {c}
           /\ (c \in Taken(a)' => c \in Taken(a)) => Taken(a)' \subseteq Taken(a)
           /\ c \notin Taken(a)' => Taken(a)' \subseteq Taken(a) \ {c}
           /\ Asking(a)' \subseteq Asking(a) \cup {c}
           /\ (c \in Asking(a)' => c \in Asking(a)) => Asking(a)' \subseteq Asking(a)
           /\ c \notin Asking(a)' => Asking(a)' \subseteq Asking(a) \ {c}
  <1>1. \A d \in Chan \ {c} : chan'[d] = chan[d]
    BY DEF Only
  <1>2. \A d \in Chan \ {c} : /\ d \in Taken(a)' <=> d \in Taken(a)
                              /\ d \in Asking(a)' <=> d \in Asking(a)
    BY <1>1, Members
  <1>3. Taken(a)' \subseteq Chan /\ Asking(a)' \subseteq Chan
    BY DEF Taken, Asking, ByApp
  <1> QED  BY <1>2, <1>3

(***************************************************************************)
(* The counters                                                            *)
(***************************************************************************)
\* A counter n over a set S, and what they become.
Account(S, n, T, m, c, max) ==
    \/ T \subseteq S /\ m = n
    \/ T \subseteq S \cup {c} /\ m = n + 1 /\ m <= max
    \/ c \in S /\ T \subseteq S \ {c} /\ m = IF n > 0 THEN n - 1 ELSE 0

LEMMA AccountKeeps ==
    ASSUME NEW S, IsFiniteSet(S), NEW T, NEW c, NEW n \in Nat, NEW m, NEW max \in Nat,
           Cardinality(S) <= n, n <= max, Account(S, n, T, m, c, max)
    PROVE  Cardinality(T) <= m /\ m <= max
  <1>1. Cardinality(S) \in Nat
    BY FS_CardinalityType
  <1>2. CASE T \subseteq S /\ m = n
    <2>1. IsFiniteSet(T) /\ Cardinality(T) <= Cardinality(S) /\ Cardinality(T) \in Nat
      BY <1>2, FS_Subset, FS_CardinalityType
    <2> QED  BY <1>1, <1>2, <2>1
  <1>3. CASE T \subseteq S \cup {c} /\ m = n + 1 /\ m <= max
    <2>3. IsFiniteSet(S \cup {c})
          /\ Cardinality(S \cup {c}) = IF c \in S THEN Cardinality(S) ELSE Cardinality(S) + 1
      BY FS_AddElement
    <2>1. IsFiniteSet(S \cup {c}) /\ Cardinality(S \cup {c}) <= Cardinality(S) + 1
          /\ Cardinality(S \cup {c}) \in Nat
      BY <1>1, <2>3
    <2>2. Cardinality(T) <= Cardinality(S \cup {c}) /\ Cardinality(T) \in Nat
      BY <1>3, <2>1, FS_Subset, FS_CardinalityType
    <2> QED  BY <1>1, <1>3, <2>1, <2>2
  <1>4. CASE c \in S /\ T \subseteq S \ {c} /\ m = IF n > 0 THEN n - 1 ELSE 0
    <2>1. IsFiniteSet(S \ {c}) /\ Cardinality(S \ {c}) = Cardinality(S) - 1
          /\ Cardinality(S \ {c}) \in Nat
      BY <1>4, FS_RemoveElement, FS_CardinalityType
    <2>2. Cardinality(T) <= Cardinality(S \ {c}) /\ Cardinality(T) \in Nat
      BY <1>4, <2>1, FS_Subset, FS_CardinalityType
    <2> QED  BY <1>1, <1>4, <2>1, <2>2
  <1> QED  BY <1>2, <1>3, <1>4 DEF Account

Places(a, c) == Account(Taken(a), count[a], Taken(a)', count'[a], c, MaxChannels)
Sheets(a, c) == Account(Asking(a), pending[a], Asking(a)', pending'[a], c, MaxPending)

LEMMA StepInv ==
    ASSUME IInv, TypesOK', ConsentOK', NEW c,
           \A a \in App : Places(a, c) /\ Sheets(a, c)
    PROVE  IInv'
  <1>1. ASSUME NEW a \in App
        PROVE  /\ Cardinality(Taken(a)') <= count'[a] /\ count'[a] <= MaxChannels
               /\ Cardinality(Asking(a)') <= pending'[a] /\ pending'[a] <= MaxPending
    <2>1. /\ Cardinality(Taken(a)) <= count[a] /\ count[a] <= MaxChannels
          /\ Cardinality(Asking(a)) <= pending[a] /\ pending[a] <= MaxPending
          /\ count[a] \in Nat /\ pending[a] \in Nat
      BY DEF IInv, TypesOK, PlacesOK, SheetsOK
    <2>2. IsFiniteSet(Taken(a)) /\ IsFiniteSet(Asking(a))
      BY Finite
    <2>3. MaxChannels \in Nat /\ MaxPending \in Nat
      BY LimitsAssumption
    <2>4. Account(Taken(a), count[a], Taken(a)', count'[a], c, MaxChannels)
          /\ Account(Asking(a), pending[a], Asking(a)', pending'[a], c, MaxPending)
      BY DEF Places, Sheets
    <2> QED  BY <2>1, <2>2, <2>3, <2>4, AccountKeeps
  <1> QED  BY <1>1 DEF IInv, PlacesOK, SheetsOK

\* A call moves on, keeps or gives up its place, and has no sheet open; the
\* counters stay.
LEMMA Quiet ==
    ASSUME IInv, TypesOK', ConsentOK', NEW c \in Chan, Only(c),
           count' = count, pending' = pending,
           chan'[c].stage \in Placed => chan[c].stage \in Placed /\ chan'[c].app = chan[c].app,
           chan'[c].stage # "asking"
    PROVE  IInv'
  <1>1. ASSUME NEW a \in App PROVE Places(a, c) /\ Sheets(a, c)
    <2>1. c \in Taken(a)' => c \in Taken(a)
      BY Members
    <2>2. c \notin Asking(a)'
      BY Members
    <2>3. Taken(a)' \subseteq Taken(a) /\ Asking(a)' \subseteq Asking(a)
      BY <2>1, <2>2, OnlySets
    <2> QED  BY <2>3 DEF Places, Sheets, Account
  <1> QED  BY <1>1, StepInv

(***************************************************************************)
(* Types and consent, when one call changes                                *)
(***************************************************************************)
LEMMA TypesKept ==
    ASSUME TypesOK, NEW c \in Chan, Only(c), channels' \subseteq channels \cup {c},
           c \in channels' => chan'[c].stage \in {"joining", "open"},
           count' \in [App -> Nat], pending' \in [App -> Nat]
    PROVE  TypesOK'
  <1>1. \A d \in Chan : chan'[d] = Idle \/ chan'[d] \in Call
    BY DEF Only, TypesOK
  <1>2. channels' \subseteq {d \in Chan : chan'[d].stage \in {"joining", "open"}}
    BY DEF Only, TypesOK
  <1> QED  BY <1>1, <1>2 DEF Only, TypesOK

LEMMA ConsentKept ==
    ASSUME ConsentOK, NEW c \in Chan, Only(c),
           grants' \subseteq approved', approved \subseteq approved',
           NeedsApproval(chan'[c]) => <<chan'[c].app, chan'[c].topic>> \in approved'
    PROVE  ConsentOK'
  <1>1. ASSUME NEW d \in Chan, NeedsApproval(chan'[d])
        PROVE  <<chan'[d].app, chan'[d].topic>> \in approved'
    <2>1. CASE d = c
      BY <1>1, <2>1
    <2>2. CASE d # c
      BY <1>1, <2>2 DEF Only, ConsentOK
    <2> QED  BY <2>1, <2>2
  <1> QED  BY <1>1 DEF ConsentOK

\* No call changes.
LEMMA Same ==
    ASSUME IInv, chan' = chan, channels' \subseteq channels, count' = count,
           pending' = pending, approved' = approved, grants' \subseteq grants
    PROVE  IInv'
  <1>1. TypesOK' /\ ConsentOK'
    BY DEF IInv, TypesOK, ConsentOK
  <1>2. ASSUME NEW a \in App PROVE Places(a, 0) /\ Sheets(a, 0)
    <2>1. Taken(a)' = Taken(a) /\ Asking(a)' = Asking(a)
      BY DEF Taken, Asking, ByApp, At
    <2> QED  BY <2>1 DEF Places, Sheets, Account
  <1> QED  BY <1>1, <1>2, StepInv

\* A call moves on between stages, not to its sheet, and holds no place it did
\* not hold.
LEMMA MovesOn ==
    ASSUME IInv, NEW c \in Chan, chan[c].stage # "idle", NEW st \in Stage, Moved(c, st),
           st # "asking", st \in Placed => chan[c].stage \in Placed,
           channels' \subseteq channels \cup {c}, c \in channels' => st \in {"joining", "open"},
           count' = count, pending' = pending,
           grants' \subseteq approved', approved' = approved,
           st # "storing",
           st \in {"joining", "open"} /\ chan[c].topic # None
             => <<chan[c].app, chan[c].topic>> \in approved
    PROVE  IInv'
  <1>1. TypesOK /\ ConsentOK
    BY DEF IInv
  <1>2. /\ Only(c) /\ chan'[c].stage = st
        /\ chan'[c].app = chan[c].app /\ chan'[c].topic = chan[c].topic
    BY <1>1, MovedOnly
  <1>3. TypesOK'
    <2>1. count' \in [App -> Nat] /\ pending' \in [App -> Nat]
      BY <1>1 DEF TypesOK
    <2> QED  BY <1>1, <1>2, <2>1, TypesKept
  <1>4. ConsentOK'
    BY <1>1, <1>2, ConsentKept DEF NeedsApproval
  <1> QED  BY <1>2, <1>3, <1>4, Quiet

\* leave.
LEMMA LeftKeeps ==
    ASSUME IInv, NEW c, Left(c),
           UNCHANGED <<count, pending, grants, approved>>
    PROVE  IInv'
  <1>1. CASE c \in channels
    <2>1. c \in Chan /\ chan[c].stage \in {"joining", "open"} /\ chan[c].stage # "idle"
      BY <1>1 DEF IInv, TypesOK
    <2>2. channels' = channels \ {c} /\ Moved(c, "leaving")
      BY <1>1 DEF Left
    <2>3. grants' \subseteq approved'
      BY DEF IInv, ConsentOK
    <2>4. "leaving" \in Stage /\ chan[c].stage \in Placed
      BY <2>1 DEF Stage, Placed, Waiting
    <2> QED  BY <2>1, <2>2, <2>3, <2>4, MovesOn
  <1>2. CASE c \notin channels
    <2>1. chan' = chan /\ channels' = channels
      BY <1>2 DEF Left
    <2> QED  BY <2>1, Same
  <1> QED  BY <1>1, <1>2

(***************************************************************************)
(* Joins                                                                   *)
(***************************************************************************)
\* A new call of page a that holds a place if it is not refused at once.
LEMMA NewKeeps ==
    ASSUME IInv, NEW c \in Chan, NEW a \in App, NEW t \in Topic \cup {None},
           NEW st \in Stage, At(c, "idle"),
           st \in {"joining", "granting", "refused"}, st = "joining" => t = None,
           chan' = [chan EXCEPT ![c] = Calling(a, t, st)],
           channels' \subseteq channels \cup {c}, c \in channels' => st = "joining",
           \/ WithinChannels(a) /\ count' = [count EXCEPT ![a] = @ + 1]
           \/ st = "refused" /\ count' = count,
           UNCHANGED <<pending, grants, approved>>
    PROVE  IInv'
  <1>1. TypesOK /\ ConsentOK /\ chan[c].stage = "idle"
    BY DEF IInv, At
  <1>2. /\ chan'[c] = Calling(a, t, st) /\ Calling(a, t, st) \in Call
        /\ chan'[c].stage = st /\ chan'[c].app = a /\ chan'[c].topic = t
    BY <1>1 DEF TypesOK, Calling, Call
  <1>3. Only(c)
    BY <1>1, <1>2 DEF Only, TypesOK
  <1>4. count \in [App -> Nat] /\ count' \in [App -> Nat] /\ pending' \in [App -> Nat]
    BY <1>1 DEF TypesOK
  <1>5. TypesOK'
    BY <1>1, <1>2, <1>3, <1>4, TypesKept
  <1>6. ConsentOK'
    <2>1. grants' \subseteq approved' /\ approved \subseteq approved'
      BY <1>1 DEF ConsentOK
    <2> QED  BY <1>1, <1>2, <1>3, <2>1, ConsentKept DEF NeedsApproval
  <1>7. ASSUME NEW b \in App PROVE Places(b, c) /\ Sheets(b, c)
    <2>1. Asking(b)' \subseteq Asking(b)
      <3>1. c \notin Asking(b)'
        BY <1>2, Members
      <3> QED  BY <1>3, <3>1, OnlySets
    <2>2. Taken(b)' \subseteq Taken(b) \cup {c}
      BY <1>3, OnlySets
    <2>3. CASE b = a /\ WithinChannels(a) /\ count' = [count EXCEPT ![a] = @ + 1]
      <3>1. count'[b] = count[b] + 1 /\ count'[b] <= MaxChannels
        BY <1>4, <2>3 DEF WithinChannels
      <3> QED  BY <2>1, <2>2, <3>1 DEF Places, Sheets, Account
    <2>4. CASE b # a \/ (st = "refused" /\ count' = count)
      <3>1. c \notin Taken(b)'
        BY <1>2, <2>4, Members DEF Placed, Waiting
      <3>2. Taken(b)' \subseteq Taken(b)
        BY <1>3, <3>1, OnlySets
      <3>3. count'[b] = count[b]
        BY <1>4, <2>4
      <3> QED  BY <2>1, <3>2, <3>3 DEF Places, Sheets, Account
    <2> QED  BY <2>3, <2>4
  <1> QED  BY <1>5, <1>6, <1>7, StepInv

LEMMA AskKeeps ==
    ASSUME IInv, NEW c \in Chan, Ask(c)
    PROVE  IInv'
  <1> DEFINE a == chan[c].app
  <1>1. /\ TypesOK /\ ConsentOK /\ chan[c].stage = "granting" /\ pending[a] < MaxPending
        /\ pending' = [pending EXCEPT ![a] = @ + 1] /\ Moved(c, "asking")
        /\ channels' = channels /\ count' = count /\ grants' = grants /\ approved' = approved
    BY DEF IInv, Ask, At, MayAsk
  <1>2. /\ Only(c) /\ chan[c] \in Call /\ chan'[c].stage = "asking" /\ chan'[c].app = a
    BY <1>1, MovedOnly DEF Stage
  <1>3. a \in App /\ pending \in [App -> Nat] /\ pending' \in [App -> Nat]
    BY <1>1, <1>2 DEF Call, TypesOK
  <1>4. TypesOK'
    <2>1. c \notin channels' /\ count' \in [App -> Nat]
      BY <1>1 DEF TypesOK
    <2> QED  BY <1>1, <1>2, <1>3, <2>1, TypesKept
  <1>5. ConsentOK'
    <2>1. grants' \subseteq approved' /\ approved \subseteq approved'
      BY <1>1 DEF ConsentOK
    <2> QED  BY <1>1, <1>2, <2>1, ConsentKept DEF NeedsApproval
  <1>6. ASSUME NEW b \in App PROVE Places(b, c) /\ Sheets(b, c)
    <2>1. c \in Taken(b)' => c \in Taken(b)
      BY <1>1, <1>2, Members DEF Placed, Waiting
    <2>2. Taken(b)' \subseteq Taken(b) /\ Asking(b)' \subseteq Asking(b) \cup {c}
      BY <1>2, <2>1, OnlySets
    <2>3. CASE b = a
      <3>1. pending'[b] = pending[b] + 1 /\ pending'[b] <= MaxPending
        BY <1>1, <1>3, <2>3, LimitsAssumption
      <3> QED  BY <1>1, <2>2, <3>1 DEF Places, Sheets, Account
    <2>4. CASE b # a
      <3>1. c \notin Asking(b)' /\ pending'[b] = pending[b]
        BY <1>2, <1>1, <1>3, <2>4, Members
      <3>2. Asking(b)' \subseteq Asking(b)
        BY <1>2, <3>1, OnlySets
      <3> QED  BY <1>1, <2>2, <3>1, <3>2 DEF Places, Sheets, Account
    <2> QED  BY <2>3, <2>4
  <1> QED  BY <1>4, <1>5, <1>6, StepInv

\* The answer, or its absence, closes the sheet.
LEMMA AnswerKeeps ==
    ASSUME IInv, NEW c \in Chan, At(c, "asking"), Unasked(c),
           NEW st \in {"storing", "refused"}, Moved(c, st),
           UNCHANGED <<channels, count, grants>>,
           \/ approved' = approved /\ st = "refused"
           \/ approved' = approved \cup {<<chan[c].app, chan[c].topic>>}
    PROVE  IInv'
  <1> DEFINE a == chan[c].app
  <1>1. /\ TypesOK /\ ConsentOK /\ chan[c].stage = "asking"
        /\ pending' = [pending EXCEPT ![a] = IF @ > 0 THEN @ - 1 ELSE 0]
        /\ channels' = channels /\ count' = count /\ grants' = grants
    BY DEF IInv, At, Unasked
  <1>2. /\ Only(c) /\ chan[c] \in Call /\ chan'[c].stage = st /\ chan'[c].app = a
        /\ chan'[c].topic = chan[c].topic
    BY <1>1, MovedOnly DEF Stage
  <1>3. a \in App /\ pending \in [App -> Nat] /\ pending' \in [App -> Nat]
    BY <1>1, <1>2 DEF Call, TypesOK
  <1>4. TypesOK'
    <2>1. c \notin channels' /\ count' \in [App -> Nat]
      BY <1>1 DEF TypesOK
    <2> QED  BY <1>1, <1>2, <1>3, <2>1, TypesKept
  <1>5. ConsentOK'
    <2>1. grants' \subseteq approved' /\ approved \subseteq approved'
      BY <1>1 DEF ConsentOK
    <2>2. st = "storing" => <<chan[c].app, chan[c].topic>> \in approved'
      OBVIOUS
    <2> QED  BY <1>1, <1>2, <2>1, <2>2, ConsentKept DEF NeedsApproval
  <1>6. ASSUME NEW b \in App PROVE Places(b, c) /\ Sheets(b, c)
    <2>1. c \in Taken(b)' => c \in Taken(b)
      BY <1>1, <1>2, Members DEF Placed, Waiting
    <2>2. c \notin Asking(b)'
      BY <1>2, Members
    <2>3. Taken(b)' \subseteq Taken(b) /\ Asking(b)' \subseteq Asking(b) \ {c}
      BY <1>2, <2>1, <2>2, OnlySets
    <2>4. CASE b = a
      <3>1. c \in Asking(b)
        BY <1>1, <2>4, Members
      <3>2. pending'[b] = IF pending[b] > 0 THEN pending[b] - 1 ELSE 0
        BY <1>1, <1>3, <2>4
      <3> QED  BY <1>1, <2>3, <3>1, <3>2 DEF Places, Sheets, Account
    <2>5. CASE b # a
      <3>1. pending'[b] = pending[b] /\ Asking(b)' \subseteq Asking(b)
        BY <1>1, <1>3, <2>3, <2>5
      <3> QED  BY <1>1, <2>3, <3>1 DEF Places, Sheets, Account
    <2> QED  BY <2>4, <2>5
  <1> QED  BY <1>4, <1>5, <1>6, StepInv

LEMMA LeaveDoneKeeps ==
    ASSUME IInv, NEW c \in Chan, LeaveDone(c)
    PROVE  IInv'
  <1> DEFINE a == chan[c].app
  <1>1. /\ TypesOK /\ ConsentOK /\ chan[c].stage = "leaving"
        /\ count' = [count EXCEPT ![a] = IF @ > 0 THEN @ - 1 ELSE 0] /\ Moved(c, "gone")
        /\ channels' = channels /\ pending' = pending /\ grants' = grants /\ approved' = approved
    BY DEF IInv, At, LeaveDone
  <1>2. /\ Only(c) /\ chan[c] \in Call /\ chan'[c].stage = "gone"
    BY <1>1, MovedOnly DEF Stage
  <1>3. a \in App /\ count \in [App -> Nat] /\ count' \in [App -> Nat]
    BY <1>1, <1>2 DEF Call, TypesOK
  <1>4. TypesOK'
    <2>1. c \notin channels' /\ pending' \in [App -> Nat]
      BY <1>1 DEF TypesOK
    <2> QED  BY <1>1, <1>2, <1>3, <2>1, TypesKept
  <1>5. ConsentOK'
    <2>1. grants' \subseteq approved' /\ approved \subseteq approved'
      BY <1>1 DEF ConsentOK
    <2> QED  BY <1>1, <1>2, <2>1, ConsentKept DEF NeedsApproval
  <1>6. ASSUME NEW b \in App PROVE Places(b, c) /\ Sheets(b, c)
    <2>1. c \notin Taken(b)' /\ c \notin Asking(b)'
      BY <1>2, Members DEF Placed, Waiting
    <2>2. Taken(b)' \subseteq Taken(b) \ {c} /\ Asking(b)' \subseteq Asking(b)
      BY <1>2, <2>1, OnlySets
    <2>3. CASE b = a
      <3>1. c \in Taken(b)
        BY <1>1, <2>3, Members DEF Placed
      <3>2. count'[b] = IF count[b] > 0 THEN count[b] - 1 ELSE 0
        BY <1>1, <1>3, <2>3
      <3> QED  BY <1>1, <2>2, <3>1, <3>2 DEF Places, Sheets, Account
    <2>4. CASE b # a
      <3>1. count'[b] = count[b]
        BY <1>1, <1>3, <2>4
      <3> QED  BY <1>1, <2>2, <3>1 DEF Places, Sheets, Account
    <2> QED  BY <2>3, <2>4
  <1> QED  BY <1>4, <1>5, <1>6, StepInv

LEMMA DestroyKeeps ==
    ASSUME IInv, Destroy
    PROVE  IInv'
  <1>1. /\ TypesOK /\ ConsentOK /\ channels' = {}
        /\ chan' = [c \in Chan |-> IF c \in channels THEN [chan[c] EXCEPT !.stage = "leaving"]
                                   ELSE chan[c]]
        /\ count' = count /\ pending' = pending /\ grants' = grants /\ approved' = approved
    BY DEF IInv, Destroy
  <1>2. ASSUME NEW c \in Chan
        PROVE  \/ chan'[c] = chan[c]
               \/ /\ chan[c] \in Call /\ chan'[c] \in Call
                  /\ chan[c].stage \in {"joining", "open"} /\ chan'[c].stage = "leaving"
                  /\ chan'[c].app = chan[c].app
    <2>1. CASE c \in channels
      <3>1. chan[c] \in Call /\ chan[c].stage \in {"joining", "open"}
        BY <1>1, <2>1 DEF TypesOK, Idle
      <3>2. chan'[c] = [chan[c] EXCEPT !.stage = "leaving"]
        BY <1>1, <2>1
      <3> QED  BY <3>1, <3>2 DEF Call, Stage
    <2>2. CASE c \notin channels
      BY <1>1, <2>2
    <2> QED  BY <2>1, <2>2
  <1>3. TypesOK'
    <2>1. DOMAIN chan' = Chan
      BY <1>1
    <2>2. \A c \in Chan : chan'[c] = Idle \/ chan'[c] \in Call
      BY <1>1, <1>2 DEF TypesOK
    <2> QED  BY <1>1, <2>1, <2>2 DEF TypesOK
  <1>4. ConsentOK'
    BY <1>1, <1>2 DEF ConsentOK, NeedsApproval
  <1>5. ASSUME NEW a \in App PROVE Places(a, 0) /\ Sheets(a, 0)
    <2>1. ASSUME NEW c \in Chan
          PROVE  /\ c \in Taken(a)' => c \in Taken(a)
                 /\ c \in Asking(a)' => c \in Asking(a)
      BY <1>2, Members DEF Placed, Waiting
    <2>2. Taken(a)' \subseteq Chan /\ Asking(a)' \subseteq Chan
      BY DEF Taken, Asking, ByApp
    <2>3. Taken(a)' \subseteq Taken(a) /\ Asking(a)' \subseteq Asking(a)
      BY <2>1, <2>2
    <2> QED  BY <1>1, <2>3 DEF Places, Sheets, Account
  <1> QED  BY <1>3, <1>4, <1>5, StepInv

(***************************************************************************)
(* Every step keeps the invariant                                          *)
(***************************************************************************)
LEMMA CallStep ==
    ASSUME IInv, NEW c \in Chan,
           \/ GrantFound(c) \/ Ask(c) \/ AskRefused(c)
           \/ Approve(c) \/ Deny(c) \/ ConsentTimeout(c) \/ Stored(c)
           \/ Flushed(c) \/ PageLeaves(c) \/ LeaveDone(c)
    PROVE  IInv'
  <1>1. /\ grants \subseteq approved
        /\ NeedsApproval(chan[c]) => <<chan[c].app, chan[c].topic>> \in approved
        /\ chan[c].stage = "storing" => NeedsApproval(chan[c])
        /\ chan[c].stage \in {"joining", "open"} /\ chan[c].topic # None
             => NeedsApproval(chan[c])
    BY DEF IInv, ConsentOK, NeedsApproval
  <1>2. Stage = {"granting", "asking", "storing", "joining", "open", "leaving", "gone", "refused"}
        /\ Placed = {"granting", "asking", "storing", "joining", "open", "leaving"}
    BY DEF Stage, Placed, Waiting
  <1>3. CASE GrantFound(c)
    <2>1. /\ chan[c].stage = "granting" /\ <<chan[c].app, chan[c].topic>> \in grants
          /\ channels' = channels \cup {c} /\ Moved(c, "joining")
          /\ UNCHANGED <<count, pending, grants, approved>>
      BY <1>3 DEF GrantFound, At, Granted, Entered
    <2> QED  BY <1>1, <1>2, <2>1, MovesOn
  <1>4. CASE Ask(c)
    BY <1>4, AskKeeps
  <1>5. CASE AskRefused(c)
    <2>1. /\ chan[c].stage = "granting" /\ Moved(c, "refused") /\ channels' = channels
          /\ UNCHANGED <<count, pending, grants, approved>>
      BY <1>5 DEF AskRefused, At
    <2>2. c \notin channels
      BY <2>1 DEF IInv, TypesOK
    <2> QED  BY <1>1, <1>2, <2>1, <2>2, MovesOn
  <1>6. CASE Approve(c)
    BY <1>6, AnswerKeeps DEF Approve
  <1>7. CASE Deny(c) \/ ConsentTimeout(c)
    BY <1>7, AnswerKeeps DEF ConsentTimeout, Deny
  <1>8. CASE Stored(c)
    <2>1. /\ chan[c].stage = "storing"
          /\ grants' \in {grants, grants \cup {<<chan[c].app, chan[c].topic>>}}
          /\ channels' = channels \cup {c} /\ Moved(c, "joining")
          /\ UNCHANGED <<count, pending, approved>>
      BY <1>8 DEF Stored, At, Entered
    <2> QED  BY <1>1, <1>2, <2>1, MovesOn
  <1>9. CASE Flushed(c)
    <2>1. /\ chan[c].stage = "joining" /\ Moved(c, "open") /\ channels' = channels
          /\ UNCHANGED <<count, pending, grants, approved>>
      BY <1>9 DEF Flushed, At
    <2> QED  BY <1>1, <1>2, <2>1, MovesOn
  <1>10. CASE PageLeaves(c)
    BY <1>10, LeftKeeps DEF PageLeaves
  <1>11. CASE LeaveDone(c)
    BY <1>11, LeaveDoneKeeps
  <1> QED  BY <1>3, <1>4, <1>5, <1>6, <1>7, <1>8, <1>9, <1>10, <1>11

LEMMA NextInv == IInv /\ [Next]_vars => IInv'
  <1> SUFFICES ASSUME IInv, [Next]_vars PROVE IInv'
    OBVIOUS
  <1>1. grants \subseteq approved
    BY DEF IInv, ConsentOK
  <1>2. ASSUME NEW c \in Chan, NEW a \in App, NEW t \in Topic \cup {None},
               Join(c, a, t) \/ JoinRefused(c, a, t) \/ JoinBadTopic(c, a)
        PROVE  IInv'
    <2>1. At(c, "idle")
      BY <1>2 DEF Join, JoinRefused, JoinBadTopic, New
    <2>2. CASE Join(c, a, t)
      <3> DEFINE st == IF t = None THEN "joining" ELSE "granting"
      <3>1. /\ st \in Stage /\ st \in {"joining", "granting", "refused"}
            /\ st = "joining" => t = None
        BY DEF Stage
      <3>2. /\ chan' = [chan EXCEPT ![c] = Calling(a, t, st)] /\ WithinChannels(a)
            /\ count' = [count EXCEPT ![a] = @ + 1]
            /\ UNCHANGED <<pending, grants, approved>>
            /\ channels' = IF t = None THEN channels \cup {c} ELSE channels
        BY <2>2 DEF Join
      <3>3. c \notin channels
        BY <2>1 DEF IInv, TypesOK, At
      <3>4. channels' \subseteq channels \cup {c} /\ (c \in channels' => st = "joining")
        BY <3>2, <3>3
      <3> HIDE DEF st
      <3> QED  BY <2>1, <3>1, <3>2, <3>4, NewKeeps
    <2>3. CASE JoinRefused(c, a, t) \/ JoinBadTopic(c, a)
      <3>1. "refused" \in Stage /\ c \notin channels
        BY <2>1 DEF IInv, TypesOK, At, Stage
      <3>2. CASE JoinRefused(c, a, t)
        <4>1. /\ chan' = [chan EXCEPT ![c] = Calling(a, t, "refused")]
              /\ UNCHANGED <<channels, count, pending, grants, approved>>
          BY <3>2 DEF JoinRefused
        <4> QED  BY <2>1, <3>1, <4>1, NewKeeps
      <3>3. CASE JoinBadTopic(c, a)
        <4>1. /\ chan' = [chan EXCEPT ![c] = Calling(a, None, "refused")]
              /\ WithinChannels(a) /\ count' = [count EXCEPT ![a] = @ + 1]
              /\ UNCHANGED <<channels, pending, grants, approved>>
          BY <3>3 DEF JoinBadTopic
        <4> QED  BY <2>1, <3>1, <4>1, NewKeeps
      <3> QED  BY <2>3, <3>2, <3>3
    <2> QED  BY <1>2, <2>2, <2>3
  <1>3. ASSUME NEW a \in App, WindowTurns(a) \/ \E t \in Topic : RevokeGrant(a, t)
        PROVE  IInv'
    BY <1>3, Same DEF WindowTurns, RevokeGrant
  <1>4. ASSUME NEW s \in Stream, StreamCloses(s)
        PROVE  IInv'
    BY <1>4, LeftKeeps DEF StreamCloses
  <1>5. ASSUME NEW s \in Stream, NEW c \in Chan, Attach(s, c)
        PROVE  IInv'
    BY <1>5, Same DEF Attach
  <1>6. CASE Destroy
    BY <1>6, DestroyKeeps
  <1>7. CASE UNCHANGED vars
    BY <1>7, Same DEF vars
  <1> QED
    BY <1>2, <1>3, <1>4, <1>5, <1>6, <1>7, CallStep DEF Next

THEOREM Invariant == Spec => []IInv
  BY InitInv, NextInv, PTL DEF Spec

(***************************************************************************)
(* Theorems                                                                *)
(***************************************************************************)
\* However joins overlap while the store and the user are asked, an app never
\* has more channels, nor more consent sheets, than it may have.
THEOREM LimitsCorrect == Spec => []WithinLimits
  <1>1. IInv => WithinLimits
    BY DEF IInv, PlacesOK, SheetsOK, WithinLimits, Asking
  <1> QED  BY <1>1, Invariant, PTL

\* No channel on a shared topic without the user's approval of this app and
\* this topic.
THEOREM ConsentCorrect == Spec => []ConsentFirst
  <1>1. IInv => ConsentFirst
    BY DEF IInv, TypesOK, ConsentOK, NeedsApproval, ConsentFirst
  <1> QED  BY <1>1, Invariant, PTL
=============================================================================
