------------------------ MODULE WalletJournalProofs ------------------------
(***************************************************************************)
(* Proofs about the wallet journal (WalletJournal.tla), for any number of  *)
(* intents and keys, any number of failed puts, crashes and restarts.      *)
(***************************************************************************)
EXTENDS WalletJournal, TLAPS

\* An append runs only between ready() and the next crash.
RunShape ==
    /\ seq = None => queue = <<>> /\ at = "none"
    /\ at # "none" => queue # <<>>
    /\ at = "tx" => Current.type = "broadcast"
    /\ at = "reservation" => Reserves(Current)

\* Everything stored carries a number the counter has reached, and the
\* append about to put its entry has a number nothing is stored under.
NumbersBounded ==
    /\ seq # None => /\ meta <= seq
                     /\ \A e \in entries : e.seq <= seq
    /\ at = "entry" => \A e \in entries : e.seq # seq

\* A number is stored under once, and an index entry leads to its entry.
NumbersUnique ==
    /\ \A e, f \in entries : e.seq = f.seq => e = f
    /\ IndexLeadsToEntry

\* What the running append has put so far.
PutsDone ==
    /\ at \notin {"none", "entry"} => New \in entries
    /\ at \in {"tx", "reservation", "meta"} => New \in Found
    /\ at \notin {"none", "meta"} /\ Reserves(Current)
          => reserved[KeyOf[Current.intent]] = None
    /\ at = "meta" /\ Reserves(Current)
          => reserved[KeyOf[Current.intent]] = Current.intent

\* Whoever got past a first append holds its key: the intents callers go on
\* with, the later entries they queue, those stored, and resolved appends.
Holds(i) == KeyOf[i] # None => reserved[KeyOf[i]] = i
KeysHeld ==
    /\ \A i \in live : Holds(i)
    /\ \A j \in DOMAIN queue : queue[j].type \in Later => Holds(queue[j].intent)
    /\ ReservedBeforeUse

JournalInv == TypeOK /\ RunShape /\ NumbersBounded /\ NumbersUnique
                 /\ PutsDone /\ KeysHeld

PutStep == Put \/ PutMeta \/ PutFails
-----------------------------------------------------------------------------
LEMMA QueueAppend ==
    ASSUME NEW S, NEW q \in Seq(S), NEW e \in S
    PROVE  /\ Append(q, e) \in Seq(S)
           /\ q # <<>> => Append(q, e) # <<>> /\ Head(Append(q, e)) = Head(q)
           /\ \A i \in DOMAIN Append(q, e) :
                 \/ i \in DOMAIN q /\ Append(q, e)[i] = q[i]
                 \/ Append(q, e)[i] = e
  OBVIOUS

LEMMA QueueTail ==
    ASSUME NEW S, NEW q \in Seq(S), q # <<>>
    PROVE  /\ Tail(q) \in Seq(S)
           /\ Head(q) = q[1] /\ Head(q) \in S /\ 1 \in DOMAIN q
           /\ \A i \in DOMAIN Tail(q) : i + 1 \in DOMAIN q /\ Tail(q)[i] = q[i + 1]
  OBVIOUS

LEMMA QueueElement ==
    ASSUME NEW S, NEW q \in Seq(S), NEW i \in DOMAIN q
    PROVE  q[i] \in S
  OBVIOUS

LEMMA NextCases ==
    ASSUME NEW P,
           [Next]_vars,
           ASSUME NEW i \in Intent, NEW type \in Types, Enqueue(i, type),
                  type = "intent" \/ i \in live
           PROVE  P,
           BeginAppend => P, Put => P, PutMeta => P, PutFails => P,
           Crash => P, Ready => P, UNCHANGED vars => P
    PROVE  P
  BY DEF Next, Open, Follow, Types

\* The append that runs, its entry, and how its put moves on.
LEMMA RunningType ==
    ASSUME TypeOK, RunShape, at # "none"
    PROVE  /\ queue # <<>> /\ Current \in Appends /\ seq \in Nat
           /\ Tail(queue) \in Seq(Appends)
           /\ New \in Entries
           /\ New.seq = seq /\ New.intent = Current.intent
           /\ New.type = Current.type
  <1>1. queue # <<>> /\ seq \in Nat
    BY JournalAssumption DEF TypeOK, RunShape
  <1>2. Current \in Appends /\ Tail(queue) \in Seq(Appends)
    BY <1>1, QueueTail DEF TypeOK, Current
  <1> QED  BY <1>1, <1>2 DEF New, Entries, Appends

LEMMA TypeNext == TypeOK /\ RunShape /\ [Next]_vars => TypeOK'
  <1> SUFFICES ASSUME TypeOK, RunShape, [Next]_vars PROVE TypeOK'
    OBVIOUS
  <1>t. TypeOK /\ RunShape
    OBVIOUS
  <1>1. ASSUME NEW i \in Intent, NEW type \in Types, Enqueue(i, type),
               type = "intent" \/ i \in live
        PROVE  TypeOK'
    <2>1. [intent |-> i, type |-> type] \in Appends
      BY DEF Appends
    <2>2. queue' \in Seq(Appends)
      BY <1>1, <1>t, <2>1, QueueAppend DEF Enqueue, TypeOK
    <2> QED  BY <1>1, <1>t, <2>2 DEF Enqueue, TypeOK, diskVars
  <1>2. CASE BeginAppend
    <2>1. queue' \in Seq(Appends)
      BY <1>2, <1>t, QueueTail DEF BeginAppend, TypeOK
    <2>2. seq' \in Nat
      BY <1>2, <1>t, JournalAssumption DEF BeginAppend, TypeOK
    <2> QED  BY <1>2, <1>t, <2>1, <2>2 DEF BeginAppend, TypeOK, diskVars, Puts
  <1>3. CASE Put
    <2>0. at # "none"
      BY <1>3 DEF Put, PutEntry, PutIndex, PutReservation, IndexKinds
    <2>1. Current \in Appends /\ New \in Entries /\ seq \in Nat
      BY <2>0, RunningType
    <2>2. at' \in Puts \cup {"none"}
      BY <1>3, <1>t, <2>0 DEF Put, NextPut, AfterIndexes, TypeOK, Puts
    <2>3. entries' \subseteq Entries
      BY <1>3, <1>t, <2>1 DEF Put, PutEntry, PutIndex, PutReservation, TypeOK
    <2>4. index' \subseteq IndexKinds \X Intent \X Nat
      BY <1>3, <1>t, <2>1 DEF Put, PutEntry, PutIndex, PutReservation, TypeOK, Appends
    <2>5. reserved' \in [Key -> Intent \cup {None}]
      BY <1>3, <1>t, <2>1 DEF Put, PutEntry, PutIndex, PutReservation, TypeOK, Appends
    <2>6. meta' \in Nat
      BY <1>3, <1>t DEF Put, PutEntry, PutIndex, PutReservation, TypeOK
    <2> QED  BY <1>3, <1>t, <2>2, <2>3, <2>4, <2>5, <2>6 DEF Put, TypeOK
  <1>4. CASE PutMeta
    <2>0. at # "none"
      BY <1>4 DEF PutMeta
    <2>1. Current \in Appends /\ New \in Entries /\ seq \in Nat
          /\ Tail(queue) \in Seq(Appends)
      BY <2>0, RunningType
    <2>2. at' \in Puts \cup {"none"}
      BY <1>4, <1>t DEF PutMeta, NextPut, Puts
    <2> QED  BY <1>4, <1>t, <2>1, <2>2 DEF PutMeta, TypeOK, Appends
  <1>5. CASE PutFails
    <2>1. Tail(queue) \in Seq(Appends)
      BY <1>5, RunningType DEF PutFails
    <2> QED  BY <1>5, <1>t, <2>1 DEF PutFails, Rejected, TypeOK, diskVars
  <1>6. CASE Crash
    BY <1>6, <1>t DEF Crash, TypeOK, diskVars
  <1>7. CASE Ready
    <2>1. seq' \in Nat
      BY <1>7, <1>t DEF Ready, TypeOK, Entries
    <2> QED  BY <1>7, <1>t, <2>1 DEF Ready, TypeOK, diskVars
  <1>8. CASE UNCHANGED vars
    BY <1>8, <1>t DEF vars, diskVars, TypeOK
  <1> QED
    BY NextCases, <1>1, <1>2, <1>3, <1>4, <1>5, <1>6, <1>7, <1>8

LEMMA RunNext == TypeOK /\ RunShape /\ [Next]_vars => RunShape'
  <1> SUFFICES ASSUME TypeOK, RunShape, [Next]_vars PROVE RunShape'
    OBVIOUS
  <1>t. TypeOK /\ RunShape
    OBVIOUS
  <1>1. ASSUME NEW i \in Intent, NEW type \in Types, Enqueue(i, type),
               type = "intent" \/ i \in live
        PROVE  RunShape'
    <2>1. [intent |-> i, type |-> type] \in Appends
      BY DEF Appends
    <2>2. queue # <<>> => queue' # <<>> /\ Current' = Current
      BY <1>1, <1>t, <2>1, QueueAppend DEF Enqueue, TypeOK, Current
    <2> QED  BY <1>1, <1>t, <2>2 DEF Enqueue, RunShape, Reserves
  <1>2. CASE BeginAppend
    BY <1>2, <1>t, JournalAssumption DEF BeginAppend, RunShape, TypeOK
  <1>3. CASE Put
    <2>1. queue' = queue /\ seq' = seq /\ at # "none"
      BY <1>3 DEF Put, PutEntry, PutIndex, PutReservation, IndexKinds
    <2>2. /\ at' = "tx" => Current.type = "broadcast"
          /\ at' = "reservation" => Reserves(Current)
      BY <1>3, <1>t, <2>1 DEF Put, NextPut, AfterIndexes, TypeOK, Puts
    <2>3. Current' = Current
      BY <2>1 DEF Current
    <2> QED  BY <1>t, <2>1, <2>2, <2>3 DEF RunShape, Reserves
  <1>4. CASE PutMeta
    <2>1. at' = "none"
      BY <1>4 DEF PutMeta, NextPut
    <2>2. seq' # None
      BY <1>4, <1>t DEF PutMeta, RunShape
    <2> QED  BY <2>1, <2>2 DEF RunShape
  <1>5. CASE PutFails
    BY <1>5, <1>t DEF PutFails, Rejected, RunShape
  <1>6. CASE Crash
    BY <1>6 DEF Crash, RunShape
  <1>7. CASE Ready
    <2>1. seq' # None
      BY <1>7, <1>t, JournalAssumption DEF Ready, TypeOK, Entries
    <2> QED  BY <1>7, <1>t, <2>1 DEF Ready, RunShape
  <1>8. CASE UNCHANGED vars
    BY <1>8, <1>t DEF vars, RunShape, Current, Reserves
  <1> QED
    BY NextCases, <1>1, <1>2, <1>3, <1>4, <1>5, <1>6, <1>7, <1>8

\* The journal's variables keep their types through every put, failure and
\* restart.
THEOREM TypeCorrect == Spec => []TypeOK
  <1>1. Init => TypeOK /\ RunShape
    BY JournalAssumption DEF Init, TypeOK, RunShape
  <1>2. TypeOK /\ RunShape /\ [Next]_vars => TypeOK' /\ RunShape'
    BY TypeNext, RunNext
  <1> QED  BY <1>1, <1>2, PTL DEF Spec
-----------------------------------------------------------------------------
(* Numbers.                                                                *)

LEMMA NumbersBoundedNext ==
    ASSUME TypeOK, RunShape, TypeOK', NumbersBounded, [Next]_vars
    PROVE  NumbersBounded'
  <1>t. TypeOK /\ RunShape /\ NumbersBounded
    OBVIOUS
  <1>1. ASSUME NEW i \in Intent, NEW type \in Types, Enqueue(i, type),
               type = "intent" \/ i \in live
        PROVE  NumbersBounded'
    BY <1>1, <1>t DEF Enqueue, diskVars, NumbersBounded
  <1>2. CASE BeginAppend
    <2>1. seq \in Nat /\ seq' = seq + 1 /\ entries' = entries /\ meta' = meta
      BY <1>2, <1>t DEF BeginAppend, diskVars, TypeOK
    <2>2. \A e \in entries : e.seq \in Nat /\ e.seq <= seq
      BY <1>t, <2>1, JournalAssumption DEF NumbersBounded, TypeOK, Entries
    <2>3. meta \in Nat /\ meta <= seq
      BY <1>t, <2>1, JournalAssumption DEF NumbersBounded, TypeOK
    <2> QED  BY <2>1, <2>2, <2>3 DEF NumbersBounded
  <1>3. CASE Put
    <2>0. at # "none" /\ seq' = seq /\ meta' = meta
      BY <1>3 DEF Put, PutEntry, PutIndex, PutReservation, IndexKinds
    <2>1. New.seq = seq /\ seq \in Nat
      BY <2>0, RunningType
    <2>2. \A e \in entries' : e \in entries \/ e = New
      BY <1>3 DEF Put, PutEntry, PutIndex, PutReservation
    <2>3. at' # "entry"
      BY <1>3, <1>t DEF Put, PutEntry, PutIndex, PutReservation, NextPut,
           AfterIndexes, IndexKinds
    <2> QED  BY <1>t, <2>0, <2>1, <2>2, <2>3 DEF NumbersBounded
  <1>4. CASE PutMeta
    <2>1. seq \in Nat /\ New.seq = seq
      BY <1>4, RunningType DEF PutMeta
    <2>2. at' # "entry"
      BY <1>4 DEF PutMeta, NextPut
    <2> QED  BY <1>4, <1>t, <2>1, <2>2 DEF PutMeta, NumbersBounded
  <1>5. CASE PutFails
    BY <1>5, <1>t DEF PutFails, Rejected, diskVars, NumbersBounded
  <1>6. CASE Crash
    BY <1>6 DEF Crash, NumbersBounded
  <1>7. CASE Ready
    BY <1>7, <1>t DEF Ready, RecoveredSeq, diskVars, NumbersBounded, RunShape
  <1>8. CASE UNCHANGED vars
    BY <1>8, <1>t DEF vars, diskVars, NumbersBounded
  <1> QED
    BY NextCases, <1>1, <1>2, <1>3, <1>4, <1>5, <1>6, <1>7, <1>8

\* The steps that change what is stored: an entry put under a free number,
\* or an index put for the running append's own entry.
LEMMA StorageStep ==
    ASSUME TypeOK, RunShape, NumbersBounded, [Next]_vars
    PROVE  \/ UNCHANGED <<entries, index>>
           \/ /\ at = "entry" /\ Put
              /\ entries' = entries \cup {New} /\ index' = index
           \/ /\ at \in IndexKinds /\ Put
              /\ entries' = entries
              /\ index' = index \cup {<<at, Current.intent, seq>>}
  <1> DEFINE P == \/ UNCHANGED <<entries, index>>
                  \/ /\ at = "entry" /\ Put
                     /\ entries' = entries \cup {New} /\ index' = index
                  \/ /\ at \in IndexKinds /\ Put
                     /\ entries' = entries
                     /\ index' = index \cup {<<at, Current.intent, seq>>}
  <1>1. ASSUME NEW i \in Intent, NEW type \in Types, Enqueue(i, type),
               type = "intent" \/ i \in live
        PROVE  P
    BY <1>1 DEF Enqueue, diskVars
  <1>2. Put => P
    BY DEF Put, PutEntry, PutIndex, PutReservation, NumbersBounded
  <1>3. /\ BeginAppend => P
        /\ PutFails => P
        /\ Crash => P
        /\ Ready => P
        /\ PutMeta => P
        /\ UNCHANGED vars => P
    BY DEF BeginAppend, PutFails, Crash, Ready, PutMeta, diskVars, vars
  <1> QED
    BY NextCases, <1>1, <1>2, <1>3

LEMMA NumbersUniqueNext ==
    ASSUME TypeOK, RunShape, NumbersBounded, NumbersUnique, PutsDone,
           [Next]_vars
    PROVE  NumbersUnique'
  <1>1. CASE UNCHANGED <<entries, index>>
    BY <1>1 DEF NumbersUnique, IndexLeadsToEntry
  <1>2. CASE /\ at = "entry" /\ Put
             /\ entries' = entries \cup {New} /\ index' = index
    <2>1. New.seq = seq
      BY <1>2, RunningType
    <2>2. \A e \in entries : e.seq # New.seq
      BY <1>2, <2>1 DEF NumbersBounded
    <2>3. \A e, f \in entries' : e.seq = f.seq => e = f
      BY <1>2, <2>2 DEF NumbersUnique
    <2>4. IndexLeadsToEntry'
      BY <1>2 DEF NumbersUnique, IndexLeadsToEntry
    <2> QED  BY <2>3, <2>4 DEF NumbersUnique
  <1>3. CASE /\ at \in IndexKinds /\ Put
             /\ entries' = entries
             /\ index' = index \cup {<<at, Current.intent, seq>>}
    <2>1. New \in entries /\ New.seq = seq /\ New.intent = Current.intent
      BY <1>3, RunningType DEF PutsDone, IndexKinds
    <2>2. IndexLeadsToEntry'
      BY <1>3, <2>1 DEF NumbersUnique, IndexLeadsToEntry
    <2> QED  BY <1>3, <2>2 DEF NumbersUnique
  <1> QED  BY StorageStep, <1>1, <1>2, <1>3
-----------------------------------------------------------------------------
(* What the running append has put.                                        *)

\* A put leaves the append that runs, and the entry it writes, as they are.
LEMMA PutKeepsNew == Put => New' = New /\ Current' = Current /\ at # "none"
  BY DEF Put, PutEntry, PutIndex, PutReservation, New, Current, IndexKinds

LEMMA PutsDoneNext ==
    ASSUME TypeOK, RunShape, NumbersBounded, NumbersUnique, PutsDone,
           TypeOK', RunShape', [Next]_vars
    PROVE  PutsDone'
  <1>t. TypeOK /\ RunShape /\ PutsDone
    OBVIOUS
  <1>1. ASSUME NEW i \in Intent, NEW type \in Types, Enqueue(i, type),
               type = "intent" \/ i \in live
        PROVE  PutsDone'
    <2>1. [intent |-> i, type |-> type] \in Appends
      BY DEF Appends
    <2>2. at # "none" => Current' = Current
      BY <1>1, <1>t, <2>1, QueueAppend DEF Enqueue, TypeOK, Current, RunShape
    <2>3. at # "none" => New' = New
      BY <1>1, <2>2 DEF Enqueue, New
    <2>4. UNCHANGED <<at, entries, index, reserved>>
      BY <1>1 DEF Enqueue, diskVars
    <2>5. Found' = Found
      BY <2>4 DEF Found
    <2> QED  BY <1>t, <2>2, <2>3, <2>4, <2>5 DEF PutsDone, Reserves
  <1>2. CASE BeginAppend
    <2>1. CASE at' = "none"
      BY <2>1 DEF PutsDone
    <2>2. CASE at' = "entry"
      <3>1. ~Conflicts(Current) /\ Current' = Current /\ reserved' = reserved
        BY <1>2, <2>2 DEF BeginAppend, diskVars, Current
      <3> QED  BY <2>2, <3>1 DEF PutsDone, Conflicts, Reserves
    <2> QED  BY <1>2, <2>1, <2>2 DEF BeginAppend
  <1>3. CASE Put
    <2>0. /\ New' = New /\ Current' = Current /\ at # "none"
          /\ at' = NextPut(Current, at)
      BY <1>3, PutKeepsNew DEF Put
    <2>1. /\ New.seq = seq /\ New.intent = Current.intent
          /\ Current \in Appends
      BY <2>0, RunningType
    <2>2. CASE at = "entry"
      <3>1. New \in entries' /\ reserved' = reserved /\ at' = "drive"
        BY <1>3, <2>0, <2>2 DEF Put, PutEntry, PutIndex, PutReservation,
             IndexKinds, NextPut
      <3> QED  BY <1>t, <2>0, <2>2, <3>1 DEF PutsDone, Reserves
    <2>3. CASE at = "drive"
      <3>1. entries' = entries /\ reserved' = reserved /\ at' = "intent"
        BY <1>3, <2>0, <2>3 DEF Put, PutEntry, PutIndex, PutReservation,
             IndexKinds, NextPut
      <3> QED  BY <1>t, <2>0, <2>3, <3>1 DEF PutsDone, Reserves
    <2>4. CASE at = "intent"
      <3>1. /\ entries' = entries /\ reserved' = reserved
            /\ index' = index \cup {<<"intent", New.intent, New.seq>>}
            /\ at' = AfterIndexes(Current)
        BY <1>3, <2>0, <2>1, <2>4 DEF Put, PutEntry, PutIndex,
             PutReservation, IndexKinds, NextPut
      <3>2. New \in Found'
        BY <1>t, <2>4, <3>1 DEF PutsDone, Found
      <3>3. at' = "meta" => ~Reserves(Current)
        BY <3>1 DEF AfterIndexes, Reserves
      <3> QED
        BY <1>t, <2>0, <2>4, <3>1, <3>2, <3>3 DEF PutsDone, Reserves, Found
    <2>5. CASE at = "tx"
      <3>1. /\ entries' = entries /\ reserved' = reserved
            /\ index \subseteq index' /\ at' = "meta"
        BY <1>3, <2>0, <2>5 DEF Put, PutEntry, PutIndex, PutReservation,
             IndexKinds, NextPut
      <3>2. ~Reserves(Current)
        BY <1>t, <2>5 DEF RunShape, Reserves
      <3>3. Found \subseteq Found'
        BY <3>1 DEF Found
      <3> QED  BY <1>t, <2>0, <2>5, <3>1, <3>2, <3>3 DEF PutsDone, Reserves
    <2>6. CASE at = "reservation"
      <3>1. /\ entries' = entries /\ index' = index /\ at' = "meta"
            /\ reserved' = [reserved EXCEPT ![KeyOf[Current.intent]]
                              = Current.intent]
        BY <1>3, <2>0, <2>6 DEF Put, PutEntry, PutIndex, PutReservation,
             IndexKinds, NextPut
      <3>2. KeyOf[Current.intent] \in Key
        BY <1>t, <2>1, <2>6, JournalAssumption DEF RunShape, Reserves, Appends
      <3>3. reserved'[KeyOf[Current.intent]] = Current.intent
        BY <1>t, <3>1, <3>2 DEF TypeOK
      <3>4. Found' = Found
        BY <3>1 DEF Found
      <3> QED  BY <1>t, <2>0, <2>6, <3>1, <3>3, <3>4 DEF PutsDone, Reserves
    <2> QED
      BY <1>3, <2>2, <2>3, <2>4, <2>5, <2>6 DEF Put, PutEntry, PutIndex,
         PutReservation, IndexKinds
  <1>4. CASE PutMeta
    <2>1. at' = "none"
      BY <1>4 DEF PutMeta, NextPut
    <2> QED  BY <2>1 DEF PutsDone
  <1>5. CASE PutFails
    BY <1>5 DEF PutFails, Rejected, PutsDone
  <1>6. CASE Crash
    BY <1>6 DEF Crash, PutsDone
  <1>7. CASE Ready
    BY <1>7, <1>t DEF Ready, PutsDone, RunShape
  <1>8. CASE UNCHANGED vars
    BY <1>8, <1>t DEF vars, diskVars, PutsDone, New, Current, Found, Reserves
  <1> QED
    BY NextCases, <1>1, <1>2, <1>3, <1>4, <1>5, <1>6, <1>7, <1>8
-----------------------------------------------------------------------------
(* Reservations.                                                           *)

\* Only the reservation put of the running append takes a key, a free one.
LEMMA ReservationStep ==
    ASSUME TypeOK, RunShape, PutsDone, [Next]_vars
    PROVE  \/ reserved' = reserved
           \/ /\ at = "reservation" /\ Put
              /\ UNCHANGED <<entries, index>>
              /\ KeyOf[Current.intent] \in Key
              /\ reserved[KeyOf[Current.intent]] = None
              /\ reserved' = [reserved EXCEPT ![KeyOf[Current.intent]]
                                = Current.intent]
  <1> DEFINE P == \/ reserved' = reserved
                  \/ /\ at = "reservation" /\ Put
                     /\ UNCHANGED <<entries, index>>
                     /\ KeyOf[Current.intent] \in Key
                     /\ reserved[KeyOf[Current.intent]] = None
                     /\ reserved' = [reserved EXCEPT ![KeyOf[Current.intent]]
                                       = Current.intent]
  <1>1. ASSUME NEW i \in Intent, NEW type \in Types, Enqueue(i, type),
               type = "intent" \/ i \in live
        PROVE  P
    BY <1>1 DEF Enqueue, diskVars
  <1>2. CASE Put
    <2>1. CASE at = "reservation"
      <3>1. /\ UNCHANGED <<entries, index>>
            /\ reserved' = [reserved EXCEPT ![KeyOf[Current.intent]]
                              = Current.intent]
        BY <1>2, <2>1 DEF Put, PutEntry, PutIndex, PutReservation, IndexKinds
      <3>2. Current \in Appends
        BY <2>1, RunningType
      <3>3. KeyOf[Current.intent] \in Key
        BY <2>1, <3>2, JournalAssumption DEF RunShape, Reserves, Appends
      <3>4. reserved[KeyOf[Current.intent]] = None
        BY <2>1 DEF RunShape, PutsDone
      <3> QED  BY <1>2, <2>1, <3>1, <3>3, <3>4
    <2>2. CASE at # "reservation"
      BY <1>2, <2>2 DEF Put, PutEntry, PutIndex, PutReservation
    <2> QED  BY <2>1, <2>2
  <1>3. /\ BeginAppend => P
        /\ PutFails => P
        /\ Crash => P
        /\ Ready => P
        /\ PutMeta => P
        /\ UNCHANGED vars => P
    BY DEF BeginAppend, PutFails, Crash, Ready, PutMeta, diskVars, vars
  <1> QED  BY NextCases, <1>1, <1>2, <1>3

\* A reservation never changes hands, so who holds a key holds it for good.
LEMMA HoldsForGood ==
    ASSUME TypeOK, RunShape, PutsDone, [Next]_vars, NEW i \in Intent, Holds(i)
    PROVE  Holds(i)'
  <1>1. KeyOf[i] # None => KeyOf[i] \in Key
    BY JournalAssumption
  <1>2. KeyOf[i] # None => reserved[KeyOf[i]] # None
    BY JournalAssumption DEF Holds
  <1> QED  BY <1>1, <1>2, ReservationStep DEF Holds, TypeOK

LEMMA KeysHeldNext ==
    ASSUME TypeOK, RunShape, NumbersBounded, PutsDone, KeysHeld,
           TypeOK', [Next]_vars
    PROVE  KeysHeld'
  <1>t. TypeOK /\ RunShape /\ PutsDone /\ KeysHeld
    OBVIOUS
  <1>h. \A i \in Intent : Holds(i) => Holds(i)'
    BY HoldsForGood
  \* Stored later entries: only the running append's own is new.
  <1>e. ReservedBeforeUse'
    <2>1. \A e \in entries : e.intent \in Intent
      BY <1>t DEF TypeOK, Entries
    <2>2. ASSUME entries' = entries \cup {New}, at = "entry"
          PROVE  New.type \in Later => New.intent \in Intent /\ Holds(New.intent)
      <3>1. /\ queue # <<>> /\ Current \in Appends /\ New.type = Current.type
            /\ New.intent = Current.intent
        BY <2>2, RunningType
      <3>2. Current = queue[1] /\ 1 \in DOMAIN queue
        BY <3>1, <1>t, QueueTail DEF Current, TypeOK
      <3> QED  BY <1>t, <3>1, <3>2 DEF KeysHeld, Appends
    <2>3. \A e \in entries' :
             e.type \in Later => e.intent \in Intent /\ Holds(e.intent)
      BY <1>t, <2>1, <2>2, StorageStep DEF KeysHeld, ReservedBeforeUse, Holds
    <2> QED  BY <1>h, <2>3 DEF ReservedBeforeUse, Holds
  <1>1. ASSUME NEW i \in Intent, NEW type \in Types, Enqueue(i, type),
               type = "intent" \/ i \in live
        PROVE  KeysHeld'
    <2> DEFINE a == [intent |-> i, type |-> type]
    <2>1. a \in Appends /\ queue' = Append(queue, a) /\ queue \in Seq(Appends)
      BY <1>1, <1>t DEF Enqueue, Appends, TypeOK
    <2>2. \A j \in DOMAIN queue' :
             (j \in DOMAIN queue /\ queue'[j] = queue[j]) \/ queue'[j] = a
      BY <2>1, QueueAppend
    <2>3. type \in Later => Holds(i)
      BY <1>1, <1>t DEF KeysHeld, Later
    <2>4. \A j \in DOMAIN queue' :
             queue'[j].type \in Later => Holds(queue'[j].intent)
      BY <1>t, <2>2, <2>3 DEF KeysHeld
    <2>5. reserved' = reserved /\ live' = live
      BY <1>1 DEF Enqueue, diskVars
    <2> QED  BY <1>t, <1>e, <2>4, <2>5 DEF KeysHeld, Holds
  \* A step that leaves of the queue what was in it, and of the live intents.
  <1>k. ASSUME live' \subseteq live \cup {i \in Intent : Holds(i)},
               \A j \in DOMAIN queue' :
                  \E k \in DOMAIN queue : queue'[j] = queue[k]
        PROVE  KeysHeld'
    <2>1. \A i \in live' : i \in Intent /\ Holds(i)
      BY <1>k, <1>t DEF KeysHeld, TypeOK
    <2>2. \A k \in DOMAIN queue : queue[k].intent \in Intent
      <3>1. \A k \in DOMAIN queue : queue[k] \in Appends
        BY <1>t, QueueElement DEF TypeOK
      <3> QED  BY <3>1 DEF Appends
    <2>3. \A j \in DOMAIN queue' : queue'[j].type \in Later =>
             queue'[j].intent \in Intent /\ Holds(queue'[j].intent)
      BY <1>k, <1>t, <2>2 DEF KeysHeld
    <2> QED  BY <1>h, <1>e, <2>1, <2>3 DEF KeysHeld
  <1>q. queue # <<>> => \A j \in DOMAIN Tail(queue) :
           \E k \in DOMAIN queue : Tail(queue)[j] = queue[k]
    BY <1>t, QueueTail DEF TypeOK
  <1>2. CASE BeginAppend
    <2>1. live' = live /\ queue # <<>>
          /\ (queue' = queue \/ queue' = Tail(queue))
      BY <1>2 DEF BeginAppend
    <2> QED  BY <1>k, <1>q, <2>1
  <1>3. CASE Put
    BY <1>3, <1>k DEF Put
  <1>4. CASE PutMeta
    <2>0. at # "none"
      BY <1>4 DEF PutMeta
    <2>1. queue # <<>> /\ Current \in Appends
      BY <2>0, RunningType
    <2>2. Current = queue[1] /\ 1 \in DOMAIN queue
      BY <2>1, <1>t, QueueTail DEF Current, TypeOK
    <2>3. Holds(Current.intent) /\ Current.intent \in Intent
      <3>1. CASE Current.type \in Later
        BY <1>t, <2>1, <2>2, <3>1 DEF KeysHeld, Appends
      <3>2. CASE Current.type = "intent"
        BY <1>t, <1>4, <2>1, <3>2 DEF PutMeta, PutsDone, Reserves, Holds, Appends
      <3> QED  BY <2>1, <3>1, <3>2 DEF Appends, Types
    <2>4. live' = live \cup {Current.intent} /\ queue' = Tail(queue)
      BY <1>4 DEF PutMeta
    <2> QED  BY <1>k, <1>q, <2>1, <2>3, <2>4
  <1>5. CASE PutFails
    <2>1. live' = live /\ queue' = Tail(queue) /\ queue # <<>>
      BY <1>5, <1>t DEF PutFails, Rejected, RunShape
    <2> QED  BY <1>k, <1>q, <2>1
  <1>6. CASE Crash
    BY <1>6, <1>k DEF Crash
  <1>7. CASE Ready
    BY <1>7, <1>k DEF Ready
  <1>8. CASE UNCHANGED vars
    BY <1>8, <1>k DEF vars
  <1> QED
    BY NextCases, <1>1, <1>2, <1>3, <1>4, <1>5, <1>6, <1>7, <1>8

LEMMA JournalInvInit == Init => JournalInv
  BY JournalAssumption DEF Init, JournalInv, TypeOK, RunShape, NumbersBounded,
     NumbersUnique, IndexLeadsToEntry, PutsDone, KeysHeld, ReservedBeforeUse

LEMMA JournalInvNext == JournalInv /\ [Next]_vars => JournalInv'
  BY TypeNext, RunNext, NumbersBoundedNext, NumbersUniqueNext, PutsDoneNext,
     KeysHeldNext DEF JournalInv

LEMMA JournalInvAlways == Spec => []JournalInv
  BY JournalInvInit, JournalInvNext, PTL DEF Spec

\* Every index entry leads to the entry it was written for, between any two
\* puts and after any crash.
THEOREM IndexCorrect == Spec => []IndexLeadsToEntry
  <1>1. JournalInv => IndexLeadsToEntry
    BY DEF JournalInv, NumbersUnique
  <1> QED  BY <1>1, JournalInvAlways, PTL

\* An intent past its first append holds its idempotency key.
THEOREM ReservationCorrect == Spec => []ReservedBeforeUse
  <1>1. JournalInv => ReservedBeforeUse
    BY DEF JournalInv, KeysHeld
  <1> QED  BY <1>1, JournalInvAlways, PTL

\* A stored entry is never overwritten, whatever number ready() recovers.
THEOREM NumbersCorrect == Spec => NeverOverwritten
  <1>1. JournalInv /\ [Next]_vars => [entries \subseteq entries']_vars
    BY StorageStep DEF JournalInv
  <1> QED  BY <1>1, JournalInvAlways, PTL DEF Spec, NeverOverwritten
-----------------------------------------------------------------------------
(* Refinement.                                                             *)

\* What readers find grows by the running append's entry, the newest of all.
LEMMA FoundGrows ==
    ASSUME JournalInv, [Next]_vars
    PROVE  \/ Found' = Found
           \/ /\ Found' = Found \cup {New} /\ at = "intent" /\ Put
              /\ \A old \in Found : old.seq < New.seq
  <1>t. TypeOK /\ RunShape /\ NumbersBounded /\ NumbersUnique /\ PutsDone
    BY DEF JournalInv
  <1>1. CASE UNCHANGED <<entries, index>>
    BY <1>1 DEF Found
  <1>2. CASE /\ at = "entry" /\ Put
             /\ entries' = entries \cup {New} /\ index' = index
    \* No index entry carries the new number yet.
    <2>1. New.seq = seq
      BY <1>2, <1>t, RunningType
    <2>2. <<"intent", New.intent, New.seq>> \notin index
      BY <1>2, <1>t, <2>1 DEF NumbersUnique, IndexLeadsToEntry, NumbersBounded
    <2> QED  BY <1>2, <2>2 DEF Found
  <1>3. CASE /\ at \in IndexKinds /\ Put
             /\ entries' = entries
             /\ index' = index \cup {<<at, Current.intent, seq>>}
    <2>1. /\ New \in entries /\ New.seq = seq /\ seq \in Nat
          /\ New.intent = Current.intent
      BY <1>3, <1>t, RunningType DEF PutsDone, IndexKinds
    <2>2. CASE at # "intent"
      BY <1>3, <2>2 DEF Found
    <2>3. CASE at = "intent"
      <3>1. \A e \in entries : e.seq = seq => e = New
        BY <1>t, <2>1 DEF NumbersUnique
      <3>2. Found' = Found \cup {New}
        BY <1>3, <2>1, <2>3, <3>1 DEF Found
      <3>3. \A e \in entries : e.seq \in Nat /\ e.seq <= seq
        BY <1>t, <2>1, JournalAssumption DEF NumbersBounded, TypeOK, Entries
      <3>4. New \notin Found => \A old \in Found : old.seq < New.seq
        BY <2>1, <3>1, <3>3 DEF Found
      <3> QED  BY <1>3, <2>3, <3>2, <3>4
    <2> QED  BY <2>2, <2>3
  <1> QED  BY <1>t, StorageStep, <1>1, <1>2, <1>3

\* What resolves a call to append(): the put of the counter.
LEMMA ResolvedStep ==
    ASSUME [Next]_vars
    PROVE  \/ resolved' = resolved
           \/ PutMeta /\ resolved' = resolved \cup {New}
  <1> DEFINE P == \/ resolved' = resolved
                  \/ PutMeta /\ resolved' = resolved \cup {New}
  <1>1. ASSUME NEW i \in Intent, NEW type \in Types, Enqueue(i, type),
               type = "intent" \/ i \in live
        PROVE  P
    BY <1>1 DEF Enqueue
  <1>2. /\ BeginAppend => P
        /\ Put => P
        /\ PutFails => P
        /\ Crash => P
        /\ Ready => P
        /\ PutMeta => P
        /\ UNCHANGED vars => P
    BY DEF BeginAppend, Put, PutFails, Crash, Ready, PutMeta, vars
  <1> QED  BY NextCases, <1>1, <1>2

\* Each step of the journal is a step of the ideal log, or none.
LEMMA LogNext == JournalInv /\ [Next]_vars => [Log!Next]_(Log!vars)
  <1> SUFFICES ASSUME JournalInv, [Next]_vars PROVE [Log!Next]_(Log!vars)
    OBVIOUS
  <1>t. TypeOK /\ RunShape /\ PutsDone /\ KeysHeld
    BY DEF JournalInv
  <1>1. CASE at = "intent" /\ Put /\ Found' # Found
    <2>1. /\ Found' = Found \cup {New}
          /\ \A old \in Found : old.seq < New.seq
      BY <1>1, FoundGrows
    <2>2. reserved' = reserved /\ resolved' = resolved
      BY <1>1 DEF Put, PutEntry, PutIndex, PutReservation
    <2>3. Log!Write
      BY <2>1, <2>2 DEF Log!Write
    <2> QED  BY <2>3 DEF Log!Next
  <1>2. CASE reserved' # reserved
    <2>1. /\ at = "reservation" /\ Put /\ UNCHANGED <<entries, index>>
          /\ KeyOf[Current.intent] \in Key
          /\ reserved[KeyOf[Current.intent]] = None
          /\ reserved' = [reserved EXCEPT ![KeyOf[Current.intent]]
                            = Current.intent]
      BY <1>t, <1>2, ReservationStep
    <2>2. /\ New \in Found /\ New.intent = Current.intent
          /\ Current \in Appends /\ Current.intent \in Intent
      BY <1>t, <2>1, RunningType DEF PutsDone, Appends
    <2>3. Found' = Found /\ resolved' = resolved
      BY <2>1 DEF Found, Put
    <2>4. KeyOf[Current.intent] # None
      BY <2>1, JournalAssumption
    <2>5. Log!Reserve(Current.intent)
      BY <2>1, <2>2, <2>3, <2>4 DEF Log!Reserve
    <2> QED  BY <2>2, <2>5 DEF Log!Next
  <1>3. CASE PutMeta
    <2>0. at = "meta" /\ UNCHANGED <<entries, index, reserved>>
      BY <1>3 DEF PutMeta
    <2>1. /\ New \in Found /\ New.intent = Current.intent
          /\ queue # <<>> /\ Current \in Appends
      BY <1>t, <2>0, RunningType DEF PutsDone
    <2>2. Current = queue[1] /\ 1 \in DOMAIN queue
      BY <2>1, <1>t, QueueTail DEF Current, TypeOK
    <2>3. Holds(Current.intent)
      <3>1. CASE Current.type \in Later
        BY <1>t, <2>2, <3>1 DEF KeysHeld
      <3>2. CASE Current.type = "intent"
        BY <1>t, <2>0, <3>2 DEF PutsDone, Reserves, Holds
      <3> QED  BY <2>1, <3>1, <3>2 DEF Appends, Types
    <2>4. Found' = Found /\ resolved' = resolved \cup {New}
      BY <1>3, <2>0 DEF Found, PutMeta
    <2>5. Log!Resolve
      BY <2>0, <2>1, <2>3, <2>4 DEF Log!Resolve, Holds
    <2> QED  BY <2>5 DEF Log!Next
  <1>4. CASE Found' = Found /\ reserved' = reserved /\ ~PutMeta
    <2>1. resolved' = resolved
      BY <1>4, ResolvedStep
    <2> QED  BY <1>4, <2>1 DEF Log!vars
  <1> QED  BY <1>1, <1>2, <1>3, <1>4, FoundGrows

\* The journal implements the log the wallet service relies on.
THEOREM Refinement == Spec => ImplementsLog
  <1>1. Init => Log!Init
    BY DEF Init, Log!Init, Found
  <1> QED
    BY <1>1, LogNext, JournalInvAlways, PTL DEF Spec, ImplementsLog, Log!Spec
=============================================================================
