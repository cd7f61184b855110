--------------------------- MODULE WalletJournal ---------------------------
(***************************************************************************)
(* The wallet journal down to the single puts on its Hyperbee: appends     *)
(* queue on a promise chain, each takes the next sequence number and       *)
(* writes its entry, its indexes, its reservation and the counter one put  *)
(* at a time.  A put can fail, and the process can die between any two;    *)
(* ready() then recovers the counter from what is on disk.                 *)
(*                                                                         *)
(* Code: src/backend/wallet/wallet-journal.cjs, called as wallet-service   *)
(* .cjs calls it: the first entry of an intent carries its reservation,    *)
(* and later entries follow once that append has resolved.                 *)
(***************************************************************************)
EXTENDS Naturals, Sequences

CONSTANTS
    Intent,     \* intents
    Key,        \* (drive, manifest, idempotency key) triples
    KeyOf,      \* the key a payment intent reserves, None for a signature
    None

ASSUME JournalAssumption ==
    /\ KeyOf \in [Intent -> Key \cup {None}]
    /\ None \notin Intent \cup Key \cup Nat

VARIABLES
    entries,    \* e!<seq>: the entries on disk
    index,      \* i!<intent>!<seq>, d!<drive>!<seq> and t!<hash>!<seq>
    reserved,   \* k!<key>
    meta,       \* meta!seq
    seq,        \* WalletJournal._seq; None before ready()
    queue,      \* appends queued on _tail
    at,         \* the next put of the append at the head of the queue
    live,       \* intents whose first append resolved in this process
    sent,       \* the types appended for each intent
    resolved    \* entries whose append() has resolved, ever

diskVars == <<entries, index, reserved, meta>>
vars == <<diskVars, seq, queue, at, live, sent, resolved>>

Later == {"approval", "broadcast"}
Types == {"intent"} \cup Later
Puts == {"entry", "drive", "intent", "tx", "reservation", "meta"}
Appends == [intent : Intent, type : Types]
Entries == [seq : Nat, intent : Intent, type : Types]
IndexKinds == {"drive", "intent", "tx"}

Current == Head(queue)
New == [seq |-> seq, intent |-> Current.intent, type |-> Current.type]

\* Only the first entry of a payment carries a reservation.
Reserves(a) == a.type = "intent" /\ KeyOf[a.intent] # None

\* getByIntentId(): entries are found through the intent index.
Visible(i) == {e \in entries : e.intent = i /\ <<"intent", i, e.seq>> \in index}
Found == {e \in entries : <<"intent", e.intent, e.seq>> \in index}

TypeOK ==
    /\ entries \subseteq Entries
    /\ index \subseteq IndexKinds \X Intent \X Nat
    /\ reserved \in [Key -> Intent \cup {None}]
    /\ meta \in Nat
    /\ seq \in Nat \cup {None}
    /\ queue \in Seq(Appends)
    /\ at \in Puts \cup {"none"}
    /\ live \subseteq Intent
    /\ sent \in [Intent -> SUBSET Types]
    /\ resolved \subseteq Entries

Init ==
    /\ entries = {} /\ index = {} /\ meta = 0
    /\ reserved = [k \in Key |-> None]
    /\ seq = 0
    /\ queue = <<>> /\ at = "none"
    /\ live = {}
    /\ sent = [i \in Intent |-> {}]
    /\ resolved = {}
-----------------------------------------------------------------------------
(* Callers.                                                                *)

\* append() validates its entry and queues behind the appends before it.
Enqueue(i, type) ==
    /\ seq # None
    /\ type \notin sent[i]
    /\ sent' = [sent EXCEPT ![i] = @ \cup {type}]
    /\ queue' = Append(queue, [intent |-> i, type |-> type])
    /\ UNCHANGED <<diskVars, seq, at, live, resolved>>

\* A new intent, whose first entry carries the reservation.
Open(i) == Enqueue(i, "intent")

\* A later entry of an intent whose first append resolved.
Follow(i, type) == i \in live /\ type \in Later /\ Enqueue(i, type)
-----------------------------------------------------------------------------
(* _appendNow().                                                           *)

\* Bug: the reservation is only looked up before the append is queued.
NeverConflicts(a) == FALSE

\* The reservation check of the append that runs.
Conflicts(a) == Reserves(a) /\ reserved[KeyOf[a.intent]] # None

\* The next append takes a number and finds its key free, or is refused
\* before anything is written (the number stays taken).
BeginAppend ==
    /\ seq # None
    /\ at = "none" /\ queue # <<>>
    /\ seq' = seq + 1
    /\ IF Conflicts(Current)
       THEN queue' = Tail(queue) /\ UNCHANGED at
       ELSE at' = "entry" /\ UNCHANGED queue
    /\ UNCHANGED <<diskVars, live, sent, resolved>>

\* Bug: the reservation is left out.
AfterIndexesSkipping(a) == IF a.type = "broadcast" THEN "tx" ELSE "meta"

AfterIndexes(a) ==
    IF a.type = "broadcast" THEN "tx"
    ELSE IF Reserves(a) THEN "reservation"
    ELSE "meta"

\* The order of the puts.
NextPut(a, put) ==
    CASE put = "entry" -> "drive"
      [] put = "drive" -> "intent"
      [] put = "intent" -> AfterIndexes(a)
      [] put \in {"tx", "reservation"} -> "meta"
      [] put = "meta" -> "none"

\* An entry put replaces whatever is stored under the same number.
PutEntry ==
    /\ at = "entry"
    /\ entries' = {e \in entries : e.seq # seq} \cup {New}
    /\ UNCHANGED <<index, reserved, meta>>

PutIndex ==
    /\ at \in IndexKinds
    /\ index' = index \cup {<<at, Current.intent, seq>>}
    /\ UNCHANGED <<entries, reserved, meta>>

PutReservation ==
    /\ at = "reservation"
    /\ reserved' = [reserved EXCEPT ![KeyOf[Current.intent]] = Current.intent]
    /\ UNCHANGED <<entries, index, meta>>

Put ==
    /\ PutEntry \/ PutIndex \/ PutReservation
    /\ at' = NextPut(Current, at)
    /\ UNCHANGED <<seq, queue, live, sent, resolved>>

\* The last put; append() resolves.
PutMeta ==
    /\ at = "meta"
    /\ meta' = seq
    /\ at' = NextPut(Current, at)
    /\ queue' = Tail(queue)
    /\ resolved' = resolved \cup {New}
    /\ live' = live \cup {Current.intent}
    /\ UNCHANGED <<entries, index, reserved, seq, sent>>

\* Bug: a failed put is swallowed and the append goes on.
FailureSwallowed ==
    /\ at' = NextPut(Current, at)
    /\ queue' = IF at = "meta" THEN Tail(queue) ELSE queue

\* The append rejects; the chain's catch lets the next one run.
Rejected == at' = "none" /\ queue' = Tail(queue)

\* A put throws: what was put before it stays.
PutFails ==
    /\ at # "none"
    /\ Rejected
    /\ UNCHANGED <<diskVars, seq, live, sent, resolved>>
-----------------------------------------------------------------------------
(* Restart.                                                                *)

Crash ==
    /\ seq' = None
    /\ queue' = <<>> /\ at' = "none"
    /\ live' = {}
    /\ UNCHANGED <<diskVars, sent, resolved>>

\* Bug: the counter is trusted, and the entries are not looked at.
TrustCounter(n) == n = meta

\* The larger of the counter and the last entry's number.
RecoveredSeq(n) ==
    /\ n \in {meta} \cup {e.seq : e \in entries}
    /\ meta <= n
    /\ \A e \in entries : e.seq <= n

\* ready()
Ready ==
    /\ seq = None
    /\ \E n \in {meta} \cup {e.seq : e \in entries} :
           RecoveredSeq(n) /\ seq' = n
    /\ UNCHANGED <<diskVars, queue, at, live, sent, resolved>>
-----------------------------------------------------------------------------
Next ==
    \/ \E i \in Intent : Open(i)
    \/ \E i \in Intent, type \in Later : Follow(i, type)
    \/ BeginAppend
    \/ Put
    \/ PutMeta
    \/ PutFails
    \/ Crash
    \/ Ready

Spec == Init /\ [][Next]_vars
-----------------------------------------------------------------------------
(* Safety.                                                                 *)

\* A number, once an entry is stored under it, keeps that entry: no crash,
\* failed put or recovered counter makes a later append overwrite it (ready()
\* says "so a live seq is never reused").
NeverOverwritten == [][entries \subseteq entries']_vars

\* Every index entry leads to the entry it was written for, so a reader that
\* resolves an index between two puts, or after a crash, finds no hole and no
\* other intent's entry.
IndexLeadsToEntry ==
    \A x \in index : \E e \in entries : e.intent = x[2] /\ e.seq = x[3]

\* An intent that got past its first append holds its key: the service only
\* opens a prompt, and only ever spends, under a durable reservation.
ReservedBeforeUse ==
    \A e \in entries :
        e.type \in Later /\ KeyOf[e.intent] # None
            => reserved[KeyOf[e.intent]] = e.intent

\* The journal implements the log the wallet service relies on: what readers
\* find only grows at its end, reservations never change hands, and a resolved
\* append is there to stay, with its reservation.
Log == INSTANCE IdealLog WITH log <- Found, held <- reserved, told <- resolved

ImplementsLog == Log!Spec
=============================================================================
