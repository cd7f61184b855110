--------------------------- MODULE PersonalIndex ---------------------------
(***************************************************************************)
(* The local search index (backend/personal-index.cjs) and the Nostr       *)
(* binding records kept beside it (backend/nostr-binding-store.cjs).       *)
(*                                                                         *)
(* Both are keys of one Hyperbee.  Every mutation runs through one promise *)
(* chain, one at a time; a page takes several batches, a binding several   *)
(* mutations, and the process may die or a write fail between any two.     *)
(* Plain reads go past the chain, and one that fails reads as the default. *)
(*                                                                         *)
(* External: a Hyperbee batch is written whole or not at all.              *)
(***************************************************************************)
EXTENDS Integers, Sequences, FiniteSets, Functions

CONSTANTS Doc,          \* pages, by drive and path
          Term,         \* terms, each with its frequency
          Content,      \* the sets of terms a page may have
          IndexCall, BindCall, RevokeCall,
          MaxDocs,      \* what eviction brings the index down to
          Slack,        \* how many turns more than MaxDocs it takes at most (64)
          OldSeq,       \* the last number an older version gave
          MaxCrashes,   \* bound: how often the process dies
          MayMisread,   \* whether reads may fail
          None

Call == IndexCall \cup BindCall \cup RevokeCall

ASSUME IndexAssumption ==
    /\ MaxDocs \in Nat /\ Slack \in Nat /\ OldSeq \in Nat
    /\ MaxCrashes \in Nat /\ MayMisread \in BOOLEAN
    /\ Content \subseteq SUBSET Term
    /\ None \notin Doc
    /\ None \notin [terms : SUBSET Term, seq : Nat]

VARIABLES
    rec,       \* d!: the record of a page, with its terms and its number, or 0
    posted,    \* t!: the postings
    order,     \* o!: which page was indexed at which number
    seq,       \* meta!seq
    count,     \* meta!count
    binding,   \* meta!nostrBinding: the epoch of the current binding, or 0
    epoch,     \* meta!nostrBindingEpoch
    revoked,   \* meta!nostrRevoke!<epoch>
    chain,     \* the calls whose mutation is queued, the running one first
    pc,        \* where each call stands
    arg,       \* the page of an index call, the epoch of the other two
    turns,     \* how many turns the running eviction has taken
    crashes, misread

docVars == <<rec, posted, order, seq, count>>
bindVars == <<binding, epoch, revoked>>
disk == <<docVars, bindVars>>
vars == <<disk, chain, pc, arg, turns, crashes, misread>>

Indexed == {d \in Doc : rec[d] # None}

\* What the process finds: an index within its bounds.  An older version gave
\* its records no number; so indexing such a page again, or evicting it, left its
\* order key behind, and a key up to OldSeq may name a page that is not indexed,
\* or is indexed under a later key as well.
Init ==
    /\ \E kept \in SUBSET Doc, key \in [1 .. OldSeq -> Doc \cup {None}] :
          \E num \in [kept -> 0 .. OldSeq] :
             /\ IsFiniteSet(kept) /\ Cardinality(kept) <= MaxDocs
             /\ \A d \in kept : \E n \in 1 .. OldSeq :
                   /\ key[n] = d /\ num[d] \in {0, n}
                   /\ \A m \in 1 .. OldSeq : key[m] = d => m <= n
             /\ rec = [d \in Doc |-> IF d \in kept
                                     THEN [terms |-> Term, seq |-> num[d]] ELSE None]
             /\ posted = Term \X kept
             /\ order = {o \in (1 .. OldSeq) \X Doc : key[o[1]] = o[2]}
             /\ seq = OldSeq /\ count = Cardinality(kept)
    /\ binding = 0 /\ epoch = 0 /\ revoked = {}
    /\ chain = <<>> /\ pc = [c \in Call |-> "idle"] /\ arg = [c \in Call |-> None]
    /\ turns = 0 /\ crashes = 0 /\ misread = FALSE

\* A read that fails returns the default (".catch(() => null)").  At most one
\* step of a behaviour has failing reads.
Reads(value, default) ==
    IF MayMisread /\ ~misread THEN {value, default} ELSE {value}

Misreads(wrong) == misread' = (misread \/ wrong)
-----------------------------------------------------------------------------
(* The chain.                                                              *)

Running(c) == chain # <<>> /\ Head(chain) = c

\* _serialize(): behind whatever is queued.
Enqueue(c, step) ==
    /\ chain' = Append(chain, c)
    /\ pc' = [pc EXCEPT ![c] = step]
    /\ UNCHANGED turns

GoesOn(c, step) == pc' = [pc EXCEPT ![c] = step] /\ UNCHANGED <<chain, arg, turns>>

\* The mutation settles and the next one runs, whatever became of this one.
Settles(c, step) ==
    /\ pc' = [pc EXCEPT ![c] = step]
    /\ chain' = Tail(chain)
    /\ arg' = IF c \in IndexCall THEN [arg EXCEPT ![c] = None] ELSE arg
    /\ turns' = 0

\* A put or a flush rejects: the call throws and nothing of it is written.
Fails(c) ==
    /\ Running(c)
    /\ Settles(c, "failed")
    /\ UNCHANGED <<disk, crashes, misread>>
-----------------------------------------------------------------------------
(* The pages.                                                              *)

\* CMD_SEARCH_INDEX of a page the user opened.
IndexDoc(c, d, ts) ==
    /\ c \in IndexCall /\ pc[c] = "idle"
    /\ arg' = [arg EXCEPT ![c] = [doc |-> d, terms |-> ts]]
    /\ Enqueue(c, "look")
    /\ UNCHANGED <<disk, crashes, misread>>

\* Bug: the order key is left behind, as it is for a record without a number.
RemoveSeqless(d, counted) ==
    /\ posted' = {p \in posted : ~(p[2] = d /\ p[1] \in rec[d].terms)}
    /\ rec' = [rec EXCEPT ![d] = None]
    /\ count' = IF counted > 0 THEN counted - 1 ELSE 0
    /\ UNCHANGED order

\* _removeByRecord(): the postings the record names, the record, and the order
\* key of its number.  A record without one (0, which no key has) leaves its key.
RemoveByRecord(d, counted) ==
    /\ posted' = {p \in posted : ~(p[2] = d /\ p[1] \in rec[d].terms)}
    /\ rec' = [rec EXCEPT ![d] = None]
    /\ order' = {o \in order : o[1] # rec[d].seq}
    /\ count' = IF counted > 0 THEN counted - 1 ELSE 0

\* No terms: nothing to do.  A page seen before is taken out first, in a batch
\* of its own.
Look(c) ==
    /\ Running(c) /\ pc[c] = "look"
    /\ LET d == arg[c].doc
       IN IF arg[c].terms = {}
          THEN Settles(c, "done") /\ UNCHANGED <<docVars, misread>>
          ELSE \E found \in Reads(rec[d], None), n \in Reads(count, 0) :
             /\ IF found = None
                THEN UNCHANGED docVars
                ELSE RemoveByRecord(d, n) /\ UNCHANGED seq
             /\ Misreads(found # rec[d] \/ n # count)
             /\ GoesOn(c, "insert")
    /\ UNCHANGED <<bindVars, crashes>>

\* The batch that adds the page: the record is stamped with its number.
Written(c, n) ==
    /\ rec' = [rec EXCEPT ![arg[c].doc] = [terms |-> arg[c].terms, seq |-> n]]
    /\ posted' = posted \cup (arg[c].terms \X {arg[c].doc})
    /\ order' = {o \in order : o[1] # n} \cup {<<n, arg[c].doc>>}
    /\ seq' = n

Insert(c) ==
    /\ Running(c) /\ pc[c] = "insert"
    /\ \E m \in Reads(seq, 0), n \in Reads(count, 0) :
          /\ Written(c, m + 1)
          /\ count' = n + 1
          /\ Misreads(m # seq \/ n # count)
    /\ GoesOn(c, "evict")
    /\ UNCHANGED <<bindVars, crashes>>

\* Bug: the newest page goes.
Newest == CHOOSE o \in order : \A p \in order : o[1] >= p[1]

Oldest == CHOOSE o \in order : \A p \in order : o[1] <= p[1]

\* Bug: eviction calls the public removeDoc(), which waits for the chain.
EvictRelocks(c) == chain = <<>> /\ pc[c] = "evict" /\ UNCHANGED vars

\* One turn of _evictIfNeeded(): the oldest order key loses its page, or is
\* itself removed when its page has no record.
EvictOne(c) ==
    /\ Running(c) /\ pc[c] = "evict"
    /\ count > MaxDocs /\ order # {} /\ turns < MaxDocs + Slack
    /\ turns' = turns + 1
    /\ LET d == Oldest[2]
       IN \E found \in Reads(rec[d], None), n \in Reads(count, 0) :
             /\ IF found = None
                THEN order' = order \ {Oldest} /\ UNCHANGED <<rec, posted, count>>
                ELSE RemoveByRecord(d, n)
             /\ Misreads(found # rec[d] \/ n # count)
    /\ UNCHANGED <<seq, bindVars, chain, pc, arg, crashes>>

\* The index is within its cap, has no key left, or the turns are used up.
EvictEnds(c) ==
    /\ Running(c) /\ pc[c] = "evict"
    /\ \E n \in Reads(count, 0) :
          /\ n <= MaxDocs \/ order = {} \/ turns = MaxDocs + Slack
          /\ Settles(c, IF n <= MaxDocs \/ order = {} THEN "done" ELSE "gaveup")
          /\ Misreads(n # count)
    /\ UNCHANGED <<disk, crashes>>
-----------------------------------------------------------------------------
(* The binding of the Nostr key.                                           *)

\* bind() and revoke() read past the chain.
BindReads(c) ==
    /\ c \in BindCall /\ pc[c] = "idle"
    /\ \E e \in Reads(epoch, 0) :
          /\ arg' = [arg EXCEPT ![c] = e + 1]
          /\ Misreads(e # epoch)
    /\ pc' = [pc EXCEPT ![c] = "read"]
    /\ UNCHANGED <<disk, chain, turns, crashes>>

\* Nothing bound: nothing to revoke.
RevokeReads(c) ==
    /\ c \in RevokeCall /\ pc[c] = "idle"
    /\ \E e \in Reads(binding, 0) :
          /\ arg' = [arg EXCEPT ![c] = e]
          /\ pc' = [pc EXCEPT ![c] = IF e = 0 THEN "done" ELSE "read"]
          /\ Misreads(e # binding)
    /\ UNCHANGED <<disk, chain, turns, crashes>>

\* The next mutation of a call: the put of the binding, then, once that is
\* written, the put of the epoch; or the put of the revocation.  (bind() also
\* keeps the binding under its epoch, in between; nothing reads that here.)
Queues(c) ==
    /\ \/ c \in BindCall /\ pc[c] = "read" /\ Enqueue(c, "binding")
       \/ c \in BindCall /\ pc[c] = "bound" /\ Enqueue(c, "epoch")
       \/ c \in RevokeCall /\ pc[c] = "read" /\ Enqueue(c, "revoke")
    /\ UNCHANGED <<disk, arg, crashes, misread>>

Puts(c) ==
    /\ Running(c)
    /\ \/ /\ pc[c] = "binding" /\ Settles(c, "bound")
          /\ binding' = arg[c] /\ UNCHANGED <<epoch, revoked>>
       \/ /\ pc[c] = "epoch" /\ Settles(c, "done")
          /\ epoch' = arg[c] /\ UNCHANGED <<binding, revoked>>
       \/ /\ pc[c] = "revoke" /\ Settles(c, "done")
          /\ revoked' = revoked \cup {arg[c]} /\ UNCHANGED <<binding, epoch>>
    /\ UNCHANGED <<docVars, crashes, misread>>

\* getState(): revocations are looked for up to the epoch on record.
Status ==
    IF binding = 0 THEN "unverified"
    ELSE IF binding \in revoked /\ binding <= epoch THEN "revoked"
    ELSE "linked"
-----------------------------------------------------------------------------
Settled == {"idle", "done", "gaveup", "failed"}

\* The process ends, or close() ends the store under what is still queued.
Crash ==
    /\ crashes < MaxCrashes
    /\ crashes' = crashes + 1
    /\ chain' = <<>>
    /\ pc' = [c \in Call |-> IF pc[c] \in Settled THEN pc[c] ELSE "failed"]
    /\ arg' = [c \in Call |-> IF c \in IndexCall THEN None ELSE arg[c]]
    /\ turns' = 0
    /\ UNCHANGED <<disk, misread>>

CallStep(c) ==
    Look(c) \/ Insert(c) \/ EvictOne(c) \/ EvictEnds(c)
    \/ Queues(c) \/ Puts(c)

Next ==
    \/ \E c \in Call :
          \/ CallStep(c) \/ Fails(c) \/ BindReads(c) \/ RevokeReads(c)
          \/ \E d \in Doc, ts \in Content : IndexDoc(c, d, ts)
    \/ Crash

Spec == Init /\ [][Next]_vars

\* Reads, puts and batches settle.
FairSpec == Spec /\ WF_vars(\E c \in Call : CallStep(c))
-----------------------------------------------------------------------------
(* Properties.                                                             *)

TypeOK ==
    /\ \A d \in Indexed : rec[d].terms \subseteq Term /\ rec[d].seq \in Nat
    /\ posted \subseteq Term \X Doc
    /\ order \subseteq Nat \X Doc
    /\ seq \in Nat /\ count \in Nat /\ binding \in Nat /\ epoch \in Nat
    /\ turns \in Nat /\ revoked \subseteq Nat
    /\ \A i \in DOMAIN chain : chain[i] \in Call

\* Unless a read failed, whatever write fails and wherever the process dies:
\* the counter is the number of records and the postings are those of the
\* records; every record has an order key eviction can find it by, the one of
\* its number if it has a number; a key given by this version is that of a
\* record; and the cap is exceeded only by a page whose eviction is due, was cut
\* short, or gave up on an older version's keys.
IndexWhole ==
    ~misread =>
        /\ count = Cardinality(Indexed)
        /\ posted = UNION {rec[d].terms \X {d} : d \in Indexed}
        /\ \A d \in Indexed : \E o \in order : o[2] = d /\ rec[d].seq \in {0, o[1]}
        /\ \A o \in order : o[1] > OldSeq => o[2] \in Indexed /\ rec[o[2]].seq = o[1]
        /\ (\A c \in Call : pc[c] \notin {"evict", "gaveup", "failed"}) => count <= MaxDocs

\* The indexing of a page does not end in its own eviction, as long as no read
\* has failed and there is room for a page at all; except that an older
\* version's key of the same page is taken for it (personal-index.cjs:111-119).
FreshPageStays ==
    [][\A c \in IndexCall :
          LET d == arg[c].doc
          IN  Running(c) /\ pc[c] = "evict" /\ d \in Indexed \ Indexed' /\ ~misread' =>
                 MaxDocs = 0 \/ \E o \in order : o[2] = d /\ o[1] < rec[d].seq]_vars

\* Every call settles, also behind one that threw, and although eviction
\* removes pages from inside a mutation of its own.
CallSettles == []<>(\A c \in Call : pc[c] \in Settled)

\* "Root-signed revocation of the current binding's epoch: unlinks"
\* (nostr-binding-store.cjs:102).  It does not when the binding was written and
\* its epoch never was: the revocation is looked for up to the old epoch.
RevokeSticks ==
    \A c \in RevokeCall, b \in BindCall :
        pc[c] = "done" /\ arg[c] = binding /\ pc[b] \in Settled
            => Status # "linked"
=============================================================================
