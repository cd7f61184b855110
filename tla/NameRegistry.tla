---------------------------- MODULE NameRegistry ----------------------------
(***************************************************************************)
(* The multi-writer name registry: an Autobase log of owner-signed         *)
(* operations (claim, rotate, release, revoke), each replica's order of    *)
(* that log, the view the reducer builds along it, and the RPC calls that  *)
(* append operations and report what became of them.                       *)
(*                                                                         *)
(* Autobase is external.  Of it the model keeps what the code relies on:   *)
(* every replica applies some causal order of the nodes it has received,   *)
(* its own always among them when it reads or appends, and when a node     *)
(* arrives that belongs earlier it rewinds the view to a snapshot and      *)
(* applies the rest again (Undo, Apply).  A signature binds an operation   *)
(* to its owner, not to the writer that appends it, so any writer may      *)
(* append a signed operation a second time (Reappend).                     *)
(***************************************************************************)
EXTENDS Integers, Sequences, FiniteSets, Functions

CONSTANTS
    Owner,      \* the root keys that sign
    Name,       \* normalized names
    Skeleton,   \* what names look like once confusable letters are folded
    SkeletonOf, \* [Name -> Skeleton]
    Target,     \* what a name can point to
    Replica,    \* the devices that hold the log, each one a writer
    OwnerOf,    \* [Replica -> Owner]: the identity signing on the device
    Call,       \* the slots for rotations in flight
    None,
    MaxNodes,   \* a bound on the length of the log, rotations in flight included
    MaxMisreads \* a bound on the devices a failing read has led astray

ASSUME ConstantsAssumption ==
    /\ SkeletonOf \in [Name -> Skeleton]
    /\ OwnerOf \in [Replica -> Owner]
    /\ MaxNodes \in Nat
    /\ MaxMisreads \in Nat

VARIABLES
    log,    \* every node appended by anyone: [op, by, sees]
    order,  \* [Replica -> the nodes it has applied, in its order]
    views,  \* [Replica -> the view after each prefix of that order]
    call,   \* [Call -> the rotation that has read a version and not yet appended]
    misread \* history: the devices that wrote something else for a failing read

vars == <<log, order, views, call, misread>>

Node == 1..Len(log)

(***************************************************************************)
(* Operations and views                                                    *)
(***************************************************************************)
Op == [type: {"claim", "rotate"}, name: Name, owner: Owner,
       target: Target, version: Nat \ {0}]
      \cup [type: {"release", "revoke"}, name: Name, owner: Owner]

claimOp(n, o, t) ==
    [type |-> "claim", name |-> n, owner |-> o, target |-> t, version |-> 1]

rotateOp(n, o, t, v) ==
    [type |-> "rotate", name |-> n, owner |-> o, target |-> t, version |-> v]

endOp(type, n, o) == [type |-> type, name |-> n, owner |-> o]

Entry == [owner: Owner, target: Target, version: Nat \ {0},
          status: {"active", "released", "revoked"}]

Reservation == [owner: Owner, names: SUBSET Name]

ASSUME NoneAssumption == None \notin Entry /\ None \notin Reservation

View == [names: [Name -> Entry \cup {None}],
         skels: [Skeleton -> Reservation \cup {None}]]

EmptyView == [names |-> [n \in Name |-> None], skels |-> [s \in Skeleton |-> None]]

(***************************************************************************)
(* Mistakes the reducer could make                                         *)
(***************************************************************************)
\* A release frees the skeleton whoever else looks like it.
SkelDropped(view, op) == [view.skels EXCEPT ![SkeletonOf[op.name]] = None]

\* Ending or rotating a name does not ask whose it is.
OwnsAny(view, op) == view.names[op.name] # None /\ view.names[op.name].status = "active"

\* A claim after a release starts the version again.
VersionReset(view, n) == 0

\* Any reservation of another owner blocks a claim, not only that of its skeleton.
ClaimableAlone(view, op) ==
    /\ view.names[op.name] = None \/ view.names[op.name].status = "released"
    /\ \A s \in Skeleton : view.skels[s] = None \/ view.skels[s].owner = op.owner
(***************************************************************************)
(* decide, and the writes the store makes of its verdict                   *)
(***************************************************************************)
Claimable(view, op) ==
    LET current == view.names[op.name]
        skelRec == view.skels[SkeletonOf[op.name]]
    IN  /\ current = None \/ current.status = "released"
        /\ skelRec = None \/ skelRec.owner = op.owner

Owns(view, op) ==
    LET current == view.names[op.name]
    IN  current # None /\ current.status = "active" /\ current.owner = op.owner

VersionOf(view, n) == IF view.names[n] = None THEN 0 ELSE view.names[n].version

Holders(skelRec) == IF skelRec = None THEN {} ELSE skelRec.names

SkelAdd(view, op) ==
    [view.skels EXCEPT ![SkeletonOf[op.name]] =
        [owner |-> op.owner, names |-> Holders(@) \cup {op.name}]]

SkelRemove(view, op) ==
    [view.skels EXCEPT ![SkeletonOf[op.name]] =
        IF Holders(@) \ {op.name} = {} THEN None
        ELSE [owner |-> @.owner, names |-> Holders(@) \ {op.name}]]

Claimed(view, op) ==
    [names |-> [view.names EXCEPT ![op.name] =
                   [owner |-> op.owner, target |-> op.target,
                    version |-> VersionOf(view, op.name) + 1, status |-> "active"]],
     skels |-> SkelAdd(view, op)]

Rotated(view, op) ==
    [view EXCEPT !.names[op.name].target = op.target,
                 !.names[op.name].version = op.version]

Released(view, op) ==
    [names |-> [view.names EXCEPT ![op.name].status = "released"],
     skels |-> SkelRemove(view, op)]

Revoked(view, op) == [view EXCEPT !.names[op.name].status = "revoked"]

Applied(view, op) ==
    CASE op.type = "claim" /\ Claimable(view, op) -> Claimed(view, op)
      [] /\ op.type = "rotate" /\ Owns(view, op)
         /\ op.version > VersionOf(view, op.name) -> Rotated(view, op)
      [] op.type = "release" /\ Owns(view, op) -> Released(view, op)
      [] op.type = "revoke" /\ Owns(view, op) -> Revoked(view, op)
      [] OTHER -> view

\* What the reducer reads when a get of its view fails: no record.
Seen(view, op, lost) ==
    [names |-> IF "name" \in lost THEN [view.names EXCEPT ![op.name] = None]
               ELSE view.names,
     skels |-> IF "skel" \in lost
               THEN [view.skels EXCEPT ![SkeletonOf[op.name]] = None]
               ELSE view.skels]

\* It decides on what it has read and puts only the records it changes.
Reduced(view, op, lost) ==
    LET seen == Seen(view, op, lost)
        done == Applied(seen, op)
        s    == SkeletonOf[op.name]
    IN  [names |-> IF done.names = seen.names THEN view.names
                   ELSE [view.names EXCEPT ![op.name] = done.names[op.name]],
         skels |-> IF done.skels = seen.skels THEN view.skels
                   ELSE [view.skels EXCEPT ![s] = done.skels[s]]]

(***************************************************************************)
(* The log                                                                 *)
(***************************************************************************)
InOrder(r) == {order[r][i] : i \in DOMAIN order[r]}

UpToDate(r) == \A i \in Node : log[i].by = r => i \in InOrder(r)

Current(r) == views[r][Len(views[r])]

\* The reducer runs on r's view; either of its reads may fail.
Reduces(r, op) ==
    \E view \in {Reduced(Current(r), op, lost) : lost \in SUBSET {"name", "skel"}} :
        LET wrong == view # Applied(Current(r), op)
        IN  /\ wrong => Cardinality(misread) < MaxMisreads
            /\ views' = [views EXCEPT ![r] = Append(@, view)]
            /\ misread' = IF wrong THEN misread \cup {r} ELSE misread

\* The log has room for one more node beside those of the rotations in flight.
Room == Len(log) + Cardinality({c \in Call : call[c] # None}) < MaxNodes

\* base.append: the node refers to everything its writer has, and is the last
\* of the order there.
Added(r, op) ==
    /\ Len(log) < MaxNodes /\ UpToDate(r)
    /\ log' = Append(log, [op |-> op, by |-> r, sees |-> InOrder(r)])
    /\ order' = [order EXCEPT ![r] = Append(@, Len(log) + 1)]
    /\ Reduces(r, op)

Apply(r, i) ==
    /\ i \notin InOrder(r) /\ log[i].sees \subseteq InOrder(r)
    /\ order' = [order EXCEPT ![r] = Append(@, i)]
    /\ Reduces(r, log[i].op)
    /\ UNCHANGED <<log, call>>

\* One step of a rewind: some node not applied yet belongs before the last one.
Undo(r) ==
    /\ order[r] # <<>>
    /\ \E i \in Node \ InOrder(r) : order[r][Len(order[r])] \notin log[i].sees
    /\ order' = [order EXCEPT ![r] = SubSeq(@, 1, Len(@) - 1)]
    /\ views' = [views EXCEPT ![r] = SubSeq(@, 1, Len(@) - 1)]
    /\ UNCHANGED <<log, call, misread>>

Reappend(r, i) ==
    /\ Room /\ i \in InOrder(r) /\ Added(r, log[i].op)
    /\ UNCHANGED call

(***************************************************************************)
(* The RPC handlers                                                        *)
(***************************************************************************)
\* What reg.resolve answers: the active entry, or null.
Resolved(r, n) ==
    LET e == Current(r).names[n]
    IN  IF e # None /\ e.status = "active" THEN e ELSE None

\* The handler appends and then answers with what the name resolves to; it
\* throws if that is nothing.
Claim(r, n, t) ==
    /\ Room /\ Added(r, claimOp(n, OwnerOf[r], t))
    /\ UNCHANGED call

\* The handler resolves the name first and keeps the version it read.
Rotate(c, r, n, t) ==
    /\ Room /\ call[c] = None /\ UpToDate(r)
    /\ Resolved(r, n) # None /\ Resolved(r, n).owner = OwnerOf[r]
    /\ call' = [call EXCEPT ![c] = [at |-> r, name |-> n, target |-> t,
                                    version |-> Resolved(r, n).version + 1]]
    /\ UNCHANGED <<log, order, views, misread>>

RotateAppends(c) ==
    /\ call[c] # None
    /\ LET q == call[c]
       IN  Added(q.at, rotateOp(q.name, OwnerOf[q.at], q.target, q.version))
    /\ call' = [call EXCEPT ![c] = None]

\* Neither release nor revoke looks at the view, before or after.
End(r, type, n) ==
    /\ Room /\ Added(r, endOp(type, n, OwnerOf[r]))
    /\ UNCHANGED call

Init ==
    /\ log = <<>>
    /\ order = [r \in Replica |-> <<>>]
    /\ views = [r \in Replica |-> <<EmptyView>>]
    /\ call = [c \in Call |-> None]
    /\ misread = {}

Next ==
    \/ \E r \in Replica, i \in Node : Apply(r, i) \/ Reappend(r, i)
    \/ \E r \in Replica : Undo(r)
    \/ \E r \in Replica, n \in Name, t \in Target :
          Claim(r, n, t) \/ \E c \in Call : Rotate(c, r, n, t)
    \/ \E r \in Replica, n \in Name, type \in {"release", "revoke"} : End(r, type, n)
    \/ \E c \in Call : RotateAppends(c)

Spec == Init /\ [][Next]_vars

(***************************************************************************)
(* Properties                                                              *)
(***************************************************************************)
TypeOK ==
    /\ log \in Seq([op: Op, by: Replica, sees: SUBSET Node])
    /\ order \in [Replica -> Seq(Node)]
    /\ views \in [Replica -> Seq(View)]
    /\ \A r \in Replica : Len(views[r]) = Len(order[r]) + 1
    /\ call \in [Call -> [at: Replica, name: Name, target: Target, version: Nat \ {0}]
                          \cup {None}]
    /\ misread \in SUBSET Replica

\* The replicas whose views no failing read has falsified.
Sound == Replica \ misread

\* The names that keep a skeleton blocked.
Holding(view, s) ==
    {n \in Name : /\ SkeletonOf[n] = s /\ view.names[n] # None
                  /\ view.names[n].status # "released"}

Mirrored(view, s) ==
    LET held == Holding(view, s)
        rec  == view.skels[s]
    IN  IF held = {} THEN rec = None
        ELSE /\ rec # None /\ rec.names = held
             /\ \A n \in held : view.names[n].owner = rec.owner

\* "Present <=> blocked": in every snapshot of a replica that no failing read
\* has led astray, and so after any rewind, a skeleton is reserved exactly when
\* names that look like it are active or tombstoned; the record lists all of
\* them, and they have one owner (name-registry-apply.cjs:48-52).  Releasing one
\* look-alike must not free the skeleton another one still needs.
SkeletonsMirrorNames ==
    \A r \in Sound : \A i \in DOMAIN views[r] :
        \A s \in Skeleton : Mirrored(views[r][i], s)

OpsOf(r) == [i \in DOMAIN order[r] |-> log[order[r][i]].op]

SignedBy(op, types, n, o) == op.type \in types /\ op.name = n /\ op.owner = o

\* Whatever the order, a claim of an active name's holder stands in it with no
\* release or revocation by the holder behind it, and the target stands at or
\* behind that claim: no operation of another owner, and none that stands
\* before the claim, shows through (name-registry-apply.cjs:53-84).  A place in
\* the order is all that counts: an old claim appended once more behind its
\* release is a claim again, and brings the ended holder back.
HeldByClaim ==
    \A r \in Sound, n \in Name :
        LET e   == Current(r).names[n]
            ops == OpsOf(r)
        IN  e # None /\ e.status = "active" =>
              \E i \in DOMAIN ops :
                 /\ SignedBy(ops[i], {"claim"}, n, e.owner)
                 /\ \A j \in DOMAIN ops :
                       j > i => ~SignedBy(ops[j], {"release", "revoke"}, n, e.owner)
                 /\ \E k \in DOMAIN ops :
                       /\ k >= i /\ SignedBy(ops[k], {"claim", "rotate"}, n, e.owner)
                       /\ ops[k].target = e.target

\* Along the order of a replica that has not misread, a name's version only
\* climbs, through releases and claims by other owners too; two entries of one
\* version agree on owner and target; and a tombstone is the last entry a name
\* has (name-registry-apply.cjs:61-64, :80-83).
NamesOnlyMoveForward ==
    \A r \in Sound, n \in Name : \A i, j \in DOMAIN views[r] :
        LET e == views[r][i].names[n]
            f == views[r][j].names[n]
        IN  i < j /\ e # None =>
              /\ f # None /\ f.version >= e.version
              /\ f.version = e.version => f.owner = e.owner /\ f.target = e.target
              /\ e.status = "revoked" => f = e

About(r, s) == {i \in DOMAIN order[r] : SkeletonOf[OpsOf(r)[i].name] = s}

\* Two replicas have applied the same operations on a skeleton in one order.
SameOn(r, q, s) ==
    \E f \in Surjection(About(r, s), About(q, s)) :
        \A i \in About(r, s) :
            /\ OpsOf(r)[i] = OpsOf(q)[f[i]]
            /\ \A j \in About(r, s) : i < j => f[i] < f[j]

AgreeOn(r, q, s) ==
    /\ Current(r).skels[s] = Current(q).skels[s]
    /\ \A n \in Name : SkeletonOf[n] = s =>
           Current(r).names[n] = Current(q).names[n]

\* Names that look different cannot disturb each other: two replicas that have
\* not misread and that disagree about a skeleton have not applied the same
\* operations on it in the same order, however they order the rest of the log
\* (name-registry-store.cjs:18-43).
AgreePerSkeleton ==
    \A r, q \in Sound : \A s \in Skeleton :
        ~AgreeOn(r, q, s) => ~SameOn(r, q, s)

=============================================================================
