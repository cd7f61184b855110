------------------------- MODULE NameRegistryProofs -------------------------
(***************************************************************************)
(* Theorems about the name registry, for any number of owners, names,      *)
(* look-alikes, replicas, rewinds and re-appended operations.              *)
(***************************************************************************)
EXTENDS NameRegistry, SequenceTheorems, WellFoundedInduction, TLAPS

(***************************************************************************)
(* The reducer                                                             *)
(***************************************************************************)
\* The verdicts of decide, one by one.
Rotates(view, op) == /\ op.type = "rotate" /\ Owns(view, op)
                     /\ op.version > VersionOf(view, op.name)

LEMMA AppliedCases ==
    ASSUME NEW view, NEW op
    PROVE  \/ op.type = "claim" /\ Claimable(view, op) /\ Applied(view, op) = Claimed(view, op)
           \/ Rotates(view, op) /\ Applied(view, op) = Rotated(view, op)
           \/ op.type = "release" /\ Owns(view, op) /\ Applied(view, op) = Released(view, op)
           \/ op.type = "revoke" /\ Owns(view, op) /\ Applied(view, op) = Revoked(view, op)
           \/ Applied(view, op) = view
  <1>1. CASE op.type = "claim"
    BY <1>1 DEF Applied
  <1>2. CASE op.type = "rotate"
    BY <1>2 DEF Applied, Rotates
  <1>3. CASE op.type = "release"
    BY <1>3 DEF Applied
  <1>4. CASE op.type = "revoke"
    BY <1>4 DEF Applied
  <1>5. CASE op.type \notin {"claim", "rotate", "release", "revoke"}
    BY <1>5 DEF Applied
  <1> QED  BY <1>1, <1>2, <1>3, <1>4, <1>5

LEMMA AppliedType ==
    ASSUME NEW view \in View, NEW op \in Op
    PROVE  Applied(view, op) \in View
  <1> USE ConstantsAssumption
  <1> DEFINE n == op.name
             s == SkeletonOf[n]
  <1>0. n \in Name /\ op.owner \in Owner /\ s \in Skeleton
    BY DEF Op
  <1>1. view.names[n] \in Entry \cup {None} /\ view.skels[s] \in Reservation \cup {None}
    BY <1>0 DEF View
  <1>2. CASE op.type = "claim" /\ Applied(view, op) = Claimed(view, op)
    <2>1. VersionOf(view, n) + 1 \in Nat \ {0}
      BY <1>1 DEF VersionOf, Entry
    <2>2. op.target \in Target
      BY <1>2 DEF Op
    <2> DEFINE e == [owner |-> op.owner, target |-> op.target,
                     version |-> VersionOf(view, n) + 1, status |-> "active"]
    <2>3. e \in Entry
      BY <1>0, <2>1, <2>2 DEF Entry
    <2>6. [view.names EXCEPT ![n] = e] \in [Name -> Entry \cup {None}]
      <3> HIDE DEF e
      <3> QED  BY <2>3 DEF View
    <2>4. Holders(view.skels[s]) \cup {n} \in SUBSET Name
      BY <1>0, <1>1 DEF Holders, Reservation
    <2>5. SkelAdd(view, op) \in [Skeleton -> Reservation \cup {None}]
      BY <1>0, <2>4 DEF SkelAdd, View, Reservation
    <2> QED  
      <3>1. Applied(view, op) = [names |-> [view.names EXCEPT ![n] = e],
                                 skels |-> SkelAdd(view, op)]
        BY <1>2 DEF Claimed
      <3> HIDE DEF e
      <3> QED  BY <3>1, <2>5, <2>6 DEF View
  <1>3. CASE Rotates(view, op) /\ Applied(view, op) = Rotated(view, op)
    <2> DEFINE e == [view.names[n] EXCEPT !.target = op.target, !.version = op.version]
    <2>1. view.names[n] \in Entry /\ op.target \in Target /\ op.version \in Nat \ {0}
      BY <1>0, <1>1, <1>3 DEF Rotates, Owns, Op
    <2>2. e \in Entry
      BY <2>1 DEF Entry
    <2>3. Applied(view, op) = [view EXCEPT !.names = [@ EXCEPT ![n] = e]]
      BY <1>0, <1>3 DEF Rotated, View
    <2> HIDE DEF e
    <2> QED  BY <1>0, <2>2, <2>3 DEF View
  <1>4. CASE Owns(view, op) /\ Applied(view, op) = Released(view, op)
    <2> DEFINE e == [view.names[n] EXCEPT !.status = "released"]
               sk == SkeletonOf[op.name]
               left == Holders(view.skels[sk]) \ {op.name}
               res == IF left = {} THEN None
                      ELSE [owner |-> view.skels[sk].owner, names |-> left]
    <2>1. e \in Entry
      BY <1>0, <1>1, <1>4 DEF Owns, View, Entry
    <2>2. sk \in Skeleton /\ view.skels[sk] \in Reservation \cup {None}
      BY <1>0, <1>1 DEF View
    <2>3. res \in Reservation \cup {None}
      BY <2>2 DEF Reservation, Holders
    <2>4. Applied(view, op) = [names |-> [view.names EXCEPT ![n] = e],
                               skels |-> [view.skels EXCEPT ![sk] = res]]
      BY <1>4 DEF Released, SkelRemove
    <2> HIDE DEF e, res, sk
    <2> QED  BY <1>0, <2>1, <2>2, <2>3, <2>4 DEF View
  <1>5. CASE Owns(view, op) /\ Applied(view, op) = Revoked(view, op)
    BY <1>0, <1>1, <1>5 DEF Revoked, Owns, View, Entry
  <1> QED  BY AppliedCases, <1>2, <1>3, <1>4, <1>5

\* Reads that fail leave a view a view.
LEMMA ReducedType ==
    ASSUME NEW view \in View, NEW op \in Op, NEW lost
    PROVE  Reduced(view, op, lost) \in View
  <1> USE ConstantsAssumption
  <1> DEFINE n == op.name
             s == SkeletonOf[op.name]
             seen == Seen(view, op, lost)
             done == Applied(seen, op)
  <1>1. n \in Name /\ s \in Skeleton
    BY DEF Op
  <1>2. seen \in View
    BY DEF Seen, View
  <1>3. done \in View
    BY <1>2, AppliedType
  <1> HIDE DEF seen, done
  <1>4. done.names[n] \in Entry \cup {None} /\ done.skels[s] \in Reservation \cup {None}
    BY <1>1, <1>3 DEF View
  <1> DEFINE e == done.names[n]
             k == done.skels[s]
             names == [view.names EXCEPT ![n] = e]
             skels == [view.skels EXCEPT ![s] = k]
  <1>5. names \in [Name -> Entry \cup {None}] /\ skels \in [Skeleton -> Reservation \cup {None}]
    <2> HIDE DEF e, k, n, s
    <2> QED  BY <1>1, <1>4 DEF View, e, k
  <1>6. Reduced(view, op, lost)
          = [names |-> IF done.names = seen.names THEN view.names ELSE names,
             skels |-> IF done.skels = seen.skels THEN view.skels ELSE skels]
    BY DEF Reduced, seen, done
  <1> HIDE DEF names, skels, n, s, e, k
  <1> QED  BY <1>5, <1>6 DEF View

\* What an operation does to the entry of its name, e before and f after, and
\* to the reservations.
Effect(view, op, e, f, skels) ==
    \/ /\ Claimable(view, op)
       /\ f \in Entry /\ f.owner = op.owner /\ f.status = "active"
       /\ f.version = VersionOf(view, op.name) + 1
       /\ skels = SkelAdd(view, op)
    \/ /\ Owns(view, op)
       /\ f \in Entry /\ f.owner = e.owner /\ f.status = "active"
       /\ f.version > e.version
       /\ skels = view.skels
    \/ /\ Owns(view, op)
       /\ f = [e EXCEPT !.status = "released"]
       /\ skels = SkelRemove(view, op)
    \/ /\ Owns(view, op)
       /\ f = [e EXCEPT !.status = "revoked"]
       /\ skels = view.skels
    \/ f = e /\ skels = view.skels

\* It leaves every other name alone.
LEMMA AppliedEffect ==
    ASSUME NEW view \in View, NEW op \in Op
    PROVE  LET after == Applied(view, op)
           IN  /\ \A m \in Name \ {op.name} : after.names[m] = view.names[m]
               /\ Effect(view, op, view.names[op.name], after.names[op.name], after.skels)
  <1> DEFINE after == Applied(view, op)
             e == view.names[op.name]
             f == after.names[op.name]
  <1> USE ConstantsAssumption
  <1> DEFINE n == op.name
  <1>0. n \in Name /\ DOMAIN view.names = Name
    BY DEF Op, View
  <1>1. after \in View /\ f \in Entry \cup {None}
    BY <1>0, AppliedType DEF View
  <1>2. CASE op.type = "claim" /\ Claimable(view, op) /\ after = Claimed(view, op)
    <2> DEFINE g == [owner |-> op.owner, target |-> op.target,
                     version |-> VersionOf(view, n) + 1, status |-> "active"]
    <2>1. op.owner \in Owner /\ op.target \in Target
      BY <1>2 DEF Op
    <2>2. VersionOf(view, n) + 1 \in Nat \ {0}
      BY <1>0 DEF VersionOf, View, Entry
    <2>3. g \in Entry
      BY <2>1, <2>2 DEF Entry
    <2>4. after = [names |-> [view.names EXCEPT ![n] = g], skels |-> SkelAdd(view, op)]
      BY <1>2 DEF Claimed
    <2>5. f = g /\ \A m \in Name \ {n} : after.names[m] = view.names[m]
      <3> HIDE DEF g
      <3> QED  BY <1>0, <2>4
    <2>6. after.skels = SkelAdd(view, op)
      BY <2>4
    <2>7. Effect(view, op, e, f, after.skels)
      BY <1>2, <2>3, <2>5, <2>6 DEF Effect
    <2> QED  BY <2>5, <2>7
  <1>3. CASE Rotates(view, op) /\ after = Rotated(view, op)
    <2> DEFINE g == [e EXCEPT !.target = op.target, !.version = op.version]
    <2>1. e \in Entry /\ op.target \in Target /\ op.version \in Nat \ {0}
          /\ op.version > e.version /\ e.status = "active"
      BY <1>0, <1>3 DEF Rotates, Owns, Op, VersionOf, View
    <2>2. after = [view EXCEPT !.names = [@ EXCEPT ![n] = g]]
      BY <1>0, <1>3 DEF Rotated, View
    <2>3. g \in Entry /\ g.owner = e.owner /\ g.status = "active" /\ g.version > e.version
      BY <2>1 DEF Entry
    <2>4. f = g /\ after.skels = view.skels
          /\ \A m \in Name \ {n} : after.names[m] = view.names[m]
      <3> HIDE DEF g
      <3> QED  BY <1>0, <2>2 DEF View
    <2> QED  BY <1>3, <2>3, <2>4 DEF Rotates, Effect
  <1>4. CASE Owns(view, op) /\ after = Released(view, op)
    BY <1>0, <1>4 DEF Released, View, Effect
  <1>5. CASE Owns(view, op) /\ after = Revoked(view, op)
    BY <1>0, <1>5 DEF Revoked, View, Effect
  <1>6. CASE after = view
    BY <1>6 DEF Effect
  <1> QED  BY AppliedCases, <1>2, <1>3, <1>4, <1>5, <1>6

\* The reducer keeps the reservations in step with the names.
LEMMA AppliedMirrors ==
    ASSUME NEW view \in View, NEW op \in Op,
           \A s \in Skeleton : Mirrored(view, s)
    PROVE  \A s \in Skeleton : Mirrored(Applied(view, op), s)
  <1> USE ConstantsAssumption
  <1> DEFINE n == op.name
             k == SkeletonOf[n]
             after == Applied(view, op)
             e == view.names[n]
             f == after.names[n]
  <1>0. n \in Name /\ k \in Skeleton /\ op.owner \in Owner
    BY DEF Op
  <1>1. \A m \in Name \ {n} : after.names[m] = view.names[m]
    BY AppliedEffect
  <1>2. \A s \in Skeleton \ {k} : Holding(after, s) = Holding(view, s)
    BY <1>0, <1>1 DEF Holding
  <1>3. Holding(after, k) \ {n} = Holding(view, k) \ {n}
    BY <1>0, <1>1 DEF Holding
  <1>4. n \in Holding(view, k) <=> e # None /\ e.status # "released"
    BY <1>0 DEF Holding
  <1>5. n \in Holding(after, k) <=> f # None /\ f.status # "released"
    BY <1>0 DEF Holding
  <1>6. Mirrored(view, k) /\ e \in Entry \cup {None} /\ DOMAIN view.skels = Skeleton
    BY <1>0 DEF View
  <1>7. SUFFICES /\ \A s \in Skeleton \ {k} : after.skels[s] = view.skels[s]
                 /\ Mirrored(after, k)
    BY <1>1, <1>2 DEF Mirrored, Holding
  <1>8. CASE /\ Claimable(view, op)
             /\ f \in Entry /\ f.owner = op.owner /\ f.status = "active"
             /\ after.skels = SkelAdd(view, op)
    <2> DEFINE r == [owner |-> op.owner, names |-> Holders(view.skels[k]) \cup {n}]
    <2>1. after.skels = [view.skels EXCEPT ![k] = r]
      BY <1>8 DEF SkelAdd
    <2>2. after.skels[k] = r /\ \A s \in Skeleton \ {k} : after.skels[s] = view.skels[s]
      BY <1>0, <1>6, <2>1
    <2>3. n \notin Holding(view, k) /\ n \in Holding(after, k)
      <3>1. e = None \/ e.status = "released"
        BY <1>8 DEF Claimable
      <3>2. f # None /\ f.status # "released"
        BY <1>8, NoneAssumption
      <3> QED  BY <1>4, <1>5, <3>1, <3>2
    <2>4. Holders(view.skels[k]) = Holding(view, k)
      BY <1>6 DEF Mirrored, Holders
    <2>5. \A m \in Holding(view, k) : view.names[m].owner = op.owner
      BY <1>6, <1>8 DEF Mirrored, Claimable
    <2>6. \A m \in Holding(after, k) : after.names[m].owner = op.owner
      BY <1>1, <1>3, <1>8, <2>5 DEF Holding
    <2>8. r \in Reservation
      BY <1>0, <1>6, <2>4 DEF Reservation, Holding
    <2>7. after.skels[k] # None
      BY <2>2, <2>8, NoneAssumption
    <2>9. Holding(after, k) = Holding(view, k) \cup {n}
      BY <1>3, <2>3
    <2> QED  BY <2>2, <2>4, <2>6, <2>7, <2>9 DEF Mirrored
  <1>9. CASE /\ Owns(view, op)
             /\ f \in Entry /\ f.owner = e.owner /\ f.status = "active"
             /\ after.skels = view.skels
    <2>1. n \in Holding(view, k) /\ n \in Holding(after, k)
      <3>1. e # None /\ e.status # "released"
        BY <1>9 DEF Owns
      <3>2. f # None /\ f.status # "released"
        BY <1>9, NoneAssumption
      <3> QED  BY <1>4, <1>5, <3>1, <3>2
    <2>2. Holding(after, k) = Holding(view, k)
      BY <1>3, <2>1
    <2>3. \A m \in Holding(after, k) : after.names[m].owner = view.names[m].owner
      BY <1>1, <1>9 DEF Holding
    <2> QED  BY <1>6, <1>9, <2>2, <2>3 DEF Mirrored
  <1>10. CASE /\ Owns(view, op)
              /\ f = [e EXCEPT !.status = "released"]
              /\ after.skels = SkelRemove(view, op)
    <2> DEFINE rest == Holders(view.skels[k]) \ {n}
    <2>1. after.skels = [view.skels EXCEPT ![k] =
                            IF rest = {} THEN None
                            ELSE [owner |-> view.skels[k].owner, names |-> rest]]
      BY <1>10 DEF SkelRemove
    <2>2. /\ after.skels[k] = IF rest = {} THEN None
                              ELSE [owner |-> view.skels[k].owner, names |-> rest]
          /\ \A s \in Skeleton \ {k} : after.skels[s] = view.skels[s]
      BY <1>0, <1>6, <2>1
    <2>3. n \in Holding(view, k) /\ n \notin Holding(after, k)
      BY <1>4, <1>5, <1>6, <1>10 DEF Owns, Entry
    <2>4. Holders(view.skels[k]) = Holding(view, k)
      BY <1>6 DEF Mirrored, Holders
    <2>5. Holding(after, k) = rest
      BY <1>3, <2>3, <2>4
    <2>6. \A m \in rest : after.names[m].owner = view.skels[k].owner
      BY <1>1, <1>3, <1>6, <2>3, <2>4 DEF Mirrored, Holding
    <2>8. view.skels[k] # None /\ view.skels[k] \in Reservation
      BY <1>0, <1>6, <2>3 DEF Mirrored, View
    <2>7. rest # {} => after.skels[k] # None
      <3>1. [owner |-> view.skels[k].owner, names |-> rest] \in Reservation
        BY <2>4, <2>8 DEF Reservation, Holding
      <3> QED  BY <2>2, <3>1, NoneAssumption
    <2>9. after.skels[k] = IF rest = {} THEN None
                           ELSE [owner |-> view.skels[k].owner, names |-> rest]
      BY <2>2
    <2> HIDE DEF rest, n, k, after
    <2>10. CASE rest = {}
      BY <2>2, <2>5, <2>9, <2>10 DEF Mirrored
    <2>11. CASE rest # {}
      BY <2>2, <2>5, <2>6, <2>7, <2>9, <2>11 DEF Mirrored
    <2> QED  BY <2>10, <2>11
  <1>11. CASE /\ Owns(view, op)
              /\ f = [e EXCEPT !.status = "revoked"]
              /\ after.skels = view.skels
    <2>0. e \in Entry
      BY <1>6, <1>11 DEF Owns
    <2>1. f.status = "revoked" /\ f.owner = e.owner /\ f # None
      <3>1. f \in Entry /\ f.status = "revoked" /\ f.owner = e.owner
        BY <2>0, <1>11 DEF Entry
      <3> QED  BY <3>1, NoneAssumption
    <2>2. n \in Holding(view, k) /\ n \in Holding(after, k)
      BY <1>4, <1>5, <1>11, <2>1 DEF Owns
    <2>3. Holding(after, k) = Holding(view, k)
      BY <1>3, <2>2
    <2>4. \A m \in Holding(after, k) : after.names[m].owner = view.names[m].owner
      BY <1>1, <2>1 DEF Holding
    <2> QED  BY <1>6, <1>11, <2>3, <2>4 DEF Mirrored
  <1>12. CASE f = e /\ after.skels = view.skels
    <2>1. Holding(after, k) = Holding(view, k)
      BY <1>3, <1>4, <1>5, <1>12
    <2>2. \A m \in Holding(after, k) : after.names[m] = view.names[m]
      BY <1>1, <1>12 DEF Holding
    <2> QED  BY <1>6, <1>12, <2>1, <2>2 DEF Mirrored
  <1>13. \/ /\ Claimable(view, op)
            /\ f \in Entry /\ f.owner = op.owner /\ f.status = "active"
            /\ after.skels = SkelAdd(view, op)
         \/ /\ Owns(view, op)
            /\ f \in Entry /\ f.owner = e.owner /\ f.status = "active"
            /\ after.skels = view.skels
         \/ /\ Owns(view, op)
            /\ f = [e EXCEPT !.status = "released"]
            /\ after.skels = SkelRemove(view, op)
         \/ /\ Owns(view, op)
            /\ f = [e EXCEPT !.status = "revoked"]
            /\ after.skels = view.skels
         \/ f = e /\ after.skels = view.skels
    <2>1. Effect(view, op, e, f, after.skels)
      BY AppliedEffect
    <2> HIDE DEF n, k, after, e, f
    <2> QED  BY <2>1 DEF Effect
  <1> HIDE DEF n, k, after, e, f
  <1> QED  BY <1>8, <1>9, <1>10, <1>11, <1>12, <1>13

\* One entry of a name and a later one.
Forward(e, f) ==
    e # None =>
      /\ f # None /\ f.version >= e.version
      /\ f.version = e.version => f.owner = e.owner /\ f.target = e.target
      /\ e.status = "revoked" => f = e

LEMMA ForwardComposes ==
    ASSUME NEW e \in Entry \cup {None}, NEW f \in Entry \cup {None},
           NEW g \in Entry \cup {None}, Forward(e, f), Forward(f, g)
    PROVE  Forward(e, g)
  BY DEF Forward, Entry

LEMMA AppliedForward ==
    ASSUME NEW view \in View, NEW op \in Op, NEW m \in Name
    PROVE  Forward(view.names[m], Applied(view, op).names[m])
  <1> DEFINE e == view.names[op.name]
             f == Applied(view, op).names[op.name]
  <1>0. op.name \in Name /\ \A n \in Name : view.names[n] \in Entry \cup {None}
    BY DEF Op, View
  <1>1. CASE m # op.name
    <2>1. Applied(view, op).names[m] = view.names[m]
      BY <1>1, AppliedEffect
    <2> QED  BY <1>0, <2>1 DEF Forward, Entry
  <1>2. CASE m = op.name
    <2>0. e \in Entry \cup {None}
      BY <1>0
    <2> SUFFICES Forward(e, f)
      BY <1>2
    <2>1. CASE Claimable(view, op) /\ f \in Entry /\ f.version = VersionOf(view, op.name) + 1
      <3>1. f # None
        BY <2>1, NoneAssumption
      <3>2. e # None => f.version = e.version + 1 /\ e.status = "released"
        BY <2>1 DEF Claimable, VersionOf
      <3> HIDE DEF e, f
      <3> QED  BY <2>0, <3>1, <3>2 DEF Forward, Entry
    <2>2. CASE Owns(view, op) /\ f \in Entry /\ f.version > e.version
      <3>1. e \in Entry /\ e.status = "active" /\ f # None
        BY <2>0, <2>2, NoneAssumption DEF Owns
      <3>2. f.version \in Nat /\ e.version \in Nat
        BY <2>2, <3>1 DEF Entry
      <3> HIDE DEF e, f
      <3> QED  BY <2>2, <3>1, <3>2 DEF Forward
    <2>3. CASE Owns(view, op) /\ \E st \in {"released", "revoked"} : f = [e EXCEPT !.status = st]
      <3>1. e \in Entry /\ e.status = "active"
        BY <2>0, <2>3 DEF Owns
      <3>2. /\ f \in Entry /\ f.version = e.version
            /\ f.owner = e.owner /\ f.target = e.target
        <4> HIDE DEF e, f
        <4> QED  BY <2>3, <3>1 DEF Entry
      <3>3. f # None /\ e.version \in Nat
        BY <3>1, <3>2, NoneAssumption DEF Entry
      <3> HIDE DEF e, f
      <3> QED  BY <3>1, <3>2, <3>3 DEF Forward
    <2>4. CASE f = e
      <3> HIDE DEF e, f
      <3> QED  BY <2>0, <2>4 DEF Forward, Entry
    <2>5. \/ Claimable(view, op) /\ f \in Entry /\ f.version = VersionOf(view, op.name) + 1
          \/ Owns(view, op) /\ f \in Entry /\ f.version > e.version
          \/ Owns(view, op) /\ \E st \in {"released", "revoked"} : f = [e EXCEPT !.status = st]
          \/ f = e
      <3>1. Effect(view, op, e, f, Applied(view, op).skels)
        BY AppliedEffect
      <3> HIDE DEF e, f
      <3> QED  BY <3>1 DEF Effect
    <2> QED  BY <2>1, <2>2, <2>3, <2>4, <2>5
  <1> QED  BY <1>1, <1>2

(***************************************************************************)
(* The views along one order                                               *)
(***************************************************************************)
Good(w) ==
    /\ w \in Seq(View) /\ Len(w) > 0
    /\ \A i \in 1..Len(w) : \A s \in Skeleton : Mirrored(w[i], s)
    /\ \A i, j \in 1..Len(w) : i < j =>
          \A n \in Name : Forward(w[i].names[n], w[j].names[n])

\* Applying one more operation.
LEMMA GoodAppend ==
    ASSUME NEW w, Good(w), NEW op \in Op
    PROVE  Good(Append(w, Applied(w[Len(w)], op)))
  <1> DEFINE last == w[Len(w)]
             next == Applied(last, op)
             u == Append(w, next)
  <1>1. w \in Seq(View) /\ Len(w) \in Nat /\ Len(w) > 0
    BY DEF Good
  <1>2. last \in View /\ \A s \in Skeleton : Mirrored(last, s)
    BY <1>1 DEF Good
  <1>3. next \in View /\ \A s \in Skeleton : Mirrored(next, s)
    BY <1>2, AppliedType, AppliedMirrors
  <1>4. /\ u \in Seq(View) /\ Len(u) = Len(w) + 1 /\ u[Len(w) + 1] = next
        /\ \A i \in 1..Len(w) : u[i] = w[i]
    <2> HIDE DEF next
    <2> QED  BY <1>1, <1>3
  <1>5. ASSUME NEW i \in 1..Len(u), NEW s \in Skeleton
        PROVE  Mirrored(u[i], s)
    <2>1. CASE i \in 1..Len(w)
      BY <1>4, <2>1 DEF Good
    <2>2. CASE i = Len(w) + 1
      BY <1>3, <1>4, <2>2
    <2> QED  BY <1>1, <1>4, <2>1, <2>2
  <1>6. ASSUME NEW i \in 1..Len(w), NEW n \in Name
        PROVE  Forward(w[i].names[n], next.names[n])
    <2>1. Forward(last.names[n], next.names[n])
      BY <1>2, AppliedForward
    <2>2. CASE i = Len(w)
      BY <2>1, <2>2
    <2>3. CASE i < Len(w)
      <3>1. Forward(w[i].names[n], last.names[n])
        BY <1>1, <2>3 DEF Good
      <3>2. w[i] \in View
        BY <1>1
      <3>3. /\ w[i].names[n] \in Entry \cup {None}
            /\ last.names[n] \in Entry \cup {None}
            /\ next.names[n] \in Entry \cup {None}
        <4> HIDE DEF last, next
        <4> QED  BY <1>2, <1>3, <3>2 DEF View
      <3> QED  BY <2>1, <3>1, <3>3, ForwardComposes
    <2> QED  BY <1>1, <2>2, <2>3
  <1>7. ASSUME NEW i \in 1..Len(u), NEW j \in 1..Len(u), i < j, NEW n \in Name
        PROVE  Forward(u[i].names[n], u[j].names[n])
    <2>1. i \in 1..Len(w) /\ u[i] = w[i]
      BY <1>1, <1>4, <1>7
    <2>2. CASE j \in 1..Len(w)
      BY <1>4, <1>7, <2>1, <2>2 DEF Good
    <2>3. CASE j = Len(w) + 1
      BY <1>4, <1>6, <2>1, <2>3
    <2> QED  BY <1>1, <1>4, <2>2, <2>3
  <1> HIDE DEF u
  <1> QED  BY <1>1, <1>4, <1>5, <1>7 DEF Good

\* Rewinding by one operation.
LEMMA GoodFront ==
    ASSUME NEW w, Good(w), Len(w) > 1
    PROVE  /\ Good(SubSeq(w, 1, Len(w) - 1))
           /\ Len(SubSeq(w, 1, Len(w) - 1)) = Len(w) - 1
  <1> DEFINE u == SubSeq(w, 1, Len(w) - 1)
  <1>1. w \in Seq(View) /\ Len(w) \in Nat
    BY DEF Good
  <1>2. Len(u) = Len(w) - 1 /\ \A i \in 1..Len(u) : u[i] = w[i]
    BY <1>1
  <1>3. u \in Seq(View)
    BY <1>1, <1>2
  <1> HIDE DEF u
  <1>4. /\ \A i \in 1..Len(u) : i \in 1..Len(w)
        /\ Len(u) > 0
    BY <1>1, <1>2
  <1>5. Good(u)
    BY <1>2, <1>3, <1>4 DEF Good
  <1> QED  BY <1>2, <1>5 DEF u

(***************************************************************************)
(* The inductive invariant: the types, and the views good of every replica *)
(* that has not misread.                                                   *)
(***************************************************************************)
IInv == TypeOK /\ \A r \in Sound : Good(views[r])

LEMMA InitInv == Init => IInv
  <1> USE ConstantsAssumption, NoneAssumption
  <1> SUFFICES ASSUME Init PROVE IInv
    OBVIOUS
  <1>1. EmptyView \in View
    BY DEF EmptyView, View
  <1>2. ASSUME NEW s \in Skeleton PROVE Mirrored(EmptyView, s)
    BY DEF Mirrored, Holding, EmptyView
  <1>3. \A r \in Replica : views[r] = <<EmptyView>>
    BY DEF Init
  <1>4. Good(<<EmptyView>>)
    BY <1>1, <1>2 DEF Good
  <1>5. TypeOK
    <2>1. <<EmptyView>> \in Seq(View) /\ Len(<<EmptyView>>) = 1
      BY <1>1
    <2> QED  BY <2>1 DEF Init, TypeOK
  <1> QED  BY <1>3, <1>4, <1>5 DEF IInv, Sound

LEMMA SeqOfLarger ==
    ASSUME NEW S, NEW T, S \subseteq T, NEW s \in Seq(S)
    PROVE  s \in Seq(T)
  <1>1. Len(s) \in Nat /\ DOMAIN s = 1..Len(s) /\ \A i \in 1..Len(s) : s[i] \in T
    OBVIOUS
  <1>2. s = [i \in 1..Len(s) |-> s[i]]
    OBVIOUS
  <1> QED  BY <1>1, <1>2

LEMMA FrontIsSeq ==
    ASSUME NEW S, NEW s \in Seq(S), Len(s) > 0
    PROVE  /\ SubSeq(s, 1, Len(s) - 1) \in Seq(S)
           /\ Len(SubSeq(s, 1, Len(s) - 1)) = Len(s) - 1
  <1>1. Len(s) \in Nat /\ 1 \in Int /\ Len(s) - 1 \in Int
    OBVIOUS
  <1>2. \A i \in 1..(Len(s) - 1) : s[i] \in S
    BY <1>1
  <1> DEFINE m == Len(s) - 1
             u == SubSeq(s, 1, m)
  <1>3. u \in Seq(S) /\ Len(u) = IF 1 <= m THEN m - 1 + 1 ELSE 0
    <2> HIDE DEF u
    <2>1. m \in Int /\ \A i \in 1..m : s[i] \in S
      BY <1>1, <1>2
    <2> HIDE DEF m
    <2> QED  BY <1>1, <2>1, SubSeqProperties DEF u
  <1>4. m >= 0 /\ m \in Int
    BY <1>1
  <1> HIDE DEF m, u
  <1>5. u \in Seq(S) /\ Len(u) = m
    BY <1>3, <1>4
  <1> QED  BY <1>5 DEF u, m

\* The reducer appends a view to those of its replica; it is the one the
\* operation asks for, or the replica has misread.
LEMMA ReducesAppends ==
    ASSUME TypeOK, NEW r \in Replica, NEW op \in Op, Reduces(r, op)
    PROVE  /\ misread \subseteq misread' /\ misread' \in SUBSET Replica
           /\ \E view \in View :
                 /\ views' = [views EXCEPT ![r] = Append(@, view)]
                 /\ r \notin misread' => view = Applied(Current(r), op)
  <1>1. PICK lost \in SUBSET {"name", "skel"} :
           LET view  == Reduced(Current(r), op, lost)
               wrong == view # Applied(Current(r), op)
           IN  /\ views' = [views EXCEPT ![r] = Append(@, view)]
               /\ misread' = IF wrong THEN misread \cup {r} ELSE misread
    BY DEF Reduces
  <1>2. Current(r) \in View
    BY DEF TypeOK, Current
  <1>3. Reduced(Current(r), op, lost) \in View
    BY <1>2, ReducedType
  <1> QED  BY <1>1, <1>3 DEF TypeOK

\* A replica applies one more operation, its own or one it received; i is its
\* place in the log.
LEMMA Extends ==
    ASSUME IInv, NEW r \in Replica, NEW op \in Op, NEW i \in Nat,
           order' = [order EXCEPT ![r] = Append(@, i)],
           Reduces(r, op),
           Node \subseteq Node', i \in Node'
    PROVE  /\ order' \in [Replica -> Seq(Node')]
           /\ views' \in [Replica -> Seq(View)]
           /\ misread' \in SUBSET Replica
           /\ \A q \in Replica : Len(views'[q]) = Len(order'[q]) + 1
           /\ \A q \in Sound' : Good(views'[q])
  <1>1. /\ order \in [Replica -> Seq(Node)] /\ views \in [Replica -> Seq(View)]
        /\ \A q \in Replica : Len(views[q]) = Len(order[q]) + 1
        /\ \A q \in Sound : Good(views[q])
    BY DEF IInv, TypeOK
  <1>2. PICK view \in View :
           /\ views' = [views EXCEPT ![r] = Append(@, view)]
           /\ r \notin misread' => view = Applied(Current(r), op)
    BY ReducesAppends DEF IInv
  <1>m. misread \subseteq misread' /\ misread' \in SUBSET Replica
    BY ReducesAppends DEF IInv
  <1> DEFINE w == Append(views[r], view)
             o == Append(order[r], i)
  <1>3. Len(w) = Len(views[r]) + 1 /\ Len(o) = Len(order[r]) + 1 /\ w \in Seq(View)
    BY <1>1
  <1>4. \A q \in Replica : order[q] \in Seq(Node')
    BY <1>1, SeqOfLarger
  <1>5. o \in Seq(Node')
    BY <1>4
  <1>6. views' = [views EXCEPT ![r] = w] /\ order' = [order EXCEPT ![r] = o]
    BY <1>2
  <1>7. r \in Sound' => Good(w)
    <2> SUFFICES ASSUME r \notin misread' PROVE Good(w)
      BY DEF Sound
    <2>1. Good(views[r]) /\ view = Applied(views[r][Len(views[r])], op)
      BY <1>1, <1>2, <1>m DEF Sound, Current
    <2> QED  BY <2>1, GoodAppend
  <1> HIDE DEF w, o
  <1>8. views' \in [Replica -> Seq(View)] /\ order' \in [Replica -> Seq(Node')]
    BY <1>1, <1>3, <1>4, <1>5, <1>6
  <1>9. ASSUME NEW q \in Replica
        PROVE  /\ Len(views'[q]) = Len(order'[q]) + 1
               /\ q \in Sound' => Good(views'[q])
    <2>1. CASE q = r
      <3>1. views'[q] = w /\ order'[q] = o
        BY <1>1, <1>6, <2>1
      <3> QED  BY <1>1, <1>3, <1>7, <2>1, <3>1
    <2>2. CASE q # r
      <3>1. views'[q] = views[q] /\ order'[q] = order[q]
        BY <1>1, <1>6, <2>2
      <3>2. q \in Sound' => q \in Sound
        BY <1>m DEF Sound
      <3> QED  BY <1>1, <3>1, <3>2
    <2> QED  BY <2>1, <2>2
  <1>10. Sound' \subseteq Replica
    BY DEF Sound
  <1> QED  BY <1>8, <1>9, <1>10, <1>m

LEMMA AddedKeeps ==
    ASSUME IInv, NEW r \in Replica, NEW op \in Op, Added(r, op)
    PROVE  /\ log' \in Seq([op: Op, by: Replica, sees: SUBSET Node'])
           /\ order' \in [Replica -> Seq(Node')]
           /\ views' \in [Replica -> Seq(View)]
           /\ misread' \in SUBSET Replica
           /\ \A q \in Replica : Len(views'[q]) = Len(order'[q]) + 1
           /\ \A q \in Sound' : Good(views'[q])
  <1> DEFINE node == [op |-> op, by |-> r, sees |-> InOrder(r)]
  <1>1. /\ log \in Seq([op: Op, by: Replica, sees: SUBSET Node])
        /\ order \in [Replica -> Seq(Node)]
    BY DEF IInv, TypeOK
  <1>2. log' = Append(log, node)
    BY DEF Added
  <1>3. Len(log') = Len(log) + 1 /\ Len(log) \in Nat
    BY <1>1, <1>2
  <1>4. Node \subseteq Node' /\ Len(log) + 1 \in Node'
    BY <1>3 DEF Node
  <1>5. InOrder(r) \subseteq Node
    BY <1>1 DEF InOrder
  <1>6. node \in [op: Op, by: Replica, sees: SUBSET Node']
    BY <1>4, <1>5
  <1>7. log \in Seq([op: Op, by: Replica, sees: SUBSET Node'])
    <2>1. [op: Op, by: Replica, sees: SUBSET Node]
            \subseteq [op: Op, by: Replica, sees: SUBSET Node']
      BY <1>4
    <2> QED  BY <1>1, <2>1, SeqOfLarger
  <1>8. log' \in Seq([op: Op, by: Replica, sees: SUBSET Node'])
    <2> HIDE DEF node
    <2> QED  BY <1>2, <1>6, <1>7
  <1>9. /\ order' = [order EXCEPT ![r] = Append(@, Len(log) + 1)]
        /\ Reduces(r, op)
    BY DEF Added
  <1>10. /\ order' \in [Replica -> Seq(Node')]
         /\ views' \in [Replica -> Seq(View)]
         /\ misread' \in SUBSET Replica
         /\ \A q \in Replica : Len(views'[q]) = Len(order'[q]) + 1
         /\ \A q \in Sound' : Good(views'[q])
    <2>1. Len(log) + 1 \in Nat
      BY <1>3
    <2> QED  BY <2>1, <1>4, <1>9, Extends
  <1> QED  BY <1>8, <1>10

CallOK == call \in [Call -> [at: Replica, name: Name, target: Target, version: Nat \ {0}]
                            \cup {None}]

LEMMA NextInv == IInv /\ [Next]_vars => IInv'
  <1> USE ConstantsAssumption
  <1> SUFFICES ASSUME IInv, [Next]_vars PROVE IInv'
    OBVIOUS
  <1>1. /\ log \in Seq([op: Op, by: Replica, sees: SUBSET Node]) /\ Len(log) \in Nat
        /\ order \in [Replica -> Seq(Node)]
        /\ views \in [Replica -> Seq(View)] /\ CallOK
        /\ misread \in SUBSET Replica
        /\ \A r \in Replica : Len(views[r]) = Len(order[r]) + 1 /\ Len(order[r]) \in Nat
        /\ \A r \in Sound : Good(views[r])
    BY DEF IInv, TypeOK, CallOK
  <1>12. \A i \in Node : log[i].op \in Op /\ i \in Nat
    <2> DEFINE S == [op: Op, by: Replica, sees: SUBSET Node]
    <2>1. \A i \in 1..Len(log) : log[i] \in S
      <3> HIDE DEF S
      <3>1. log \in Seq(S)
        BY <1>1 DEF S
      <3> QED  BY <3>1
    <2>2. \A x \in S : x.op \in Op
      OBVIOUS
    <2> QED  BY <2>1, <2>2 DEF Node
  <1>2. ASSUME NEW r \in Replica, NEW op \in Op, Added(r, op), CallOK'
        PROVE  IInv'
    BY <1>2, AddedKeeps DEF IInv, TypeOK, CallOK
  <1>3. ASSUME NEW r \in Replica, NEW n \in Name
        PROVE  Current(r).names[n] \in Entry \cup {None}
    <2>1. Current(r) \in View
      BY <1>1 DEF Current
    <2> QED  BY <2>1 DEF View
  <1>4. ASSUME NEW r \in Replica, NEW i \in Node, Apply(r, i)
        PROVE  IInv'
    <2>1. Node' = Node /\ log' = log /\ call' = call
      BY <1>4 DEF Apply, Node
    <2>2. log[i].op \in Op /\ i \in Nat
      BY <1>12
    <2>3. /\ order' = [order EXCEPT ![r] = Append(@, i)]
          /\ Reduces(r, log[i].op)
      BY <1>4 DEF Apply
    <2>4. /\ order' \in [Replica -> Seq(Node')]
          /\ views' \in [Replica -> Seq(View)]
          /\ misread' \in SUBSET Replica
          /\ \A q \in Replica : Len(views'[q]) = Len(order'[q]) + 1
          /\ \A q \in Sound' : Good(views'[q])
      BY <2>1, <2>2, <2>3, Extends
    <2> QED  BY <1>1, <2>1, <2>4 DEF IInv, TypeOK, CallOK
  <1>5. ASSUME NEW r \in Replica, NEW i \in Node, Reappend(r, i)
        PROVE  IInv'
    <2>1. log[i].op \in Op
      BY <1>12
    <2>2. Added(r, log[i].op) /\ call' = call
      BY <1>5 DEF Reappend
    <2> QED  BY <1>1, <1>2, <2>1, <2>2 DEF CallOK
  <1>6. ASSUME NEW r \in Replica, Undo(r)
        PROVE  IInv'
    <2>1. Node' = Node /\ log' = log /\ call' = call /\ misread' = misread /\ Sound' = Sound
      BY <1>6 DEF Undo, Node, Sound
    <2> DEFINE w == SubSeq(views[r], 1, Len(views[r]) - 1)
               o == SubSeq(order[r], 1, Len(order[r]) - 1)
    <2>2. /\ order' = [order EXCEPT ![r] = o] /\ views' = [views EXCEPT ![r] = w]
          /\ order[r] # <<>>
      BY <1>6 DEF Undo
    <2>3. Len(order[r]) \in Nat \ {0}
      BY <1>1, <2>2
    <2>4. r \in Sound => Good(w)
      <3>1. Len(views[r]) > 1
        BY <1>1, <2>3
      <3> QED  BY <1>1, <3>1, GoodFront
    <2>5. o \in Seq(Node) /\ Len(o) = Len(order[r]) - 1
      <3>1. order[r] \in Seq(Node)
        BY <1>1
      <3>2. Len(order[r]) > 0
        BY <2>3
      <3>3. SubSeq(order[r], 1, Len(order[r]) - 1) \in Seq(Node)
            /\ Len(SubSeq(order[r], 1, Len(order[r]) - 1)) = Len(order[r]) - 1
        BY <3>1, <3>2, FrontIsSeq
      <3> QED  BY <3>3 DEF o
    <2>6. w \in Seq(View) /\ Len(w) = Len(order[r])
      <3>1. views[r] \in Seq(View) /\ Len(views[r]) = Len(order[r]) + 1
        BY <1>1
      <3>2. Len(views[r]) > 0
        BY <2>3, <3>1
      <3>3. SubSeq(views[r], 1, Len(views[r]) - 1) \in Seq(View)
            /\ Len(SubSeq(views[r], 1, Len(views[r]) - 1)) = Len(views[r]) - 1
        BY <3>1, <3>2, FrontIsSeq
      <3> QED  BY <2>3, <3>1, <3>3
    <2> HIDE DEF w, o
    <2>7. order' \in [Replica -> Seq(Node)] /\ views' \in [Replica -> Seq(View)]
      BY <1>1, <2>2, <2>5, <2>6
    <2>8. ASSUME NEW q \in Replica
          PROVE  /\ Len(views'[q]) = Len(order'[q]) + 1
                 /\ q \in Sound => Good(views'[q])
      <3>1. CASE q = r
        <4>1. views'[q] = w /\ order'[q] = o
          BY <1>1, <2>2, <3>1
        <4> QED  BY <2>3, <2>4, <2>5, <2>6, <3>1, <4>1
      <3>2. CASE q # r
        BY <1>1, <2>2, <3>2
      <3> QED  BY <3>1, <3>2
    <2>9. \A q \in Sound' : Good(views'[q])
      BY <2>1, <2>8 DEF Sound
    <2> QED  BY <1>1, <2>1, <2>7, <2>8, <2>9 DEF IInv, TypeOK, CallOK
  <1>7. ASSUME NEW r \in Replica, NEW n \in Name, NEW t \in Target, Claim(r, n, t)
        PROVE  IInv'
    <2>1. claimOp(n, OwnerOf[r], t) \in Op
      BY DEF claimOp, Op
    <2>2. Added(r, claimOp(n, OwnerOf[r], t)) /\ call' = call
      BY <1>7 DEF Claim
    <2> QED  BY <1>1, <1>2, <2>1, <2>2 DEF CallOK
  <1>8. ASSUME NEW r \in Replica, NEW n \in Name, NEW t \in Target, NEW c \in Call,
               Rotate(c, r, n, t)
        PROVE  IInv'
    <2> DEFINE q == [at |-> r, name |-> n, target |-> t, version |-> Resolved(r, n).version + 1]
    <2>1. Resolved(r, n) \in Entry
      BY <1>3, <1>8 DEF Rotate, Resolved
    <2>2. Resolved(r, n).version + 1 \in Nat \ {0}
      BY <2>1 DEF Entry
    <2>3. q \in [at: Replica, name: Name, target: Target, version: Nat \ {0}]
      BY <2>2
    <2>4. /\ call' = [call EXCEPT ![c] = q] /\ log' = log /\ order' = order
          /\ views' = views /\ misread' = misread
      BY <1>8 DEF Rotate
    <2> HIDE DEF q
    <2>5. CallOK'
      BY <1>1, <2>3, <2>4 DEF CallOK
    <2>6. Node' = Node /\ Sound' = Sound
      BY <2>4 DEF Node, Sound
    <2> QED  BY <1>1, <2>4, <2>5, <2>6 DEF IInv, TypeOK, CallOK
  <1>9. ASSUME NEW r \in Replica, NEW n \in Name, NEW type \in {"release", "revoke"},
               End(r, type, n)
        PROVE  IInv'
    <2>1. endOp(type, n, OwnerOf[r]) \in Op
      BY DEF endOp, Op
    <2>2. Added(r, endOp(type, n, OwnerOf[r])) /\ call' = call
      BY <1>9 DEF End
    <2> QED  BY <1>1, <1>2, <2>1, <2>2 DEF CallOK
  <1>10. ASSUME NEW c \in Call, RotateAppends(c)
         PROVE  IInv'
    <2> DEFINE q == call[c]
    <2>1. q \in [at: Replica, name: Name, target: Target, version: Nat \ {0}]
      BY <1>1, <1>10 DEF RotateAppends, CallOK
    <2>2. rotateOp(q.name, OwnerOf[q.at], q.target, q.version) \in Op
      BY <2>1 DEF rotateOp, Op
    <2>3. Added(q.at, rotateOp(q.name, OwnerOf[q.at], q.target, q.version))
      BY <1>10 DEF RotateAppends
    <2>4. CallOK'
      BY <1>1, <1>10 DEF RotateAppends, CallOK
    <2>5. q.at \in Replica
      BY <2>1
    <2> QED  BY <1>2, <2>2, <2>3, <2>4, <2>5
  <1>11. CASE UNCHANGED vars
    <2>1. /\ log' = log /\ order' = order /\ views' = views /\ call' = call
          /\ misread' = misread /\ Node' = Node /\ Sound' = Sound
      BY <1>11 DEF vars, Node, Sound
    <2> QED  BY <1>1, <2>1 DEF IInv, TypeOK, CallOK
  <1> QED
    BY <1>4, <1>5, <1>6, <1>7, <1>8, <1>9, <1>10, <1>11 DEF Next

THEOREM Invariant == Spec => []IInv
  BY InitInv, NextInv, PTL DEF Spec

(***************************************************************************)
(* What a view owes to the operations applied                              *)
(***************************************************************************)
\* Induction over the natural numbers, with a set for the predicate.
LEMMA NatSetInduction ==
    ASSUME NEW T \in SUBSET Nat, 0 \in T, \A m \in T : m + 1 \in T
    PROVE  T = Nat
  <1> SUFFICES ASSUME Nat \ T # {} PROVE FALSE
    OBVIOUS
  <1>1. PICK x \in Nat \ T : \A y \in Nat \ T : <<y, x>> \notin OpToRel(<, Nat)
    BY NatLessThanWellFounded, WFMin
  <1>2. \A y \in Nat \ T : ~(y < x)
    BY <1>1 DEF OpToRel
  <1>3. x # 0 /\ x - 1 \in Nat /\ x - 1 < x /\ x - 1 + 1 = x
    OBVIOUS
  <1> QED  BY <1>2, <1>3

\* The views of a replica that has not misread are the operations' along its
\* order.
Folds(r) ==
    /\ views[r][1] = EmptyView
    /\ \A i \in 1..Len(order[r]) :
          views[r][i + 1] = Applied(views[r][i], log[order[r][i]].op)

Folded == \A r \in Sound : Folds(r)

\* A step gives one replica one more node, takes back its last, or changes no
\* order; the log only grows.
Grows(r, i) ==
    /\ order' = [order EXCEPT ![r] = Append(@, i)]
    /\ log'[i].op \in Op /\ Reduces(r, log'[i].op)

LogKept == Node \subseteq Node' /\ \A i \in Node : log'[i] = log[i]

LEMMA AddedGrows ==
    ASSUME IInv, NEW r \in Replica, NEW op \in Op, Added(r, op)
    PROVE  LogKept /\ \E i \in Node' : Grows(r, i)
  <1>1. /\ log \in Seq([op: Op, by: Replica, sees: SUBSET Node])
        /\ Len(log) \in Nat
    BY DEF IInv, TypeOK
  <1> DEFINE node == [op |-> op, by |-> r, sees |-> InOrder(r)]
             S == [op: Op, by: Replica, sees: SUBSET Node] \cup {node}
  <1>2. log' = Append(log, node) /\ log \in Seq(S) /\ node \in S
    <2>1. log \in Seq(S)
      BY <1>1, SeqOfLarger
    <2> QED  BY <2>1 DEF Added
  <1>3. /\ Len(log') = Len(log) + 1 /\ log'[Len(log) + 1].op = op
        /\ \A i \in 1..Len(log) : log'[i] = log[i]
    <2>1. log'[Len(log) + 1] = node /\ Len(log') = Len(log) + 1
          /\ \A i \in 1..Len(log) : log'[i] = log[i]
      <3> HIDE DEF node, S
      <3> QED  BY <1>2
    <2> QED  BY <2>1
  <1>4. LogKept /\ Len(log) + 1 \in Node'
    BY <1>1, <1>3 DEF LogKept, Node
  <1>5. Grows(r, Len(log) + 1)
    BY <1>3 DEF Grows, Added
  <1> QED  BY <1>4, <1>5

LEMMA NextShape ==
    ASSUME IInv, [Next]_vars
    PROVE  /\ LogKept
           /\ \/ \E r \in Replica : \E i \in Node' : Grows(r, i)
              \/ \E r \in Replica : Undo(r)
              \/ UNCHANGED <<order, views, misread>>
  <1> USE ConstantsAssumption
  <1>1. \A i \in Node : log[i].op \in Op
    <2> DEFINE S == [op: Op, by: Replica, sees: SUBSET Node]
    <2>1. \A i \in 1..Len(log) : log[i] \in S
      <3> HIDE DEF S
      <3>1. log \in Seq(S)
        BY DEF IInv, TypeOK, S
      <3> QED  BY <3>1
    <2>2. \A x \in S : x.op \in Op
      OBVIOUS
    <2> QED  BY <2>1, <2>2 DEF Node
  <1>2. ASSUME log' = log PROVE LogKept
    BY <1>2 DEF LogKept, Node
  <1>3. ASSUME NEW r \in Replica, NEW i \in Node, Apply(r, i)
        PROVE  LogKept /\ i \in Node' /\ Grows(r, i)
    <2>1. log' = log /\ Node' = Node
      BY <1>3 DEF Apply, Node
    <2> QED  BY <1>1, <1>2, <1>3, <2>1 DEF Apply, Grows
  <1>4. ASSUME NEW r \in Replica, NEW i \in Node, Reappend(r, i)
        PROVE  LogKept /\ \E j \in Node' : Grows(r, j)
    BY <1>1, <1>4, AddedGrows DEF Reappend
  <1>5. ASSUME NEW r \in Replica, NEW n \in Name, NEW t \in Target, Claim(r, n, t)
        PROVE  LogKept /\ \E j \in Node' : Grows(r, j)
    <2>1. claimOp(n, OwnerOf[r], t) \in Op
      BY DEF claimOp, Op
    <2> QED  BY <1>5, <2>1, AddedGrows DEF Claim
  <1>6. ASSUME NEW r \in Replica, NEW n \in Name, NEW type \in {"release", "revoke"},
               End(r, type, n)
        PROVE  LogKept /\ \E j \in Node' : Grows(r, j)
    <2>1. endOp(type, n, OwnerOf[r]) \in Op
      BY DEF endOp, Op
    <2> QED  BY <1>6, <2>1, AddedGrows DEF End
  <1>7. ASSUME NEW c \in Call, RotateAppends(c)
        PROVE  LogKept /\ \E r \in Replica : \E j \in Node' : Grows(r, j)
    <2> DEFINE q == call[c]
    <2>1. q \in [at: Replica, name: Name, target: Target, version: Nat \ {0}]
      BY <1>7 DEF RotateAppends, IInv, TypeOK
    <2>2. rotateOp(q.name, OwnerOf[q.at], q.target, q.version) \in Op /\ q.at \in Replica
      BY <2>1 DEF rotateOp, Op
    <2>3. Added(q.at, rotateOp(q.name, OwnerOf[q.at], q.target, q.version))
      BY <1>7 DEF RotateAppends
    <2> HIDE DEF q
    <2> QED  BY <2>2, <2>3, AddedGrows
  <1>8. ASSUME NEW r \in Replica, NEW n \in Name, NEW t \in Target, NEW c \in Call,
               Rotate(c, r, n, t)
        PROVE  LogKept /\ UNCHANGED <<order, views, misread>>
    BY <1>2, <1>8 DEF Rotate
  <1>9. ASSUME NEW r \in Replica, Undo(r)
        PROVE  LogKept
    BY <1>2, <1>9 DEF Undo
  <1>10. CASE UNCHANGED vars
    BY <1>2, <1>10 DEF vars
  <1> QED
    BY <1>3, <1>4, <1>5, <1>6, <1>7, <1>8, <1>9, <1>10 DEF Next

LEMMA FrontKeeps ==
    ASSUME NEW S, NEW s \in Seq(S), Len(s) > 0
    PROVE  /\ Len(SubSeq(s, 1, Len(s) - 1)) = Len(s) - 1
           /\ \A k \in 1..(Len(s) - 1) : SubSeq(s, 1, Len(s) - 1)[k] = s[k]
  <1> DEFINE m == Len(s) - 1
  <1>1. m \in Nat /\ \A k \in 1..m : s[k] \in S
    OBVIOUS
  <1>2. \A k \in 1..m : SubSeq(s, 1, m)[k] = s[1 + k - 1]
    <2>1. \A k \in 1..m : s[k] \in S
      BY <1>1
    <2> HIDE DEF m
    <2> QED  BY <1>1, <2>1, SubSeqProperties
  <1>3. \A k \in 1..m : 1 + k - 1 = k
    OBVIOUS
  <1> QED  BY <1>2, <1>3, FrontIsSeq

LEMMA FoldedNext == IInv /\ Folded /\ [Next]_vars => Folded'
  <1> SUFFICES ASSUME IInv, Folded, [Next]_vars PROVE Folded'
    OBVIOUS
  <1>1. /\ order \in [Replica -> Seq(Node)] /\ views \in [Replica -> Seq(View)]
        /\ \A r \in Replica : Len(views[r]) = Len(order[r]) + 1
        /\ \A r \in Replica : Len(order[r]) \in Nat
    BY DEF IInv, TypeOK
  <1>2. \A r \in Sound : Folds(r)
    BY DEF Folded
  <1>3. \A r \in Replica : \A i \in 1..Len(order[r]) : order[r][i] \in Node
    BY <1>1
  <1>k. LogKept
    BY NextShape
  <1>s. Sound \subseteq Replica /\ Sound' \subseteq Replica
    BY DEF Sound
  <1>4. ASSUME NEW q \in Sound, order'[q] = order[q], views'[q] = views[q]
        PROVE  Folds(q)'
    BY <1>2, <1>3, <1>k, <1>s, <1>4 DEF Folds, LogKept
  <1>5. ASSUME NEW r \in Replica, NEW i \in Node', Grows(r, i)
        PROVE  Folded'
    <2>v. PICK last \in View :
             /\ views' = [views EXCEPT ![r] = Append(@, last)]
             /\ r \notin misread' => last = Applied(Current(r), log'[i].op)
      BY <1>5, ReducesAppends DEF Grows, IInv
    <2>m. misread \subseteq misread'
      BY <1>5, ReducesAppends DEF Grows, IInv
    <2> DEFINE w == Append(views[r], last)
               o == Append(order[r], i)
    <2>1. views'[r] = w /\ order'[r] = o
          /\ \A q \in Replica \ {r} : views'[q] = views[q] /\ order'[q] = order[q]
      BY <1>1, <1>5, <2>v DEF Grows
    <2>2. /\ Len(o) = Len(order[r]) + 1 /\ o[Len(order[r]) + 1] = i
          /\ \A k \in 1..Len(order[r]) : o[k] = order[r][k]
      BY <1>1
    <2>3. /\ w[Len(views[r]) + 1] = last
          /\ \A k \in 1..Len(views[r]) : w[k] = views[r][k]
      BY <1>1
    <2> HIDE DEF w, o
    <2>5. r \in Sound' => Folds(r)'
      <3> SUFFICES ASSUME r \notin misread' PROVE Folds(r)'
        BY DEF Sound
      <3>a. r \in Sound
        BY <2>m DEF Sound
      <3>b. last = Applied(views[r][Len(order[r]) + 1], log'[i].op)
        BY <1>1, <2>v DEF Current
      <3>1. views'[r][1] = EmptyView
        <4>a. 1 \in 1..Len(views[r])
          BY <1>1
        <4>1. w[1] = views[r][1]
          BY <2>3, <4>a
        <4> QED  BY <1>2, <2>1, <3>a, <4>1 DEF Folds
      <3>2. ASSUME NEW k \in 1..Len(order[r])
            PROVE  views'[r][k + 1] = Applied(views'[r][k], log'[order'[r][k]].op)
        <4>1. k \in 1..Len(views[r]) /\ k + 1 \in 1..Len(views[r])
          BY <1>1
        <4> QED  BY <1>2, <1>3, <1>k, <2>1, <2>2, <2>3, <3>a, <4>1, SMTT(30) DEF Folds, LogKept
      <3>3. views'[r][Len(order[r]) + 2]
              = Applied(views'[r][Len(order[r]) + 1], log'[order'[r][Len(order[r]) + 1]].op)
        <4>1. /\ Len(order[r]) + 1 \in 1..Len(views[r])
              /\ Len(order[r]) + 2 = Len(views[r]) + 1
          BY <1>1
        <4>2. w[Len(order[r]) + 2] = last
          BY <2>3, <4>1
        <4>3. w[Len(order[r]) + 1] = views[r][Len(order[r]) + 1]
          BY <2>3, <4>1
        <4> QED  BY <2>1, <2>2, <3>b, <4>2, <4>3
      <3>4. ASSUME NEW k \in 1..Len(order'[r])
            PROVE  views'[r][k + 1] = Applied(views'[r][k], log'[order'[r][k]].op)
        <4>1. k \in 1..Len(order[r]) \/ k = Len(order[r]) + 1
          BY <1>1, <2>1, <2>2
        <4>2. CASE k = Len(order[r]) + 1
          <5>1. k + 1 = Len(order[r]) + 2
            BY <1>1, <4>2
          <5> QED  BY <3>3, <4>2, <5>1
        <4> QED  BY <3>2, <4>1, <4>2
      <3> QED  BY <3>1, <3>4 DEF Folds
    <2> QED  BY <1>4, <2>1, <2>5, <2>m DEF Folded, Sound
  <1>6. ASSUME NEW r \in Replica, Undo(r)
        PROVE  Folded'
    <2> DEFINE m == Len(order[r])
               w == SubSeq(views[r], 1, Len(views[r]) - 1)
               o == SubSeq(order[r], 1, m - 1)
    <2>1. m \in Nat /\ m > 0 /\ Len(views[r]) = m + 1
      BY <1>1, <1>6 DEF Undo
    <2>2. views'[r] = w /\ order'[r] = o
          /\ \A q \in Replica \ {r} : views'[q] = views[q] /\ order'[q] = order[q]
      BY <1>1, <1>6 DEF Undo
    <2>3. /\ Len(o) = m - 1 /\ \A k \in 1..(m - 1) : o[k] = order[r][k]
          /\ \A k \in 1..m : w[k] = views[r][k]
      <3>1. views[r] \in Seq(View) /\ Len(views[r]) > 0
        BY <1>1, <2>1
      <3>2. order[r] \in Seq(Node) /\ Len(order[r]) > 0
        BY <1>1, <2>1
      <3>3. \A k \in 1..(Len(views[r]) - 1) : w[k] = views[r][k]
        BY <3>1, FrontKeeps
      <3>4. Len(o) = m - 1 /\ \A k \in 1..(m - 1) : o[k] = order[r][k]
        BY <3>2, FrontKeeps
      <3> HIDE DEF w, o, m
      <3> QED  BY <2>1, <3>3, <3>4
    <2> HIDE DEF w, o, m
    <2>4. r \in Sound => Folds(r)'
      <3> SUFFICES ASSUME r \in Sound PROVE Folds(r)'
        OBVIOUS
      <3>1. views'[r][1] = EmptyView
        BY <1>2, <2>1, <2>2, <2>3 DEF Folds
      <3>2. ASSUME NEW k \in 1..Len(order'[r])
            PROVE  views'[r][k + 1] = Applied(views'[r][k], log'[order'[r][k]].op)
        <4>1. k \in 1..(m - 1) /\ k \in 1..m /\ k + 1 \in 1..m
          BY <2>1, <2>2, <2>3
        <4>2. views[r][k + 1] = Applied(views[r][k], log[order[r][k]].op)
          BY <1>2, <4>1 DEF Folds, m
        <4>3. log'[order[r][k]] = log[order[r][k]]
          BY <1>3, <1>k, <4>1 DEF LogKept, m
        <4> QED  BY <2>2, <2>3, <4>1, <4>2, <4>3
      <3> QED  BY <3>1, <3>2 DEF Folds
    <2>5. Sound' = Sound
      BY <1>6 DEF Undo, Sound
    <2> QED  BY <1>4, <1>s, <2>2, <2>4, <2>5 DEF Folded
  <1>7. CASE UNCHANGED <<order, views, misread>>
    <2>1. Sound' = Sound
      BY <1>7 DEF Sound
    <2> QED  BY <1>4, <1>7, <2>1 DEF Folded
  <1> QED  BY <1>5, <1>6, <1>7, NextShape

LEMMA FoldedAlways == Spec => [](IInv /\ Folded)
  <1>1. Init => Folded
    BY DEF Init, Folded, Folds, Sound
  <1>2. (IInv /\ Folded) /\ [Next]_vars => (IInv /\ Folded)'
    BY NextInv, FoldedNext
  <1> QED  BY <1>1, <1>2, InitInv, PTL DEF Spec

(***************************************************************************)
(* One run of the reducer: the views w after each prefix of ops            *)
(***************************************************************************)
Run(w, ops, m) ==
    /\ m \in Nat /\ w[1] = EmptyView
    /\ \A i \in 1..(m + 1) : w[i] \in View
    /\ \A i \in 1..m : ops[i] \in Op /\ w[i + 1] = Applied(w[i], ops[i])

LEMMA ReplicaRuns ==
    ASSUME IInv, Folded, NEW r \in Sound
    PROVE  /\ Run(views[r], OpsOf(r), Len(order[r]))
           /\ DOMAIN OpsOf(r) = 1..Len(order[r]) /\ DOMAIN order[r] = 1..Len(order[r])
           /\ Current(r) = views[r][Len(order[r]) + 1]
  <1>1. /\ order[r] \in Seq(Node) /\ views[r] \in Seq(View)
        /\ Len(views[r]) = Len(order[r]) + 1 /\ Len(order[r]) \in Nat
    BY DEF IInv, TypeOK, Sound
  <1>2. DOMAIN order[r] = 1..Len(order[r]) /\ \A i \in 1..Len(order[r]) : order[r][i] \in Node
    BY <1>1
  <1>3. \A i \in Node : log[i].op \in Op
    <2> DEFINE S == [op: Op, by: Replica, sees: SUBSET Node]
    <2>1. \A i \in 1..Len(log) : log[i] \in S
      <3> HIDE DEF S
      <3>1. log \in Seq(S)
        BY DEF IInv, TypeOK, S
      <3> QED  BY <3>1
    <2>2. \A x \in S : x.op \in Op
      OBVIOUS
    <2> QED  BY <2>1, <2>2 DEF Node
  <1>4. \A i \in 1..Len(order[r]) : OpsOf(r)[i] = log[order[r][i]].op
    BY <1>2 DEF OpsOf
  <1>5. DOMAIN OpsOf(r) = 1..Len(order[r])
    BY <1>2 DEF OpsOf
  <1>6. \A i \in 1..(Len(order[r]) + 1) : views[r][i] \in View
    BY <1>1
  <1>7. Folds(r)
    BY DEF Folded
  <1>8. Run(views[r], OpsOf(r), Len(order[r]))
    BY <1>1, <1>2, <1>3, <1>4, <1>6, <1>7 DEF Run, Folds
  <1> QED  BY <1>1, <1>2, <1>5, <1>8 DEF Current

\* What one operation makes of the entry of its name, e before and f after.
LEMMA AppliedEntry ==
    ASSUME NEW view \in View, NEW op \in Op
    PROVE  LET e == view.names[op.name]
               f == Applied(view, op).names[op.name]
           IN  \/ /\ op.type = "claim"
                  /\ f.owner = op.owner /\ f.target = op.target
               \/ /\ op.type = "rotate" /\ e # None /\ e.status = "active"
                  /\ e.owner = op.owner /\ f.owner = op.owner /\ f.target = op.target
               \/ f.status # "active"
               \/ f = e /\ (op.type \in {"release", "revoke"} => ~Owns(view, op))
  <1> DEFINE n == op.name
             e == view.names[n]
             f == Applied(view, op).names[n]
  <1>0. n \in Name /\ DOMAIN view.names = Name /\ e \in Entry \cup {None}
    BY DEF Op, View
  <1>1. CASE op.type = "claim" /\ Claimable(view, op) /\ Applied(view, op) = Claimed(view, op)
    <2> DEFINE g == [owner |-> op.owner, target |-> op.target,
                     version |-> VersionOf(view, n) + 1, status |-> "active"]
    <2>1. Applied(view, op).names = [view.names EXCEPT ![n] = g]
      BY <1>1 DEF Claimed
    <2>2. f = g
      <3> HIDE DEF g
      <3> QED  BY <1>0, <2>1
    <2> QED  BY <1>1, <2>2
  <1>2. CASE Rotates(view, op) /\ Applied(view, op) = Rotated(view, op)
    <2> DEFINE g == [e EXCEPT !.target = op.target, !.version = op.version]
    <2>1. e \in Entry /\ e # None /\ e.status = "active" /\ e.owner = op.owner
          /\ op.type = "rotate"
      BY <1>0, <1>2 DEF Rotates, Owns
    <2>2. Applied(view, op) = [view EXCEPT !.names = [@ EXCEPT ![n] = g]]
      BY <1>0, <1>2 DEF Rotated, View
    <2>3. f = g
      <3> HIDE DEF g
      <3> QED  BY <1>0, <2>2 DEF View
    <2>4. g.owner = e.owner /\ g.target = op.target
      BY <2>1 DEF Entry
    <2> HIDE DEF e, f, g
    <2> QED  BY <2>1, <2>3, <2>4 DEF e, f, n
  <1>3. CASE Owns(view, op) /\ Applied(view, op) = Released(view, op)
    <2>1. f = [e EXCEPT !.status = "released"]
      BY <1>0, <1>3 DEF Released, View
    <2>2. f.status = "released"
      BY <1>0, <1>3, <2>1 DEF Owns, Entry
    <2> QED  BY <2>2
  <1>4. CASE Owns(view, op) /\ Applied(view, op) = Revoked(view, op)
    <2>1. f = [e EXCEPT !.status = "revoked"]
      BY <1>0, <1>4 DEF Revoked, View
    <2>2. f.status = "revoked"
      BY <1>0, <1>4, <2>1 DEF Owns, Entry
    <2> QED  BY <2>2
  <1>5. CASE Applied(view, op) = view
    <2>1. CASE op.type \in {"release", "revoke"} /\ Owns(view, op)
      <3>1. Applied(view, op) \in {Released(view, op), Revoked(view, op)}
        BY <2>1 DEF Applied
      <3> QED  BY <1>3, <1>4, <2>1, <3>1
    <2> QED  BY <1>5, <2>1
  <1> QED  BY <1>1, <1>2, <1>3, <1>4, <1>5, AppliedCases

(***************************************************************************)
(* The holder of an active name has claimed it                             *)
(***************************************************************************)
Held(e, n, ops, m) ==
    e # None /\ e.status = "active" =>
      \E i \in 1..m :
         /\ SignedBy(ops[i], {"claim"}, n, e.owner)
         /\ \A j \in 1..m : j > i => ~SignedBy(ops[j], {"release", "revoke"}, n, e.owner)
         /\ \E k \in 1..m :
               /\ k >= i /\ SignedBy(ops[k], {"claim", "rotate"}, n, e.owner)
               /\ ops[k].target = e.target

LEMMA HeldStep ==
    ASSUME NEW n \in Name, NEW m \in Nat, NEW ops, ops[m + 1] \in Op,
           NEW view \in View, Held(view.names[n], n, ops, m)
    PROVE  Held(Applied(view, ops[m + 1]).names[n], n, ops, m + 1)
  <1> DEFINE op == ops[m + 1]
             e == view.names[n]
             f == Applied(view, op).names[n]
  <1> SUFFICES ASSUME f # None, f.status = "active"
               PROVE  Held(f, n, ops, m + 1)
    BY DEF Held
  <1>0. m + 1 \in 1..(m + 1) /\ \A i \in 1..(m + 1) : i = m + 1 \/ i \in 1..m
    OBVIOUS
  <1>1. \A i \in 1..m : i \in 1..(m + 1) /\ ~(i > m + 1) /\ m + 1 >= i
    OBVIOUS
  <1>2. \A i \in 1..(m + 1) : ~(i > m + 1)
    OBVIOUS
  <1>3. ASSUME f = e, ~SignedBy(op, {"release", "revoke"}, n, e.owner)
        PROVE  Held(f, n, ops, m + 1)
    <2>1. PICK i \in 1..m :
            /\ SignedBy(ops[i], {"claim"}, n, e.owner)
            /\ \A j \in 1..m : j > i => ~SignedBy(ops[j], {"release", "revoke"}, n, e.owner)
            /\ \E k \in 1..m :
                  /\ k >= i /\ SignedBy(ops[k], {"claim", "rotate"}, n, e.owner)
                  /\ ops[k].target = e.target
      BY <1>3 DEF Held
    <2> HIDE DEF e, f
    <2> QED  BY <1>0, <1>1, <1>3, <2>1 DEF Held
  <1>4. CASE op.name # n
    <2>1. f = e
      BY <1>4, AppliedEffect
    <2> QED  BY <1>3, <1>4, <2>1 DEF SignedBy
  <1>5. CASE op.name = n /\ op.type = "claim" /\ f.owner = op.owner /\ f.target = op.target
    <2> HIDE DEF f
    <2> QED  BY <1>0, <1>1, <1>2, <1>5 DEF Held, SignedBy
  <1>6. CASE /\ op.name = n /\ op.type = "rotate" /\ e # None /\ e.status = "active"
             /\ e.owner = op.owner /\ f.owner = op.owner /\ f.target = op.target
    <2>1. PICK i \in 1..m :
            /\ SignedBy(ops[i], {"claim"}, n, e.owner)
            /\ \A j \in 1..m : j > i => ~SignedBy(ops[j], {"release", "revoke"}, n, e.owner)
      BY <1>6 DEF Held
    <2>2. i \in 1..(m + 1) /\ m + 1 >= i /\ SignedBy(ops[i], {"claim"}, n, f.owner)
      BY <1>1, <1>6, <2>1
    <2>3. \A j \in 1..(m + 1) : j > i => ~SignedBy(ops[j], {"release", "revoke"}, n, f.owner)
      <3> SUFFICES ASSUME NEW j \in 1..(m + 1), j > i
                   PROVE  ~SignedBy(ops[j], {"release", "revoke"}, n, f.owner)
        OBVIOUS
      <3>1. CASE j = m + 1
        BY <1>6, <3>1 DEF SignedBy
      <3>2. CASE j \in 1..m
        BY <1>6, <2>1, <3>2
      <3> QED  BY <1>0, <3>1, <3>2
    <2>4. SignedBy(ops[m + 1], {"claim", "rotate"}, n, f.owner) /\ ops[m + 1].target = f.target
      BY <1>6 DEF SignedBy
    <2> HIDE DEF e, f, op
    <2> QED  BY <1>0, <2>2, <2>3, <2>4 DEF Held
  <1>7. CASE /\ op.name = n /\ f = e
             /\ op.type \in {"release", "revoke"} => ~Owns(view, op)
    <2>1. ~SignedBy(op, {"release", "revoke"}, n, e.owner)
      BY <1>7 DEF SignedBy, Owns
    <2> QED  BY <1>3, <1>7, <2>1
  <1> QED  BY <1>4, <1>5, <1>6, <1>7, AppliedEntry

LEMMA HeldAlong ==
    ASSUME NEW w, NEW ops, NEW m, Run(w, ops, m), NEW n \in Name
    PROVE  Held(w[m + 1].names[n], n, ops, m)
  <1> DEFINE T == {k \in Nat : k <= m => Held(w[k + 1].names[n], n, ops, k)}
  <1>1. 0 \in T
    <2>1. w[0 + 1].names[n] = None
      BY DEF Run, EmptyView
    <2> QED  BY <2>1 DEF Held
  <1>2. ASSUME NEW k \in T PROVE k + 1 \in T
    <2> SUFFICES ASSUME k + 1 <= m PROVE Held(w[k + 2].names[n], n, ops, k + 1)
      OBVIOUS
    <2>1. m \in Nat /\ k \in Nat /\ k + 1 \in 1..m /\ k + 1 \in 1..(m + 1)
      BY DEF Run
    <2>2. w[k + 1] \in View /\ ops[k + 1] \in Op /\ w[k + 2] = Applied(w[k + 1], ops[k + 1])
      BY <2>1 DEF Run
    <2>3. Held(w[k + 1].names[n], n, ops, k)
      BY <2>1
    <2> QED  BY <2>1, <2>2, <2>3, HeldStep
  <1>3. T = Nat
    <2>1. T \in SUBSET Nat
      OBVIOUS
    <2> HIDE DEF T
    <2> QED  BY <1>1, <1>2, <2>1, NatSetInduction
  <1> QED  BY <1>3 DEF Run

(***************************************************************************)
(* One skeleton's part of a view                                           *)
(***************************************************************************)
SliceEq(v, w, s) ==
    /\ v.skels[s] = w.skels[s]
    /\ \A n \in Name : SkeletonOf[n] = s => v.names[n] = w.names[n]

\* An operation on a name that looks different leaves it alone.
LEMMA SliceOther ==
    ASSUME NEW view \in View, NEW op \in Op, NEW s \in Skeleton, SkeletonOf[op.name] # s
    PROVE  SliceEq(Applied(view, op), view, s)
  <1> USE ConstantsAssumption
  <1> DEFINE k == SkeletonOf[op.name]
             after == Applied(view, op)
  <1>1. k \in Skeleton /\ DOMAIN view.skels = Skeleton /\ k # s
    BY DEF Op, View
  <1>2. \A n \in Name : SkeletonOf[n] = s => after.names[n] = view.names[n]
    BY AppliedEffect
  <1>3. after.skels \in {view.skels, SkelAdd(view, op), SkelRemove(view, op)}
    BY AppliedEffect DEF Effect
  <1>4. SkelAdd(view, op)[s] = view.skels[s]
    BY <1>1 DEF SkelAdd
  <1>5. SkelRemove(view, op)[s] = view.skels[s]
    BY <1>1 DEF SkelRemove
  <1> HIDE DEF after, k
  <1> QED  BY <1>2, <1>3, <1>4, <1>5 DEF SliceEq, after

\* An operation on it does the same wherever it is the same.
LEMMA SliceSame ==
    ASSUME NEW v \in View, NEW w \in View, NEW op \in Op, NEW s \in Skeleton,
           SkeletonOf[op.name] = s, SliceEq(v, w, s)
    PROVE  SliceEq(Applied(v, op), Applied(w, op), s)
  <1> USE ConstantsAssumption
  <1> DEFINE n == op.name
  <1>1. /\ n \in Name /\ DOMAIN v.names = Name /\ DOMAIN w.names = Name
        /\ DOMAIN v.skels = Skeleton /\ DOMAIN w.skels = Skeleton
    BY DEF Op, View
  <1>2. v.names[n] = w.names[n] /\ v.skels[s] = w.skels[s]
    BY <1>1 DEF SliceEq
  <1>3. /\ Claimable(v, op) <=> Claimable(w, op)
        /\ Owns(v, op) <=> Owns(w, op)
        /\ VersionOf(v, n) = VersionOf(w, n)
    BY <1>2 DEF Claimable, Owns, VersionOf
  <1>4. SkelAdd(v, op)[s] = SkelAdd(w, op)[s]
    BY <1>1, <1>2 DEF SkelAdd
  <1>5. SkelRemove(v, op)[s] = SkelRemove(w, op)[s]
    BY <1>1, <1>2 DEF SkelRemove
  <1>6. ASSUME Applied(v, op).names[n] = Applied(w, op).names[n],
               Applied(v, op).skels[s] = Applied(w, op).skels[s]
        PROVE  SliceEq(Applied(v, op), Applied(w, op), s)
    <2>1. ASSUME NEW x \in Name, SkeletonOf[x] = s
          PROVE  Applied(v, op).names[x] = Applied(w, op).names[x]
      <3>1. CASE x = n
        BY <1>6, <3>1
      <3>2. CASE x # n
        <4>1. Applied(v, op).names[x] = v.names[x]
          BY <3>2, AppliedEffect
        <4>2. Applied(w, op).names[x] = w.names[x]
          BY <3>2, AppliedEffect
        <4> QED  BY <2>1, <4>1, <4>2 DEF SliceEq
      <3> QED  BY <3>1, <3>2
    <2> QED  BY <1>6, <2>1 DEF SliceEq
  <1>7. CASE op.type = "claim" /\ Claimable(v, op)
    <2>1. Applied(v, op) = Claimed(v, op) /\ Applied(w, op) = Claimed(w, op)
      BY <1>3, <1>7 DEF Applied
    <2>2. Claimed(v, op).names[n] = Claimed(w, op).names[n]
      BY <1>1, <1>3 DEF Claimed
    <2>3. Claimed(v, op).skels[s] = Claimed(w, op).skels[s]
      BY <1>4 DEF Claimed
    <2> QED  BY <1>6, <2>1, <2>2, <2>3
  <1>8. CASE Rotates(v, op)
    <2>1. Applied(v, op) = Rotated(v, op) /\ Applied(w, op) = Rotated(w, op)
      BY <1>3, <1>8 DEF Applied, Rotates
    <2>2. Rotated(v, op).names[n] = Rotated(w, op).names[n]
      BY <1>1, <1>2 DEF Rotated, View
    <2>3. Rotated(v, op).skels[s] = Rotated(w, op).skels[s]
      BY <1>2 DEF Rotated, View
    <2> QED  BY <1>6, <2>1, <2>2, <2>3
  <1>9. CASE op.type = "release" /\ Owns(v, op)
    <2>1. Applied(v, op) = Released(v, op) /\ Applied(w, op) = Released(w, op)
      BY <1>3, <1>9 DEF Applied
    <2>2. Released(v, op).names[n] = Released(w, op).names[n]
      BY <1>1, <1>2 DEF Released
    <2>3. Released(v, op).skels[s] = Released(w, op).skels[s]
      BY <1>5 DEF Released
    <2> QED  BY <1>6, <2>1, <2>2, <2>3
  <1>10. CASE op.type = "revoke" /\ Owns(v, op)
    <2>1. Applied(v, op) = Revoked(v, op) /\ Applied(w, op) = Revoked(w, op)
      BY <1>3, <1>10 DEF Applied
    <2>2. Revoked(v, op).names[n] = Revoked(w, op).names[n]
      BY <1>1, <1>2 DEF Revoked, View
    <2>3. Revoked(v, op).skels[s] = Revoked(w, op).skels[s]
      BY <1>2 DEF Revoked, View
    <2> QED  BY <1>6, <2>1, <2>2, <2>3
  <1>11. CASE /\ ~(op.type = "claim" /\ Claimable(v, op)) /\ ~Rotates(v, op)
              /\ ~(op.type = "release" /\ Owns(v, op)) /\ ~(op.type = "revoke" /\ Owns(v, op))
    <2>1. Applied(v, op) = v
      BY <1>11, AppliedCases
    <2>2. Applied(w, op) = w
      BY <1>3, <1>11, AppliedCases DEF Rotates
    <2> QED  BY <2>1, <2>2
  <1> QED  BY <1>7, <1>8, <1>9, <1>10, <1>11

\* A stretch of operations on other skeletons leaves it alone.
LEMMA SliceQuiet ==
    ASSUME NEW w, NEW ops, NEW m, Run(w, ops, m), NEW s \in Skeleton,
           NEW a \in 0..m, NEW b \in 0..m, a <= b,
           \A i \in 1..m : a < i /\ i <= b => SkeletonOf[ops[i].name] # s
    PROVE  SliceEq(w[a + 1], w[b + 1], s)
  <1>0. m \in Nat /\ a \in Nat /\ b \in Nat
    BY DEF Run
  <1> DEFINE T == {d \in Nat : a + d <= b => SliceEq(w[a + 1], w[a + d + 1], s)}
  <1>1. 0 \in T
    BY <1>0 DEF SliceEq
  <1>2. ASSUME NEW d \in T PROVE d + 1 \in T
    <2> SUFFICES ASSUME a + (d + 1) <= b PROVE SliceEq(w[a + 1], w[a + (d + 1) + 1], s)
      OBVIOUS
    <2> DEFINE i == a + d + 1
    <2>1. /\ d \in Nat /\ i \in 1..m /\ i \in 1..(m + 1) /\ a < i /\ i <= b
          /\ i + 1 = a + (d + 1) + 1
      BY <1>0
    <2>2. SliceEq(w[a + 1], w[i], s)
      BY <1>0, <2>1
    <2> HIDE DEF i, T
    <2>3. w[i] \in View /\ ops[i] \in Op /\ w[i + 1] = Applied(w[i], ops[i])
      BY <2>1 DEF Run
    <2>4. SliceEq(w[i + 1], w[i], s)
      BY <2>1, <2>3, SliceOther
    <2> QED  BY <2>1, <2>2, <2>4 DEF SliceEq
  <1>3. T = Nat
    <2>1. T \in SUBSET Nat
      OBVIOUS
    <2> HIDE DEF T
    <2> QED  BY <1>1, <1>2, <2>1, NatSetInduction
  <1>4. b - a \in Nat /\ a + (b - a) = b
    BY <1>0
  <1> QED  BY <1>3, <1>4

\* The positions of the operations about a skeleton.
On(ops, m, s) == {i \in 1..m : SkeletonOf[ops[i].name] = s}

\* Two runs that apply the same operations on a skeleton in one order.
LEMMA SliceAgree ==
    ASSUME NEW v, NEW ps, NEW l, Run(v, ps, l),
           NEW w, NEW ops, NEW m, Run(w, ops, m), NEW s \in Skeleton,
           NEW f \in [On(ps, l, s) -> On(ops, m, s)],
           \A j \in On(ops, m, s) : \E i \in On(ps, l, s) : f[i] = j,
           \A i \in On(ps, l, s) : ps[i] = ops[f[i]],
           \A i, j \in On(ps, l, s) : i < j => f[i] < f[j]
    PROVE  SliceEq(v[l + 1], w[m + 1], s)
  <1>0. l \in Nat /\ m \in Nat
    BY DEF Run
  <1> DEFINE A == On(ps, l, s)
             B == On(ops, m, s)
             Match(a, b) == /\ \A i \in A : i <= a => f[i] <= b
                            /\ \A j \in B : j <= b => \E i \in A : i <= a /\ f[i] = j
             T == {a \in Nat : \A b \in 0..m :
                      a <= l /\ Match(a, b) => SliceEq(v[a + 1], w[b + 1], s)}
  <1>a. /\ A \subseteq 1..l /\ B \subseteq 1..m
        /\ \A i \in 1..l : i \in A <=> SkeletonOf[ps[i].name] = s
        /\ \A i \in 1..m : i \in B <=> SkeletonOf[ops[i].name] = s
    BY DEF On
  <1>b. /\ f \in [A -> B] /\ \A j \in B : \E i \in A : f[i] = j
        /\ \A i \in A : ps[i] = ops[f[i]]
        /\ \A i, j \in A : i < j => f[i] < f[j]
    OBVIOUS
  <1> HIDE DEF A, B
  <1>1. 0 \in T
    <2> SUFFICES ASSUME NEW b \in 0..m, Match(0, b) PROVE SliceEq(v[1], w[b + 1], s)
      BY <1>0
    <2>1. \A i \in 1..m : 0 < i /\ i <= b => SkeletonOf[ops[i].name] # s
      BY <1>0, <1>a
    <2>2. SliceEq(w[0 + 1], w[b + 1], s)
      <3>1. 0 \in 0..m /\ 0 <= b
        BY <1>0
      <3> QED  BY <2>1, <3>1, SliceQuiet
    <2>3. v[1] = w[1]
      BY DEF Run
    <2> QED  BY <2>2, <2>3
  <1>2. ASSUME NEW a \in T PROVE a + 1 \in T
    <2> SUFFICES ASSUME NEW b \in 0..m, a + 1 <= l, Match(a + 1, b)
                 PROVE  SliceEq(v[a + 2], w[b + 1], s)
      OBVIOUS
    <2>1. a \in Nat /\ a <= l /\ a + 1 \in 1..l /\ a + 1 \in 1..(l + 1) /\ b \in Nat /\ b <= m
      BY <1>0
    <2>2. v[a + 1] \in View /\ ps[a + 1] \in Op /\ v[a + 2] = Applied(v[a + 1], ps[a + 1])
      BY <2>1 DEF Run
    <2>3. CASE a + 1 \notin A
      <3>1. ASSUME NEW i \in A PROVE (i <= a + 1) <=> (i <= a)
        <4>1. i \in 1..l /\ i # a + 1
          BY <1>a, <2>3
        <4> QED  BY <2>1, <4>1
      <3>2. Match(a, b)
        BY <3>1
      <3>3. SliceEq(v[a + 1], w[b + 1], s)
        BY <2>1, <3>2
      <3>4. SliceEq(v[a + 2], v[a + 1], s)
        BY <1>a, <2>1, <2>2, <2>3, SliceOther
      <3> QED  BY <3>3, <3>4 DEF SliceEq
    <2>4. CASE a + 1 \in A
      <3> DEFINE j == f[a + 1]
      <3>1. /\ j \in B /\ j \in 1..m /\ j <= b /\ ps[a + 1] = ops[j]
            /\ j \in 1..(m + 1) /\ j - 1 \in 0..m /\ j - 1 + 1 = j /\ j \in 0..m
        <4>1. j \in B /\ j \in 1..m /\ ps[a + 1] = ops[j]
          BY <1>a, <1>b, <2>4
        <4>2. j <= b
          BY <2>1, <2>4
        <4> QED  BY <1>0, <4>1, <4>2
      <3>2. \A i \in A : i \in Nat /\ (i <= a \/ i = a + 1 \/ i > a + 1)
        BY <1>0, <1>a, <2>1
      <3>3. \A i \in A : f[i] \in 1..m
        BY <1>a, <1>b
      <3>4. Match(a, j - 1)
        <4>1. ASSUME NEW i \in A, i <= a PROVE f[i] <= j - 1
          <5>1. f[i] < j
            BY <1>b, <2>1, <2>4, <3>2, <4>1
          <5> QED  BY <3>1, <3>3, <5>1
        <4>2. ASSUME NEW k \in B, k <= j - 1
              PROVE  \E i \in A : i <= a /\ f[i] = k
          <5>1. k <= b /\ k # j /\ k \in 1..m
            BY <1>a, <2>1, <3>1, <4>2
          <5>2. PICK i \in A : i <= a + 1 /\ f[i] = k
            BY <5>1
          <5>3. i # a + 1
            BY <5>1, <5>2
          <5> QED  BY <2>1, <3>2, <5>2, <5>3
        <4> HIDE DEF j
        <4> QED  BY <4>1, <4>2
      <3>5. SliceEq(v[a + 1], w[j], s)
        <4>1. SliceEq(v[a + 1], w[j - 1 + 1], s)
          <5> HIDE DEF j, Match
          <5> QED  BY <2>1, <3>1, <3>4
        <4> QED  BY <3>1, <4>1
      <3>6. w[j] \in View /\ w[j + 1] = Applied(w[j], ops[j])
        BY <3>1 DEF Run
      <3>7. SliceEq(v[a + 2], w[j + 1], s)
        <4>1. SkeletonOf[ps[a + 1].name] = s
          BY <1>a, <2>1, <2>4
        <4> HIDE DEF j, T
        <4> QED  BY <2>2, <3>1, <3>5, <3>6, <4>1, SliceSame
      <3>8. ASSUME NEW i \in 1..m, j < i, i <= b
            PROVE  SkeletonOf[ops[i].name] # s
        <4> SUFFICES ASSUME i \in B PROVE FALSE
          BY <1>a
        <4>1. PICK k \in A : k <= a + 1 /\ f[k] = i
          BY <3>8
        <4>2. k = a + 1 \/ f[k] < j
          BY <1>b, <2>1, <2>4, <3>2, <4>1
        <4> QED  BY <3>1, <3>3, <3>8, <4>1, <4>2
      <3>9. SliceEq(w[j + 1], w[b + 1], s)
        <4> HIDE DEF j, T
        <4> QED  BY <3>1, <3>8, SliceQuiet
      <3> QED  BY <3>7, <3>9 DEF SliceEq
    <2> QED  BY <2>3, <2>4
  <1>3. T = Nat
    <2>1. T \in SUBSET Nat
      OBVIOUS
    <2> HIDE DEF T
    <2> QED  BY <1>1, <1>2, <2>1, NatSetInduction
  <1>4. Match(l, m)
    <2>1. \A i \in A : i <= l /\ f[i] \in B
      BY <1>0, <1>a, <1>b
    <2>2. ASSUME NEW j \in B PROVE j \in 1..m /\ j <= m
      <3>1. j \in 1..m
        BY <1>a
      <3> QED  BY <1>0, <3>1
    <2>3. \A j \in B : \E i \in A : i <= l /\ f[i] = j
      BY <1>b, <2>1
    <2> QED  BY <2>1, <2>2, <2>3
  <1>5. m \in 0..m /\ l \in T /\ l <= l
    BY <1>0, <1>3
  <1> HIDE DEF Match
  <1> QED  BY <1>4, <1>5

(***************************************************************************)
(* Theorems                                                                *)
(***************************************************************************)
\* Every node, order, snapshot and pending rotation is well formed, and a
\* replica keeps one snapshot more than it has applied nodes.
THEOREM TypeCorrect == Spec => []TypeOK
  <1>1. IInv => TypeOK
    BY DEF IInv
  <1> QED  BY <1>1, Invariant, PTL

\* A skeleton is reserved exactly when names that look like it are active or
\* tombstoned, by their one owner, in every snapshot of every replica whose
\* reducer wrote nothing wrong for a failing read.
THEOREM SkeletonsCorrect == Spec => []SkeletonsMirrorNames
  <1>1. IInv => SkeletonsMirrorNames
    BY DEF IInv, SkeletonsMirrorNames, Good
  <1> QED  BY <1>1, Invariant, PTL

\* Along every order of a replica that has not misread, a name's version only
\* climbs, entries of one version agree, and a tombstone is final.
THEOREM ForwardCorrect == Spec => []NamesOnlyMoveForward
  <1>1. IInv => NamesOnlyMoveForward
    <2> SUFFICES ASSUME IInv, NEW r \in Sound, NEW n \in Name,
                        NEW i \in DOMAIN views[r], NEW j \in DOMAIN views[r], i < j
                 PROVE  Forward(views[r][i].names[n], views[r][j].names[n])
      BY DEF NamesOnlyMoveForward, Forward
    <2>1. Good(views[r]) /\ DOMAIN views[r] = 1..Len(views[r])
      BY DEF IInv, TypeOK, Sound
    <2> QED  BY <2>1 DEF Good
  <1> QED  BY <1>1, Invariant, PTL

\* Whatever the order of a replica that has not misread, a claim by the holder
\* of an active name stands in it with no release or revocation by the holder
\* behind it, and the target stands at or behind that claim.
THEOREM HeldCorrect == Spec => []HeldByClaim
  <1>1. IInv /\ Folded => HeldByClaim
    <2> SUFFICES ASSUME IInv, Folded, NEW r \in Sound, NEW n \in Name
                 PROVE  Held(Current(r).names[n], n, OpsOf(r), Len(order[r]))
      BY ReplicaRuns DEF HeldByClaim, Held
    <2>1. /\ Run(views[r], OpsOf(r), Len(order[r]))
          /\ Current(r) = views[r][Len(order[r]) + 1]
      BY ReplicaRuns
    <2> QED  BY <2>1, HeldAlong
  <1> QED  BY <1>1, FoldedAlways, PTL

\* Two replicas that have not misread and disagree about a skeleton have not
\* applied the same operations on it in one order.
THEOREM AgreeCorrect == Spec => []AgreePerSkeleton
  <1>1. IInv /\ Folded => AgreePerSkeleton
    <2> SUFFICES ASSUME IInv, Folded, NEW r \in Sound, NEW q \in Sound,
                        NEW s \in Skeleton, SameOn(r, q, s)
                 PROVE  SliceEq(Current(r), Current(q), s)
      BY DEF AgreePerSkeleton, AgreeOn, SliceEq
    <2> DEFINE l == Len(order[r])
               m == Len(order[q])
    <2>1. /\ Run(views[r], OpsOf(r), l) /\ DOMAIN order[r] = 1..l
          /\ Current(r) = views[r][l + 1]
          /\ Run(views[q], OpsOf(q), m) /\ DOMAIN order[q] = 1..m
          /\ Current(q) = views[q][m + 1]
      BY ReplicaRuns
    <2>2. About(r, s) = On(OpsOf(r), l, s) /\ About(q, s) = On(OpsOf(q), m, s)
      BY <2>1 DEF About, On
    <2>3. PICK f \in Surjection(About(r, s), About(q, s)) :
            \A i \in About(r, s) :
                /\ OpsOf(r)[i] = OpsOf(q)[f[i]]
                /\ \A j \in About(r, s) : i < j => f[i] < f[j]
      BY DEF SameOn
    <2>4. /\ f \in [About(r, s) -> About(q, s)]
          /\ \A j \in About(q, s) : \E i \in About(r, s) : f[i] = j
      BY <2>3 DEF Surjection
    <2> HIDE DEF l, m
    <2> QED  BY <2>1, <2>2, <2>3, <2>4, SliceAgree
  <1> QED  BY <1>1, FoldedAlways, PTL
=============================================================================
