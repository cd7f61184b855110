--------------------------- MODULE MCNameRegistry ---------------------------
EXTENDS NameRegistry, TLC
CONSTANTS o1, o2, n1, n2, n3, s1, s2, t1, t2, ra, rb

\* n1 and n2 look alike, n3 does not; each device signs as its own owner.
MCSkeletonOf == [n \in Name |-> IF n = n3 THEN s2 ELSE s1]
MCOwnerOf == ra :> o1 @@ rb :> o2

\* The look-alikes, the targets, and the two devices with their owners can be
\* exchanged; a device never without its owner.
SwapSides == o1 :> o2 @@ o2 :> o1 @@ ra :> rb @@ rb :> ra
Swaps == {n1 :> n2 @@ n2 :> n1, t1 :> t2 @@ t2 :> t1, SwapSides}
Identity == [x \in {o1, o2, n1, n2, t1, t2, ra, rb} |-> x]
MCSymmetry == {p @@ q @@ r @@ Identity : p, q, r \in Swaps}
=============================================================================
