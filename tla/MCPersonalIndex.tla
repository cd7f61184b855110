-------------------------- MODULE MCPersonalIndex --------------------------
(* Pages that are indexed again, an index too small for them, a binding and  *)
(* its revocation, over failing writes, failing reads and crashes.           *)
EXTENDS PersonalIndex, TLC

MCSymmetry == Permutations(Doc) \cup Permutations(Term) \cup Permutations(IndexCall)
=============================================================================
