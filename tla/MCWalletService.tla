-------------------------- MODULE MCWalletService --------------------------
EXTENDS WalletService

CONSTANTS r1, r2, r3, t1, t2, d1, d2, k1, k2, b1, b2

\* r3 repeats r1 under r1's key, from another tab where there is one.
MCTupleOf == [r \in Req |-> IF r # r1 /\ t2 \in Tuple THEN t2 ELSE t1]
MCDriveOf == [t \in Tuple |-> IF t = t2 /\ d2 \in Drive THEN d2 ELSE d1]
MCKeyOf == [r \in Req |-> IF r = r2 /\ k2 \in Key THEN k2 ELSE k1]
MCBodyOf == [r \in Req |-> IF r = r2 /\ b2 \in Body THEN b2 ELSE b1]
=============================================================================
