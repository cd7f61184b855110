-------------------------- MODULE MCWalletJournal --------------------------
EXTENDS WalletJournal

CONSTANTS i1, i2, k1

\* Every payment asks for the same key.
MCKeyOf == [i \in Intent |-> k1]
=============================================================================
