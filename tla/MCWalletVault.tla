--------------------------- MODULE MCWalletVault ---------------------------
(***************************************************************************)
(* The vault over the engine; each worklet is one call of the service, so  *)
(* three of them are two overlapping calls and one that reads the result.  *)
(***************************************************************************)
EXTENDS WalletVault, TLC

\* For the run that checks safety only, where worklets are interchangeable.
MCSymmetry == Permutations(Worklet)
=============================================================================
