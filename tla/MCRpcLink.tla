----------------------------- MODULE MCRpcLink -----------------------------
(***************************************************************************)
(* The link with the sockets, page loads and diagnostics a configuration   *)
(* gives.  Loads and sockets are numbered, so there is no symmetry.        *)
(***************************************************************************)
EXTENDS RpcLink
=============================================================================
