----------------------------- MODULE MCRaftStore -----------------------------
(***************************************************************************)
(* Two terms; the first entry configures the cluster.                      *)
(***************************************************************************)
EXTENDS RaftStore
=============================================================================
