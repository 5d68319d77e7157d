----------------------------- MODULE MCCluster -----------------------------
(* The instance for Cluster: the constants are model values, see the .cfg. *)
EXTENDS Cluster
=============================================================================
