--------------------------- MODULE MCClusterView ---------------------------
(* A cluster of two servers and one Keeper, a backup task, and a neighbour *)
(* "<name>-0" one of whose pods, "<name>-0-0", sorts between the servers.  *)
EXTENDS ClusterView

MCPlace == [p \in ServerPods |->
    IF p \in Strangers THEN 15 ELSE 10 * p]
=============================================================================
