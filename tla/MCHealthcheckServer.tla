------------------------ MODULE MCHealthcheckServer ------------------------
(* Small instances of HealthcheckServer for TLC. *)
EXTENDS HealthcheckServer, TLC

CONSTANTS s1, s2, c1, c2

(* Every request goes to the one process and names the one cluster. *)
OneServer == [r \in Requests |-> s1]
OneCluster == [r \in Requests |-> c1]

(* One pod; and three, the last two of them replicas of one shard. *)
OnePod == [p \in 1 .. 1 |-> "shard0"]
TwoShards == [p \in 1 .. 3 |-> IF p = 1 THEN "shard0" ELSE "shard1"]

Symmetry == Permutations(Requests)
=============================================================================
