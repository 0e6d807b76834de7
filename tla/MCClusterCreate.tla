-------------------------- MODULE MCClusterCreate --------------------------
(* Small instances of ClusterCreate for TLC. *)
EXTENDS ClusterCreate, TLC

CONSTANTS r1, r2, v1, v2, o1, o2

Body(cluster, version, topology, options) ==
    [cluster |-> cluster, version |-> version,
     topology |-> topology, options |-> options]

(* A topology is small, with one Keeper, or wide, with two.                *)
SmallAndWide ==
    [keeper |-> [small |-> 1, wide |-> 2], server |-> [small |-> 1, wide |-> 2]]

(* <name>-keeper and <name>.                                               *)
UnitSetNames == [keeper |-> ("a" :> "a-keeper"), server |-> ("a" :> "a")]

(* Two clients that race for one cluster with different bodies.            *)
TwoVersions ==
    r1 :> Body("a", v1, "small", o1) @@ r2 :> Body("a", v2, "wide", o1)
TwoOptions ==
    r1 :> Body("a", v1, "small", o1) @@ r2 :> Body("a", v1, "small", o2)

(* The options differ in what only the server is made from.                *)
OneKeeperPart == [o \in Options |-> "class, Keeper size, admin Secret"]

NoForeign == << >>
OneForeign == "a-extra" :> [kind |-> "other", body |-> Body("a", v1, "small", o1)]

Small == [v \in Versions |-> "small"]
SmallThenWide == [v \in Versions |-> IF v = v1 THEN "small" ELSE "wide"]

=============================================================================
