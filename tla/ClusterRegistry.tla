-------------------------- MODULE ClusterRegistry --------------------------
(***************************************************************************)
(* What the creation of clusters promises: a registry of clusters in which *)
(* a create takes effect at one moment.  A client that is told "accepted"  *)
(* has just put its body under a free name, one that is told "exists" has  *)
(* found a cluster there.  A create that ended otherwise has had no effect,*)
(* or is pending: it may take effect once, later, if the name is free then.*)
(***************************************************************************)
CONSTANTS Requests, Clusters, BodyOf

VARIABLES
    registered, \* the bodies the clusters that are there were made from
    blocked,    \* the clusters whose name something else has taken
    open,       \* the requests that are being handled
    told,       \* the last thing a client was told of its cluster
    pending     \* the bodies of creates whose callers are gone

registryVars == <<registered, blocked, open, told, pending>>

Init ==
    /\ registered = {} /\ blocked = {} /\ pending = {} /\ open = {}
    /\ told = [r \in Requests |-> "nothing"]

Cluster(r) == BodyOf[r].cluster
IsThere(c) == \E b \in registered : b.cluster = c
IsFree(c) == c \notin blocked /\ ~IsThere(c)

(* A client posts until it knows that its cluster is there.                *)
Post(r) ==
    /\ r \notin open /\ told[r] = "nothing"
    /\ open' = open \cup {r}
    /\ UNCHANGED <<registered, blocked, told, pending>>

Tell(r, what) ==
    /\ r \in open
    /\ open' = open \ {r}
    /\ told' = [told EXCEPT ![r] = what]

Accept(r) ==
    /\ Tell(r, "accepted")
    /\ IsFree(Cluster(r))
    /\ registered' = registered \cup {BodyOf[r]}
    /\ UNCHANGED <<blocked, pending>>

Refuse(r) ==
    /\ Tell(r, "exists")
    /\ IsThere(Cluster(r))
    /\ UNCHANGED <<registered, blocked, pending>>

(* Requests end with an error, or are lost with their process.             *)
Abandon(R) ==
    /\ open' = open \ R
    /\ \E Q \in SUBSET R : pending' = pending \cup {BodyOf[r] : r \in Q}
    /\ UNCHANGED <<registered, blocked, told>>

Settle(b) ==
    /\ pending' = pending \ {b}
    /\ registered' = registered \cup {x \in {b} : IsFree(b.cluster)}
    /\ UNCHANGED <<blocked, open, told>>

(* An administrator removes a cluster.                                     *)
Remove(b) ==
    /\ registered' = registered \ {b}
    /\ UNCHANGED <<blocked, open, told, pending>>

(* Something else takes a free name, or leaves it.                         *)
Block(c) ==
    /\ IsFree(c)
    /\ blocked' = blocked \cup {c}
    /\ UNCHANGED <<registered, open, told, pending>>

Unblock(c) ==
    /\ blocked' = blocked \ {c}
    /\ UNCHANGED <<registered, open, told, pending>>

Next ==
    \/ \E r \in Requests : Post(r) \/ Accept(r) \/ Refuse(r)
    \/ \E R \in SUBSET open : R # {} /\ Abandon(R)
    \/ \E b \in pending : Settle(b)
    \/ \E b \in registered : Remove(b)
    \/ \E c \in Clusters : Block(c)
    \/ \E c \in blocked : Unblock(c)

Spec == Init /\ [][Next]_registryVars

=============================================================================
