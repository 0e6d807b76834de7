---------------------------- MODULE LatestReport ----------------------------
(***************************************************************************)
(* What POST /healthcheck and GET /healthcheck/latest promise together: a  *)
(* register per process and cluster. A report is published at one instant, *)
(* with a run number above the one before it; what a client is shown is    *)
(* what the register holds; only a restart of the process clears it.       *)
(***************************************************************************)
EXTENDS Naturals

CONSTANTS Servers, Clusters, MaxCrashes

VARIABLES
    latest,  \* the published report of a process and a cluster
    shown,   \* the run a client of this process was last shown
    crashes  \* restarts of a process

registerVars == <<latest, shown, crashes>>

Keys == Servers \X Clusters
Statuses == {"PASS", "WARN", "FAIL"}
NoReport == [run |-> 0, status |-> "NONE"]
Reports == [run : Nat, status : Statuses] \cup {NoReport}

Init ==
    /\ latest = [k \in Keys |-> NoReport]
    /\ shown = [k \in Keys |-> 0]
    /\ crashes = [s \in Servers |-> 0]

(* Any report of a later run may be next. *)
Publish(k) ==
    /\ latest'[k] \in Reports
    /\ latest[k].run < latest'[k].run
    /\ latest' = [latest EXCEPT ![k] = latest'[k]]
    /\ UNCHANGED <<shown, crashes>>

Show(k) ==
    /\ latest[k] # NoReport
    /\ shown' = [shown EXCEPT ![k] = latest[k].run]
    /\ UNCHANGED <<latest, crashes>>

Restart(s) ==
    /\ crashes[s] < MaxCrashes
    /\ crashes' = [crashes EXCEPT ![s] = @ + 1]
    /\ latest' = [k \in Keys |-> IF k[1] = s THEN NoReport ELSE latest[k]]
    /\ shown' = [k \in Keys |-> IF k[1] = s THEN 0 ELSE shown[k]]

Next ==
    \/ \E k \in Keys : Publish(k) \/ Show(k)
    \/ \E s \in Servers : Restart(s)

Spec == Init /\ [][Next]_registerVars

=============================================================================
