----------------------------- MODULE ClusterView -----------------------------
(***************************************************************************)
(* What upm-api-server says of the state of a cluster: GET of the cluster, *)
(* the inspection of a healthcheck and the metrics summary                 *)
(* (internal/kube/store.go).  Each looks at Kubernetes, at the pods and at *)
(* Prometheus in a fixed order, one call a step, while pods restart, the   *)
(* operator counts its ready units late, Prometheus scrapes late and backup*)
(* tasks come and go.  A pod belongs to a cluster by its label OR by a name*)
(* that begins with "<cluster>-": listClusterPods also takes the pods of   *)
(* backup tasks, and those of another cluster "<cluster>-x" of the same    *)
(* namespace (here the neighbour), for pods of this one.                   *)
(***************************************************************************)
EXTENDS FiniteSets, Integers, Sequences

CONSTANTS
    NumServers,  \* server pods of the topology
    NumTasks,    \* pods of backup and restore tasks there may be
    NumKeepers,  \* Keeper pods of the topology
    NumStrangers,      \* pods of the neighbour, server and Keeper pods alike
    NumStrangeKeepers, \* those of a neighbour "<name>-keeper-x"
    Place,       \* the place of a pod when they are sorted by name
    MaxFaults    \* bound: pods that go down, objects that are deleted

Servers == 1 .. NumServers
Tasks == NumServers + 1 .. NumServers + NumTasks
Strangers == NumServers + NumTasks + 1 .. NumServers + NumTasks + NumStrangers
Keepers == 1 .. NumKeepers
StrangeKeepers == NumKeepers + 1 .. NumKeepers + NumStrangeKeepers

(* The pods that resourceMatches lets in: by label those of the cluster and*)
(* of its tasks, by name also the neighbour's.  Those whose names begin    *)
(* with "<name>-keeper-" are taken for Keeper pods, all others for servers.*)
ServerPods == Servers \cup Tasks \cup Strangers
KeeperPods == Keepers \cup StrangeKeepers

ASSUME TopologyAssumption ==
    /\ NumServers \in Nat \ {0} /\ NumKeepers \in Nat \ {0} /\ NumTasks \in Nat
    /\ NumStrangers \in Nat /\ NumStrangeKeepers \in Nat
(* Of the names <name>-0, <name>-1, ... of the servers the first sorts     *)
(* before the others; a name of the neighbour may sort before or after it. *)
ASSUME PlaceAssumption ==
    Place \in [ServerPods -> Int] /\ \A s \in Servers : Place[1] <= Place[s]
ASSUME BoundAssumption == MaxFaults \in Nat

VARIABLES
    pod,        \* the phase of a pod that is taken for a server
    keeperPod,  \* of one that is taken for a Keeper
    neighbour,  \* there are clusters "<name>-x" in the namespace
    reported,   \* status.readyUnits of the two UnitSets
    keeperSet,  \* the Keeper UnitSet exists
    package,    \* the package of the version of the cluster is installed
    target,     \* the last scrape of a server pod found it up
    kind,       \* what is asked: "status", "health" or "metrics"
    step,       \* what the handler reads next
    seen,       \* what GetCluster has read
    listed,     \* the server pods, the Keeper pods that were listed
    verdict,    \* of the checks so far
    answer,
    faults,     \* what the bound counts
    \* History of the request, read by the properties only:
    disturbed,  \* the cluster was not sound or not alone at some time, or a
                \* call failed
    tasked,     \* or it had a task pod at some time
    allUp       \* all server pods were ready at some one time

envVars == <<pod, keeperPod, neighbour, reported, keeperSet, package, target, faults>>
requestVars == <<kind, step, seen, listed, verdict, answer>>
vars == <<envVars, requestVars, disturbed, tasked, allUp>>

Kinds == {"status", "health", "metrics"}
HealthChecks == <<"project", "keeperUnitSet", "serverUnitSet", "pods", "pvcs",
                  "services", "ruok", "roles", "select", "clusters", "probe",
                  "replicas", "metricsPort", "secrets">>
MetricsChecks == <<"list", "podMonitor", "targets", "cpu", "memory",
                   "clickhouse", "storage">>
Checks == [status |-> << >>, health |-> HealthChecks, metrics |-> MetricsChecks]
HealthNames == {HealthChecks[i] : i \in 1 .. Len(HealthChecks)}
MetricsNames == {MetricsChecks[i] : i \in 1 .. Len(MetricsChecks)}
Phases == {"absent", "present", "ready"}
Answers == {"NONE", "ERROR", "PANIC", "Running", "Degraded", "Provisioning",
            "PASS", "WARN", "FAIL", "READY", "DEGRADED", "PROMETHEUS_UNAVAILABLE"}

TypeOK ==
    /\ pod \in [ServerPods -> Phases]
    /\ keeperPod \in [KeeperPods -> Phases]
    /\ neighbour \in BOOLEAN
    /\ reported \in [keeper : 0 .. NumKeepers, server : 0 .. NumServers]
    /\ keeperSet \in BOOLEAN /\ package \in BOOLEAN
    /\ target \in [Servers -> BOOLEAN]
    /\ kind \in Kinds
    /\ step \in {"idle", "server", "keeper", "package", "answered"}
                  \cup HealthNames \cup MetricsNames
    /\ seen \in [server : 0 .. NumServers, keeper : 0 .. NumKeepers, found : BOOLEAN]
    /\ listed \in [server : SUBSET ServerPods, keeper : SUBSET KeeperPods]
    /\ verdict \in {"PASS", "WARN", "FAIL"}
    /\ answer \in Answers
    /\ faults \in 0 .. MaxFaults
    /\ disturbed \in BOOLEAN /\ tasked \in BOOLEAN /\ allUp \in BOOLEAN

Unseen == [server |-> 0, keeper |-> 0, found |-> FALSE]
NoPods == [server |-> {}, keeper |-> {}]
AllUp == \A s \in Servers : pod[s] = "ready"
Sound ==
    /\ AllUp /\ \A k \in Keepers : keeperPod[k] = "ready"
    /\ reported = [keeper |-> NumKeepers, server |-> NumServers]
    /\ keeperSet /\ package
    /\ \A s \in Servers : target[s]
HasTask == \E t \in Tasks : pod[t] # "absent"

(* A cluster that runs, or one that is being created.                      *)
Init ==
    /\ \/ /\ pod = [p \in ServerPods |-> IF p \in Servers THEN "ready" ELSE "absent"]
          /\ keeperPod = [k \in KeeperPods |-> IF k \in Keepers THEN "ready" ELSE "absent"]
          /\ reported = [keeper |-> NumKeepers, server |-> NumServers]
          /\ target = [s \in Servers |-> TRUE]
       \/ /\ pod = [p \in ServerPods |-> "absent"]
          /\ keeperPod = [k \in KeeperPods |-> IF k \in Keepers THEN "present" ELSE "absent"]
          /\ reported = [keeper |-> 0, server |-> 0]
          /\ target = [s \in Servers |-> FALSE]
    /\ keeperSet = TRUE /\ package = TRUE /\ neighbour = FALSE
    /\ kind = "status" /\ step = "idle" /\ answer = "NONE"
    /\ seen = Unseen /\ listed = NoPods /\ verdict = "PASS"
    /\ faults = 0
    /\ disturbed = FALSE /\ tasked = FALSE /\ allUp = FALSE

-----------------------------------------------------------------------------
(* The environment. "Witness" keeps the history of the request.            *)

Witness(fault) ==
    /\ disturbed' = (disturbed \/ fault \/ ~Sound' \/ neighbour')
    /\ tasked' = (disturbed' \/ tasked \/ HasTask')
    /\ allUp' = (allUp \/ AllUp')
Environment == step \notin {"idle", "answered"} /\ UNCHANGED requestVars /\ Witness(FALSE)
Fault == faults < MaxFaults /\ faults' = faults + 1
Ready(f, pods) == Cardinality({p \in pods : f[p] = "ready"})

ServerUp(s) ==
    /\ pod[s] # "ready"
    /\ pod' = [pod EXCEPT ![s] = IF @ = "absent" THEN "present" ELSE "ready"]
    /\ UNCHANGED <<keeperPod, neighbour, reported, keeperSet, package, target, faults>>
    /\ Environment
ServerDown(s) ==
    /\ Fault /\ pod[s] # "absent"
    /\ \E phase \in {"absent", "present"} : pod' = [pod EXCEPT ![s] = phase]
    /\ UNCHANGED <<keeperPod, neighbour, reported, keeperSet, package, target>>
    /\ Environment
KeeperUp(k) ==
    /\ keeperPod[k] = "present"
    /\ keeperPod' = [keeperPod EXCEPT ![k] = "ready"]
    /\ UNCHANGED <<pod, neighbour, reported, keeperSet, package, target, faults>>
    /\ Environment
KeeperDown(k) ==
    /\ Fault /\ keeperPod[k] = "ready"
    /\ keeperPod' = [keeperPod EXCEPT ![k] = "present"]
    /\ UNCHANGED <<pod, neighbour, reported, keeperSet, package, target>>
    /\ Environment

(* The operator writes how many units are ready.                           *)
Reconcile ==
    /\ reported' = [keeper |-> Ready(keeperPod, Keepers), server |-> Ready(pod, Servers)]
    /\ UNCHANGED <<pod, keeperPod, neighbour, keeperSet, package, target, faults>>
    /\ Environment

(* An administrator deletes the Keeper UnitSet, or the package.            *)
DeleteKeeper ==
    /\ Fault /\ keeperSet /\ keeperSet' = FALSE
    /\ keeperPod' = [k \in KeeperPods |-> IF k \in Keepers THEN "absent" ELSE keeperPod[k]]
    /\ UNCHANGED <<pod, neighbour, reported, package, target>>
    /\ Environment
RemovePackage ==
    /\ Fault /\ package /\ package' = FALSE
    /\ UNCHANGED <<pod, keeperPod, neighbour, reported, keeperSet, target>>
    /\ Environment

(* The pod of a task comes, is ready while the task runs, is there until   *)
(* its Job is cleaned up, and goes.                                        *)
TaskMoves(t) ==
    /\ \E phase \in Phases : phase # pod[t] /\ pod' = [pod EXCEPT ![t] = phase]
    /\ UNCHANGED <<keeperPod, neighbour, reported, keeperSet, package, target, faults>>
    /\ Environment

(* Neighbours are created and deleted, and their pods come and go.         *)
NeighbourMoves ==
    /\ neighbour' \in BOOLEAN
    /\ \E phase \in [Strangers -> Phases], keeperPhase \in [StrangeKeepers -> Phases] :
          /\ ~neighbour' => /\ \A p \in Strangers : phase[p] = "absent"
                            /\ \A k \in StrangeKeepers : keeperPhase[k] = "absent"
          /\ pod' = [p \in ServerPods |-> IF p \in Strangers THEN phase[p] ELSE pod[p]]
          /\ keeperPod' = [k \in KeeperPods |->
                IF k \in StrangeKeepers THEN keeperPhase[k] ELSE keeperPod[k]]
    /\ UNCHANGED <<reported, keeperSet, package, target, faults>>
    /\ Environment

Scrape(s) ==
    /\ target' = [target EXCEPT ![s] = (pod[s] = "ready")]
    /\ UNCHANGED <<pod, keeperPod, neighbour, reported, keeperSet, package, faults>>
    /\ Environment

-----------------------------------------------------------------------------
(* The handlers.                                                           *)

Reply(a) ==
    /\ step' = "answered" /\ answer' = a
    /\ seen' = Unseen /\ UNCHANGED <<kind, listed, verdict>>

Arrive ==
    /\ step \in {"idle", "answered"}
    /\ kind' \in Kinds /\ step' = "server"
    /\ seen' = Unseen /\ listed' = NoPods /\ verdict' = "PASS" /\ answer' = "NONE"
    /\ UNCHANGED envVars
    /\ disturbed' = (~Sound \/ neighbour) /\ tasked' = (disturbed' \/ HasTask)
    /\ allUp' = AllUp

(* GetCluster: the server UnitSet, the Keeper UnitSet, the package.        *)
ReadServer ==
    /\ step = "server"
    /\ UNCHANGED envVars
    /\ \/ /\ seen' = [server |-> reported.server, keeper |-> 0, found |-> FALSE]
          /\ step' = "keeper"
          /\ UNCHANGED <<kind, listed, verdict, answer>>
          /\ Witness(FALSE)
       \/ Reply("ERROR") /\ Witness(TRUE)

ReadKeeper ==
    /\ step = "keeper"
    /\ UNCHANGED envVars
    /\ \/ /\ seen' = [server |-> seen.server, found |-> keeperSet,
                      keeper |-> IF keeperSet THEN reported.keeper ELSE 0]
          /\ step' = "package"
          /\ UNCHANGED <<kind, listed, verdict, answer>>
          /\ Witness(FALSE)
       \/ Reply("ERROR") /\ Witness(TRUE)

(* Mutant of ClusterStatus: the expectations are swapped.                  *)
ClusterStatus_Swapped(serverReady, keeperReady) ==
    IF serverReady = NumKeepers /\ keeperReady = NumServers THEN "Running"
    ELSE IF serverReady > 0 \/ keeperReady > 0 THEN "Degraded" ELSE "Provisioning"
ClusterStatus(serverReady, keeperReady) ==
    IF serverReady = NumServers /\ keeperReady = NumKeepers THEN "Running"
    ELSE IF serverReady > 0 \/ keeperReady > 0 THEN "Degraded" ELSE "Provisioning"

(* The error of the Keeper read is overwritten by that of the package: with*)
(* the package the Keeper object is used though it is nil, without it the  *)
(* units of the Keeper count as not ready.                                 *)
ReadPackage ==
    /\ step = "package"
    /\ UNCHANGED envVars
    /\ \E ok \in {package, FALSE} :
         /\ \/ ok /\ ~seen.found /\ Reply("PANIC")
            \/ /\ ok => seen.found
               /\ kind = "status"
               /\ Reply(ClusterStatus(seen.server, IF ok THEN seen.keeper ELSE 0))
            \/ /\ ok => seen.found
               /\ kind # "status"
               /\ step' = Checks[kind][1] /\ seen' = Unseen
               /\ UNCHANGED <<kind, listed, verdict, answer>>
         /\ Witness(~ok)

Listed == [server |-> {p \in ServerPods : pod[p] # "absent"},
           keeper |-> {k \in KeeperPods : keeperPod[k] # "absent"}]

(* The container "clickhouse" of a pod answers an exec as the check wants  *)
(* it.  "open" is what is left open of the neighbour: which of its pods    *)
(* have that container, its topology, PVCs and Services.                   *)
Answering(p, open) == pod[p] = "ready" /\ (p \in Servers \/ (p \in Strangers /\ open))
First == {p \in listed.server : \A q \in listed.server : Place[p] <= Place[q]}
FirstAnswers(open) == \E p \in First : Answering(p, open)
KeepersAnswer(open) ==
    /\ listed.keeper # {}
    /\ \A k \in listed.keeper : keeperPod[k] = "ready" /\ (k \in Keepers \/ open)
(* SQL that needs every server of the cluster that the first pod is of.    *)
ClusterAnswers(open) == \E p \in First : Answering(p, open) /\ (p \in Servers => AllUp)

(* checkPodsReady: numbers and readiness of what was listed.               *)
PodsReady(pods) ==
    /\ Cardinality(pods.server) = NumServers /\ Cardinality(pods.keeper) = NumKeepers
    /\ \A p \in pods.server : pod[p] = "ready"
    /\ \A k \in pods.keeper : keeperPod[k] = "ready"

(* Mutant of TargetsUp: the targets that are up are counted.               *)
TargetsUp_Counted(pods) == Cardinality({s \in Servers : target[s]}) = NumServers
(* Every listed pod has a target, and it is up.                            *)
TargetsUp(pods) == \A p \in pods : p \in Servers /\ target[p]

(* What a check finds when its calls succeed.  Project, redaction, and the *)
(* PVCs and Services of the cluster are as they were made: only a fault    *)
(* makes them fail, or the neighbour, whose PVCs and Services are counted. *)
(* The probe runs on every listed pod.                                     *)
Holds(s, open) ==
    CASE s = "keeperUnitSet" -> keeperSet /\ reported.keeper = NumKeepers
      [] s = "serverUnitSet" -> reported.server = NumServers
      [] s = "pods" -> PodsReady(Listed)
      [] s \in {"pvcs", "services"} -> neighbour => open
      [] s \in {"ruok", "roles"} -> KeepersAnswer(open)
      [] s \in {"select", "clusters", "metricsPort"} -> FirstAnswers(open)
      [] s = "probe" -> ClusterAnswers(open) /\ \A p \in listed.server : Answering(p, open)
      [] s = "replicas" -> ClusterAnswers(open)
      [] s = "list" -> Listed.server # {}
      [] OTHER -> TRUE

Worse(v, w) ==
    IF "FAIL" \in {v, w} THEN "FAIL" ELSE IF "WARN" \in {v, w} THEN "WARN" ELSE "PASS"
Failure(s) == IF kind = "metrics" \/ s = "metricsPort" THEN "WARN" ELSE "FAIL"
(* Mutant of Final: nothing is said of a summary with warnings.            *)
Final_Unset(v) ==
    IF kind = "health" THEN v ELSE IF v = "PASS" THEN "READY" ELSE ""
Final(v) ==
    IF kind = "health" THEN v ELSE IF v = "PASS" THEN "READY" ELSE "DEGRADED"
Position(s) == CHOOSE i \in 1 .. Len(Checks[kind]) : Checks[kind][i] = s

Record(s, v) ==
    /\ verdict' = v
    /\ IF Position(s) = Len(Checks[kind])
       THEN step' = "answered" /\ answer' = Final(v)
       ELSE step' = Checks[kind][Position(s) + 1] /\ UNCHANGED answer
    /\ UNCHANGED <<kind, seen>>

(* listClusterPods: a failed call leaves a healthcheck without pods and is *)
(* the error of a metrics summary.                                         *)
ListPods ==
    /\ step \in {"pods", "list"}
    /\ UNCHANGED envVars
    /\ \/ /\ listed' = Listed
          /\ Record(step, IF Holds(step, TRUE) THEN verdict ELSE Worse(verdict, Failure(step)))
          /\ Witness(FALSE)
       \/ /\ step = "pods" /\ listed' = NoPods
          /\ Record(step, Worse(verdict, Failure(step)))
          /\ Witness(TRUE)
       \/ step = "list" /\ Reply("ERROR") /\ Witness(TRUE)

(* Mutant of Check: the last check decides.                                *)
Check_LastWins(s) ==
    /\ step = s /\ s # "pods"
    /\ UNCHANGED envVars
    /\ \E open \in BOOLEAN : Record(s, IF Holds(s, open) THEN "PASS" ELSE Failure(s))
    /\ UNCHANGED listed
    /\ Witness(FALSE)

(* A check of the inspection: a call that fails fails it and the run goes  *)
(* on.                                                                     *)
Check(s) ==
    /\ step = s /\ s # "pods"
    /\ UNCHANGED envVars
    /\ \E open \in BOOLEAN :
          \/ Holds(s, open) /\ Record(s, verdict) /\ Witness(FALSE)
          \/ Record(s, Worse(verdict, Failure(s))) /\ Witness(Holds(s, open))
    /\ UNCHANGED listed

(* The targets Prometheus has scraped: without an answer no summary.       *)
Targets ==
    /\ step = "targets"
    /\ UNCHANGED envVars
    /\ \/ /\ Record("targets", IF TargetsUp(listed.server) THEN verdict ELSE "WARN")
          /\ UNCHANGED listed
          /\ Witness(FALSE)
       \/ Reply("PROMETHEUS_UNAVAILABLE") /\ Witness(TRUE)

(* The PodMonitor, or the samples of one category: an answer that fails, is*)
(* no vector of numbers or is empty is a warning.                          *)
Sample(s) ==
    /\ step = s /\ s \notin {"list", "targets"}
    /\ UNCHANGED envVars
    /\ \/ Record(s, verdict) /\ Witness(FALSE)
       \/ Record(s, "WARN") /\ Witness(TRUE)
    /\ UNCHANGED listed

Next ==
    \/ Arrive \/ ReadServer \/ ReadKeeper \/ ReadPackage \/ ListPods
    \/ \E s \in HealthNames : Check(s)
    \/ \E s \in MetricsNames : Sample(s)
    \/ Targets
    \/ \E s \in Servers : ServerUp(s) \/ ServerDown(s) \/ Scrape(s)
    \/ \E k \in Keepers : KeeperUp(k) \/ KeeperDown(k)
    \/ \E t \in Tasks : TaskMoves(t)
    \/ NeighbourMoves \/ Reconcile \/ DeleteKeeper \/ RemovePackage

Spec == Init /\ [][Next]_vars

-----------------------------------------------------------------------------
(* Properties. *)

Good == {"Running", "PASS", "READY"}

(* A cluster that is sound from the request to its answer is said to be:   *)
(* no order of the reads makes a sound cluster look ill, as long as it has *)
(* no task pods and no neighbour meanwhile (either can make it look ill).  *)
SoundIsSeen ==
    step = "answered" /\ ~disturbed /\ ~tasked => answer \in Good

(* A healthcheck that passes has seen a moment at which all servers were   *)
(* ready: neither a count of the operator that is out of date nor a pod of *)
(* a task or of a neighbour that makes up for a missing server in the count*)
(* of the pods hides that one was away all the time.  Unless the pod that  *)
(* its SQL was sent to, the first by name, is itself the neighbour's.      *)
PassMeansAllUp == answer = "PASS" => allUp \/ First \cap Strangers # {}

(* READY is never said of the pods of a task or of a neighbour, nor of     *)
(* none: every pod it is about is a server.                                *)
ReadyIsOfServers ==
    answer = "READY" => listed.server # {} /\ listed.server \subseteq Servers

(* docs/phases/phase-05-monitoring.md:163: "All expected targets up and all*)
(* required summary queries successful returns HTTP 200, status READY", and*)
(* docs/api/upm-api-server-v1.md:546: pods_ready, "Managed Keeper and      *)
(* ClickHouse Pods are running and ready": a backup is no reason to fail.  *)
TasksDoNotDisturb ==
    step = "answered" /\ ~disturbed => answer \in Good
=============================================================================
