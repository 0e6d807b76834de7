# A TLA+ model of upm-api-server

`upm-api-server` (`src/api-server`) is a Go HTTP service that manages ClickHouse
clusters on Kubernetes through the UPMIO operator. These modules model its
concurrent and failure-prone parts, check them with TLC on small instances, and
prove the central properties with TLAPS for every instance.

In this text `S` is `src/api-server/internal/api/server.go`, `K`, `B` and `D` are
`store.go`, `backup.go` and `diagnostics.go` of `src/api-server/internal/kube`.

## 1. Inventory

| Component | State | Operations | What is hard | What makes it correct |
|---|---|---|---|---|
| Healthcheck: mutex and latest report (S 183-228, 519-532) | `healthcheckLocks`, `latest`, in memory | `POST /healthcheck`, `GET /healthcheck/latest` | concurrent requests, deadlines while queued on a mutex that ignores them, panics, restarts | one run per cluster at a time; the latest report is that of the latest run; every request ends |
| Healthcheck: write/read probe (K 956-1038, 1247-1384) | the reserved tables `upm_healthcheck.*` in ClickHouse | create, validate, truncate, insert, sync, assert, through pod exec | exec that loses its client but goes on; a script stopping half way; replicas that lag; tables somebody else defined | PASS means replicated; FAIL has a cause; foreign tables stay as they are |
| Healthcheck: inspection and report (K 390-422, 612-954, 1040-1241; `model/healthcheck.go`) | a report under construction | about fifteen checks, redaction, `Finalize` | a failed check must not stop the others | a critical failure decides the status |
| Cluster creation (S 96-134; K 116-251, 1459-1551, 1605-1773) | none in memory; Namespace, Project, Keeper and server UnitSets in Kubernetes | `POST /clusters` | no lock, no roll-back, ten minutes between scan and last create, lost answers, repeats | one acceptance; the server stands on its own, matching, ready Keeper; a repeat succeeds |
| Cluster status, list, resources (K 253-388, 1553-1603, 1806-1932) | none | `GET /clusters...` | three reads of different moments, stale `err` at K 1577, pods matched by a label or by the prefix `<cluster>-` of their names | a sound cluster is Running; the pods of tasks and of other clusters, which match too, do not make up for its own |
| Backup and restore tasks (B 47-104, 209-303, 347-433, 599-618, 689-814; `model/backup.go`) | Jobs in Kubernetes, tables in ClickHouse, objects in the bucket | create a backup, create a restore, get a task; the script of the Pods | two Jobs know nothing of each other; check and create are two statements; statements outlive their Pod; lost answers; status written in steps | a target is filled by one restore and nobody else's table is touched; what a client is told of a task is so, stays so, and comes |
| Backup schedules (B 106-207, 305-345, 498-597) | CronJobs | create, list, get, delete | names that collide, check-then-delete | CronJobs of others stay; a schedule changes by its own requests only; an answer about a schedule with a name of its own is true at one moment; runs do not collide |
| Diagnostics (D; `model/diagnostics.go`) | a report under construction | `GET /diagnostics` | calls that fail or run out of time one by one; LIMIT after ORDER BY; rows that lose a column; order of findings | every category once; what could not be seen is said; the limit hides nothing a query is sorted by |
| Metrics summary (K 423-610, `prometheus/client.go`) | none | `GET /metrics/summary` | counts, pods and scrapes of different moments; partial failure of queries | READY is said of servers only, and DEGRADED never of a sound cluster |
| Process, configuration, routing (`cmd`, `config`, `platform`) | none | start-up | | |
| Packages, manifests, scripts, dashboards (`src/clickhouse`) | | run by hand | a rolling update overlaps two processes | |

The handlers meet in three places only: the two maps of the API server, the
objects of one Kubernetes namespace, and the reserved tables of one ClickHouse
cluster. Everything else is read and reported. `PROJECT.json` lists the
components and, under `hazards`, each place where this code is hard to test.

## 2. Modules

| Module | Role |
|---|---|
| `HealthcheckServer` | healthcheck handlers, mutex, latest report and the probe in ClickHouse |
| `LatestReport` | abstract specification: the latest report is a register per process and cluster |
| `MCHealthcheckServer` | instances for TLC |
| `HealthcheckServer_proofs` | theorems about it: mutex, register, end of a run, rows of the probe, tables of others |
| `ClusterCreate` | `POST /clusters` against one Kubernetes namespace |
| `ClusterRegistry` | abstract specification: a registry of clusters whose creates are atomic |
| `MCClusterCreate` | instances for TLC |
| `ClusterCreate_proofs` | theorems about it: types, acceptance |
| `ClusterLeftovers_proofs` | theorems about it: what failed and repeated creations leave, refinement |
| `BackupTasks` | `POST /backup`, `POST /restore`, `GET /tasks`, the Jobs and the script in their Pods |
| `TargetTable` | abstract specification: a table is claimed and filled by one restore |
| `MCBackupTasks` | instances for TLC |
| `BackupTasks_proofs` | theorems about it: types, refinement of `TargetTable` |
| `BackupOutcomes_proofs` | theorems about it: what clients are told, scheduled paths |
| `BackupSchedules` | create, list, get and delete of schedules in one namespace |
| `ScheduleRegistry` | abstract specification: a registry of schedules whose operations are atomic |
| `MCBackupSchedules` | instances for TLC |
| `BackupSchedules_proofs` | theorems about it |
| `DiagnosticsReport` | `GET /diagnostics` |
| `MCDiagnosticsReport` | instances for TLC |
| `DiagnosticsReport_proofs` | theorems about it |
| `ClusterView` | `GET` of a cluster, the inspection of a healthcheck and `GET /metrics/summary` against one cluster that changes |
| `MCClusterView` | instances for TLC |
| `ClusterView_proofs` | theorems about it |

### HealthcheckServer

A request is a process with a program counter `pc[r]`; its steps are the points
of `runHealthcheck`, `RunHealthcheck` and `checkWriteReadProbe` between which
somebody else can act. `lock` stands for the mutexes of `healthcheckLock`,
`latest` for the map of that name, `verdict` for the status `Finalize` computes
(kept up to date check by check), `at` for the loop the handler is in. The
deadline of the middleware is `ctxDone`: it may pass at any step, before the
mutex too, and every exec with such a context fails.

ClickHouse is what the probe can see of it: `tables` (absent, the API server's
own definition, or another one, per pod), and per shard and replica the number of
probe batches in the replicated table (`committed`, `applied`). The TRUNCATE and
INSERT script is a process of its own (`script`, `toInsert`), since the shell in
the pod goes on when its exec stream is gone. Rows are counted in batches: a
probe spreads its rows over the shards evenly (`id % shards`), so a batch per
shard is one probe.

`listed[r]` are the pods the run goes by, chosen in `Inspect`: the list may miss any
of them, and the loops over pods (`ValidatePod`, `SyncReplica`) pass over a pod
that is not listed, while CREATE, TRUNCATE and INSERT reach every host of the
cluster.

Not in the model: what each inspection check compares (here they are one action
whose outcomes are healthy, degraded and without pods; `ClusterView` has them); a
context that is done between two inspection checks gives "degraded" or "without
pods" like any other failure of these checks.

History variables (`runs`, `run`, `faulted`, `disturbed`, `seen`) are read by the
properties only, `run` also by the report, where it stands for the content.

### LatestReport

The register that the two handlers offer: publish a report with a higher run
number, show what is there, forget at a restart. `HealthcheckServer` implements
it with `shown <- seen` (`LatestIsRegister`).

### ClusterCreate

Every Kubernetes call of `CreateCluster` is an action, in the order of the code:
scan, package, Namespace (get, create), two Secrets, Project (get, create),
Keeper, wait, server. `objects` maps a name to the object of that name;
`keeperExists` is the local variable. Clients post a fixed body again until
they are told that the cluster was accepted or exists. `late` holds creates whose
caller was given up on (fault, deadline, restart): they may be carried out at any
later time or never. A restart of the process has no other effect, since the
handler keeps nothing in memory.

A body is a cluster, a version, a topology and "options", which stand for all
the rest (storage class, sizes, admin Secret, monitoring); `KeeperOptions` is the
part of them that a Keeper UnitSet is made from. `Units` gives the units of a
topology. The two codes of a missing Secret (and of its key) are
one answer, as are those of a missing or different package, and a 403 is an
API error like the others. The order of the items in the scan is open, so that
any applicable conflict may be the answer. Two clusters may want one
UnitSet name (`a-keeper` is a valid cluster name), and `UnitSetName` may be any
such naming.

### ClusterRegistry

What the creation of clusters promises. A place per cluster name, free, registered
with a body, or blocked by something else of that name; an open request puts its
body under a free name at the moment it is told "accepted", is told "exists" only
while a cluster is there, or ends without effect; in the last case its body may be
`pending` and take effect once more, later. `ClusterCreate` implements it
(`CreatesAreARegistry`), a registered body being that of the server UnitSet. The
linearisation points are the last create for 202 and the *scan* for 409: that the
eleven steps in between are not atomic leaves no trace in the registry.

### BackupTasks

Four parties follow each other. A *client* posts a body, asks for the task it was
told of, and posts again after an error or a failure (`pc`, `told`, `seen`). The
*Job controller* starts one Pod per Job, ends it at `activeDeadlineSeconds`,
writes the status in steps (active Pods, then counters, then the condition) and
removes the Job when its time to live has passed. The *script* of a Pod is a
sequence of statements, `at[j]` being the one it has come to: a backup is
"backup" and "storing"; a restore is "check" (throwIf), "create", "restore" and
"loading". *ClickHouse and the bucket* hold `table`, the paths with an object
(`taken`) and those with a complete backup, with the table it is of (`complete`).

A statement belongs to ClickHouse once it has begun. So `Kill` ends the Pod and
leaves `at[j]` as it is: the statement may still create the target or fill it,
and only what would follow it is not begun (`GoOn`). `set -e` makes every failed
statement the end of the script (`Fail`), and the exit code the end of the Pod.
A create of a Job may be carried out though its answer is lost, after which the
client posts again and a second Job runs beside the first.

`maker[t]` and `writers[t]` record which restores created a table and wrote to
it; they and `cause` (why a task failed) are read by properties only. `BackoffLimit`
and the expiry of the deadline are definitions of their own, so that the
properties show what they are there for.

Not in the model: logs and their redaction; the label check of `GET /tasks` for a
Job of another cluster (there is one cluster); the target database, which is
created if it does not exist; `CREATE TABLE ... ON CLUSTER` is atomic over the
hosts. `Prepare` stands for the reads of `backupRuntime` and of the storage
Secret, whose outcome is open. Others create and drop tables as they like, except
that they do not drop one that is being restored.

### TargetTable

What restores promise about the tables of the cluster. A table is absent, foreign
(somebody else made it) or goes through claimed, filling and filled; `hands` are
the tasks that created it or wrote to it. Only `Claim` gives a table to a task,
it needs an absent table, and no action adds a second hand. `BackupTasks`
implements it by the mapping `Phase` and `Hands` (`TargetsAreClaimed`).

### BackupSchedules

One action per Kubernetes call: the read of the cluster, the create of the
CronJob and the list of its Jobs, the list of a cluster's schedules, the get, the
get and the delete of a removal. `cronJobs` maps a name to a CronJob, of which only the
labels matter: the pair of cluster and schedule they name, and whether they say
that the API server manages it. `ResourceName` is any naming of the pairs, so that
two pairs may share `<cluster>-backup-<schedule>`; `TooLong` are the names above
52 characters, which are refused. `late` holds creates and deletes whose caller was
given up on.

CronJobs of others are there from the start (`InitialCronJobs`). The assumption is
that nobody else makes a CronJob under the name of a schedule *while* requests
run: `DeleteBackupSchedule` deletes by name what it checked before, so that
otherwise it could delete a CronJob made in between.

### ScheduleRegistry

What schedule requests promise: a schedule is there or not, and requests take effect
at one moment between call and answer, ALREADY_EXISTS and NOT_FOUND included.
`BackupSchedules` implements it, for pairs with a name of their own that no CronJob
of others had before (`Own`), with the linearisation points written out in its
mapping: a create takes effect with the create of the CronJob (not with the list
of Jobs after it, which may fail), a delete that finds nothing at its get, a
delete that finds a schedule at its delete. A request that ended in an error may
have taken effect, and a late one may still do so.

### DiagnosticsReport

One request goes through its nine categories in the order of `RunDiagnostics`,
one action each (`Keeper`, `Storage`, `QueryRows` for the queries, `WriteQuality`);
a call fails (`QueryFails`), or the deadline passes (`Expire`) and all later ones
fail. A query finds a set of rows (`held`) and returns those that its ORDER BY and
LIMIT leave (`back`); `Issues` compares them with the thresholds, `IsShort` says
which of them lose a column in `parseTSV`, and `StatusOf` is `Finalize` with its
severity filter. Rows have the columns that decide something.

Not in the model: SQL texts, the evidence strings, the filters on database, table
and time (they only change which rows there are); the expected numbers of
`write_quality` are compared in one open outcome.

### ClusterView

A cluster changes while a request looks at it: pods come and go, the operator
counts ready units when it gets round to it (`Reconcile`), Prometheus scrapes
(`Scrape`), a backup task has a Pod for a while (`TaskMoves`), and an
administrator may delete the Keeper or the package. The request (`kind`) reads the
server UnitSet, the Keeper UnitSet and the package, and answers (`status`), or goes
on to the fourteen checks of a healthcheck or the seven of a metrics summary, one
read at a time. `ReadPackage` has the overwritten
`err` of K 1577: with the Keeper gone and the package there, the handler panics.

`listed` are the pods the request was given. `resourceMatches` (K 1806) lets a pod in
by its label or by a name that begins with `<cluster>-`: the pods of the cluster's
tasks have the label, and the pods of a cluster `<cluster>-x` in the same namespace,
here the *neighbour*, have such a name. All but those of `<cluster>-keeper-...` are
taken for servers (`ServerPods`, `KeeperPods`). Neighbours and their pods come and go
as they like (`NeighbourMoves`). `Place` is the order of the names, which decides
which pod is the `First`, the one that is sent SQL: it may be a neighbour's, and a
server of the neighbour answers it. What the neighbour is beyond that (its topology,
its PVCs and Services, which are counted by prefix too) is the open outcome `open`
of a check. Only the regular expression of K 440 keeps to the pods of the cluster,
so that no other pod has a target of Prometheus.

`disturbed`, `tasked` and `allUp` record the request's surroundings: `disturbed`
that the cluster was not sound, that there was a neighbour or that a call failed,
`tasked` one of these or a task pod, `allUp` that all servers were ready at one
moment. They are read by properties only. Checks of PVCs, Services, replicas,
roles, redaction and the samples of Prometheus fail or hold; what they compare is
left out. The probe, one action here, is in `HealthcheckServer`.

## 3. Runs

| Run | Bounds | What it shows |
|---|---|---|
| `hc_requests` | 2 requests, one process, one cluster, one pod, two restarts, a drift, fairness | types; `OneRunPerKey`; `NoMutexIsLeft`; `ReadYourWrites`; `LatestMovesForward`; refinement of `LatestReport`; `QuietDriftIsKept`; `DoneRunWindsDown`; `EveryRequestEnds` |
| `hc_probe` | 2 requests, 3 pods in 2 shards, lists that miss pods, no restart, no drift after the start | `FailIsExplained`, `PassMeansReplicated`, `DriftedTableUntouched` |
| `hc_serialized` | finding | `ProbeWritesSerialized` is violated |
| `cc_race` | 2 clients with 2 versions and topologies, a fault, a deletion, a foreign UnitSet, a package installed again | types; `OneAccepted`; `AcceptedIsBuilt`; `ServerStandsOnKeeper`; `LeftoversAreAPrefix`; refinement of `ClusterRegistry`: the safety of creation, also when the Keeper a request waits for is replaced by one of another size |
| `cc_live` | 2 clients that want one Keeper and different servers, a fault, fairness | `LeftoversNeverConflict`, `RepeatingSucceeds` |
| `bt_restore` | a client, 2 Jobs, source and target, a fault, a table made or dropped by others, fairness | types; `ShownSuccessIsReal`; `EndedStatusIsFinal`; refinement of `TargetTable`; `TaskIsSeenToEnd` |
| `bt_backup` | a client, 2 Jobs of the API or of a schedule, 2 seconds, a fault | `ShownSuccessIsReal`, `ScheduledPathIsFree` |
| `bs_schedules` | 2 requests, 2 clusters, a name that two pairs share and a CronJob of others may have, one late call | types; `ForeignCronJobsAreKept`; `PrivateScheduleIsKept`; refinement of `ScheduleRegistry` |
| `dr_report` | 2 rows per query, limits 1 and 2, 2 Keeper pods, 2 PVCs, rows on either side of every threshold | types; `EveryCategoryOnce`; `BlindIsNotHealthy`; `OrderSurvivesLimit` |
| `dr_columns` | finding | `QueueThresholdIsReported` is violated |
| `cv_checks` | 2 servers, a Keeper, a task pod, a neighbour with a pod whose name sorts between the servers, a fault | types; `SoundIsSeen`; `PassMeansAllUp`; `ReadyIsOfServers` |
| `cv_tasks` | finding; no neighbour | `TasksDoNotDisturb` is violated |

Why these bounds are enough to meet the interesting cases: a race needs two
requests; a script left behind by the first request meets the
second; two shards with an uneven number of replicas
separate the row-count, the every-shard and the per-replica assertions; the
bounds on restarts, faults and deletions count *independent* misfortunes, and
one of each already reaches every step (a fault may strike at any call of any
client). Expiry of a deadline is not bounded in `HealthcheckServer`; in
`ClusterCreate` it counts as a fault except in the wait for a Keeper, where it
may always happen. In
`BackupTasks` one client is enough for two concurrent tasks: its first create may
lose its answer, and a task it was shown as Failed may still have a statement in
ClickHouse. Two Jobs and one target contain every overlap of two restores, since
the statements of a third meet the same table in the same states; two seconds
tell apart paths that share the second from those that do not. A deadline may pass
at any time, without a bound. In `BackupSchedules` one of the two requests is the
late, repeated or opposite one of the other, and four pairs contain one that
shares its name and one that does not. In `DiagnosticsReport` two rows and a limit
of one hide a row; in `ClusterView` two servers are the least of which one can be
missing while a pod of a task or of the neighbour makes up the number, and that pod
is the first as soon as server 0 is away; servers are also missing without a fault
while the cluster is being created. Pods of a neighbour `<cluster>-keeper-x`, which
count as Keepers, are in the theorems only. The theorems of section 6 have no bounds: each
safety property above is proved for every value of the constants, so that the
runs serve to find mistakes cheaply and to break each property by a mutant.

`FailIsExplained` and `PassMeansReplicated` are about one process for each cluster:
the mutex of a second process is another one, and two handlers may write at a time.
`DriftedTableUntouched` is about tables that differ before the run, since validation
and TRUNCATE are separate calls: with a drift *during* a run it is false.
`QuietDriftIsKept` says what remains true then. A table that somebody redefines at
any moment is *quiet* once no script runs, the replicas have caught up and no handler
is past the validation of its pod; from there on no step touches it or brings a handler
past that validation. So the only requests that can hurt a redefined table are those
that had validated it before. Both are about pods that every run of the cluster lists:
the tables of another pod are not validated, and section 5 says what follows.
`hc_requests` has one pod, since most of its properties are about the handlers; what the
pods add is asked by `hc_probe`, and `QuietDriftIsKept` and `DoneRunWindsDown` are
proved for any number of them.

`LeftoversNeverConflict` is about clients whose bodies are *compatible*: one version,
one number of Keepers, one Keeper part of the options (class, Keeper size, admin
Secret), and no foreign UnitSet with the label of the cluster. For others a conflict is
the right answer (`upm-api-server-v1.md:113`), and where the code does not give it
section 5 says so. `cc_live` has two bodies that differ in what only the server is made
from, without deletions; the theorem has them.

`SchedulesAreARegistry` is about the pairs in `Own`: no other pair has their name, and
no CronJob of others was there under it. A CronJob of others is under the name that two
pairs share, with the labels of one of them or with none: `ForeignCronJobsAreKept` and
`PrivateScheduleIsKept` are checked with it, and section 5 says what the error codes are
worth there.

## 4. Fairness

`HealthcheckServer`: a deadline passes (a timer of the runtime), a free mutex is
handed to a waiter (Go mutexes do not starve), and a handler whose context is
done gets on, because every call it makes returns at once. Nothing is assumed of
Kubernetes, of ClickHouse or of scripts in pods, so `EveryRequestEnds` rests on
the deadline alone.

`ClusterCreate`: handlers get on; a handler with a done context ends; clients
repeat; the operator brings units up; administrators provide Secrets. The last
three are assumptions about the environment that `RepeatingSucceeds` names: it
says that nothing *in the code* stands in the way. Faults are finite in number
by their bound.

`BackupTasks`: the deadline of a Job passes (`Kill`), the Job controller gets
round to writing each part of the status, and the client goes on asking. Nothing
is assumed of the script, of ClickHouse or of the start of a Pod, so that
`TaskIsSeenToEnd` rests on `activeDeadlineSeconds` and on `taskStatusFromJobStatus`.

The other modules state no liveness: their handlers are a finite sequence of calls
with one deadline, the case `HealthcheckServer` has with a mutex on top.

## 5. Findings

* `hc_serialized`: `src/docs/phases/phase-04-healthcheck.md:206` wants concurrent
  healthchecks serialized so that they cannot write the validation tables
  simultaneously. The mutex serializes handlers; the script of an exec whose
  context ended runs on beside that of the next request.
* `dr_columns`: `src/docs/phases/phase-06-day2-diagnostics.md:162` lists
  "Replication queue grows beyond configured threshold | WARN/CRITICAL".
  `parseTSV` (K 1435) trims each line; with an empty `last_exception`, the last
  column, a row has four of its five columns, is UNKNOWN and is not compared.
* `cv_tasks`: `src/docs/phases/phase-05-monitoring.md:163` wants READY when all
  targets and queries are well, and `src/docs/api/upm-api-server-v1.md:546` speaks
  of managed Keeper and ClickHouse Pods. The Pod of a backup or restore task has
  the labels of the cluster and stays for a day after its end; it is counted as a
  server (K 663), so that a sound cluster FAILs its healthcheck and is DEGRADED.
  (The same happens without tasks next to a cluster `<cluster>-x`, see below; this run
  has none.)

### Disagreements no run checks

Met while reading, each plain from the lines themselves:

* The loser of a race to create a cluster gets 500 `KUBERNETES_API_ERROR` from its
  own create; `upm-api-server-v1.md:112` promises 409 `CLUSTER_ALREADY_EXISTS`.
* A pod belongs to a cluster by its label *or* by a name that begins with `<cluster>-`
  (K 1807, used at K 663; PVCs even by `<cluster>-` anywhere in the name, K 1414). So a
  cluster `<cluster>-x` in the same namespace makes a sound `<cluster>` FAIL its
  healthcheck (K 677: the numbers of pods differ) and be DEGRADED (K 467: its pods have
  no target), though line 546 of the same file speaks of the managed pods, and the test
  `TestResourceNameMatchesClusterBoundary` (`store_test.go:121`) shows that
  `clickhouse-demo2-0` is not to match `clickhouse-demo`; it has no case with a dash.
  When a pod of the neighbour sorts first (`<cluster>-0-0`, with server 0 away), the
  SQL of the healthcheck goes to the neighbour, and a PASS may be about it.
  `SoundIsSeen` therefore speaks of requests without a neighbour and `PassMeansAllUp`
  names this exception; both are reached in `cv_checks`.
* Storage and admin Secret of an existing Keeper are not compared; line 113 of the
  same file promises `CLUSTER_RESOURCE_CONFLICT` for a partial resource that differs.
* A restore that failed after its CREATE TABLE leaves the target, and throwIf
  refuses every repetition; `review/phase-07-review-response.md:33` wants transient
  failures retried by posting again.
* `CREATE TABLE <target> AS <source>` needs the source table in the cluster, though
  `upm-api-server-v1.md:898-899` says that `source` names a table in the backup.
* Two pairs of cluster and schedule may have one CronJob name, and a DELETE whose
  check and delete are separated can remove a schedule made in between;
  `review/phase-07-review.md:138` says that labels make listing and deletion
  "scoped to the correct managed cluster".
* A server pod that is missing from the list of a healthcheck and back before the
  TRUNCATE ON CLUSTER loses the rows of its reserved tables unvalidated;
  `phases/phase-04-healthcheck.md:198` wants drift validation before any TRUNCATE.
* A create answers `BACKUP_SCHEDULE_ALREADY_EXISTS` whatever CronJob has the name
  (B 127), also one that somebody else made or that is the schedule of another pair;
  `upm-api-server-v1.md:127` has that code for an API-managed schedule.
* `GET` of a schedule shows a CronJob that has its labels and is not managed (B 176);
  line 128 of the same file answers `BACKUP_SCHEDULE_NOT_FOUND` for it.
* A WARN after an UNKNOWN leaves the status of a diagnostics report UNKNOWN;
  `phases/phase-06-day2-diagnostics.md:134` and `upm-api-server-v1.md:735` make it
  WARN as soon as there is a WARN and nothing CRITICAL.
* The LIMIT of a query can cut off a read-only replica, a table with many inactive
  parts or an old mutation, since the ORDER BY is by something else
  (`phase-06-day2-diagnostics.md:160`).

## 6. Proofs

`HealthcheckServer_proofs`, for any number of requests, processes, clusters, pods,
shards, restarts and drifts:

* `TypeCorrect`, by `TypeInit` and `TypeStep` (split into the steps inside and
  outside the mutex).
* `MutualExclusion` (`OneRunPerKey`). Not inductive by itself; `HolderInv` says
  that a request past the mutex is the one in `lock`, and implies it.
* `MutexesAreReturned` (`NoMutexIsLeft`) is the converse and inductive with the types:
  whoever is in `lock` is past the mutex. `DoneRunsEnd` (`DoneRunWindsDown`) says
  that a run whose context is done has at most four steps left, each of which takes it
  nearer to the end (`DoneStep`, action by action). Together they are the safety half
  of `EveryRequestEnds`: whoever waits for a mutex waits for a run on its way, and after
  its deadline that run needs four steps, whatever the number of pods.
* `ShownIsStored` (`ReadYourWrites`), `LatestForward` (`LatestMovesForward`) and
  `Refinement` (`LatestIsRegister`) from `RunInv`: the run of the request past
  the mutex is the newest of its key, the stored report is not newer, and it is
  older until `Store`. Every action maps to a step of the register or to a stutter.
* `FailHasAReason` (`FailIsExplained`) and `PassProvesReplication`
  (`PassMeansReplicated`), for one process per cluster (`OneProcessEach`; different
  clusters may have different ones), from `ProbeInv`. It says for every
  request, by where its loops and its script are, what the rows of its cluster are:
  halfway (`Half`), inserted (`Fresh`), caught up on the replicas before `at[r]`
  (`Synced`), equal on all (`AllOne`), unless it was disturbed or met a fault.
  `ScriptFrame` is the heart: a script that changes rows under another request is
  noted as a disturbance, or its handler still waits for it, and then the mutex
  (`HolderInv`) says that there is no other request.
* `QuietDriftKept` (`QuietDriftIsKept`), for any number of processes and drifts, from
  `QuietStep`: a handler is stopped by the validation of the pod, there is no script and
  nothing to replicate. `ListInv` ties the list of a run that is yet to come to all
  pods.
* `DriftedRowsKept` (`DriftedTableUntouched`), for any number of processes when
  nobody redefines tables during runs (`MaxDrifts = 0`), from `DriftInv`: a table that is
  somebody else's on a pod that all runs list is quiet; `QuietStep` does the rest.

`ClusterCreate_proofs`, for any number of clients, clusters, versions,
topologies, faults, deletions and any naming that keeps Keeper and server of one
cluster apart:

* `TypeCorrect`; the lemma `MakeEffect` says that a create leaves every object
  that is there as it is.
* `AcceptedOnce` (`OneAccepted`) and `AcceptedAsAsked` (`AcceptedIsBuilt`), each
  inductive with the types. `AcceptStep` says that every step accepts one client,
  by a create of its server under a free name, or none, and that objects are
  never updated.

`ClusterLeftovers_proofs`, under the same assumptions:

* `LeftoversPrefix` (`LeftoversAreAPrefix`), from `PrefixInv`: a request that is at a
  create, and a create that is late, has its predecessors there or removed.
* `ServerOnKeeper` (`ServerStandsOnKeeper`), from `KeeperInv`: from the create of its
  Keeper on, or with `keeperExists`, a request has a Keeper of its cluster that
  matches unless that was removed, and one that was ready past the wait; so has a
  late create of a server. The theorem is for every naming of UnitSets, clusters
  `a` and `a-keeper` included.
* `Refinement` (`CreatesAreARegistry`), from `WellNamed` (a UnitSet is foreign or at
  the name of its own body) and `OpenUntold` (a request that is being handled has been
  told nothing): every step is a step of `ClusterRegistry` or a stutter. A create of a
  Keeper stutters, or blocks the name of another cluster (`MadeOther`); a restart
  abandons all open requests at once, and those at their last create leave it pending.
* `LeftoversFit` (`LeftoversNeverConflict`), from `WellNamed` and `AllMadeFor`: each
  UnitSet that is there or may still be made is foreign or made from the body of a
  client. So the scan of a compatible client finds at most a Keeper, of its own size
  and version, and the server (`ScanFindsNoConflict`), and only the scan says conflict
  (`ConflictIsOfTheScan`). It is the safety half of `RepeatingSucceeds`.

`BackupTasks_proofs`, for any number of clients, tables, paths, Jobs, faults and
tables made or dropped by others:

* `TypeCorrect`.
* `Refinement` (`TargetsAreClaimed`): every step moves one table as `TargetTable`
  says or changes none. A statement finds its table by name, so the step needs to
  know in which state it finds it; `ClaimInv` says it: past its CREATE a restore
  has a target that exists and that it made, nobody but the maker has written to a
  table, an absent table is nobody's, and a table that is being loaded is not yet
  full. The check by throwIf is not used: the CREATE, which fails for a table
  that exists, carries the proof.

`BackupOutcomes_proofs`, under the same assumptions:

* `EndIsFinal` (`EndedStatusIsFinal`), from `StatusFollows` and `SeenIsCounted`: the
  status of a Job follows its Pod, of which there is one, and what a client saw
  ended has been counted.
* `SuccessIsReal` (`ShownSuccessIsReal`), from `DoneInv`: a script whose Pod has
  succeeded has done all its statements.
* `ScheduledPathsAreFree` (`ScheduledPathIsFree`), from `PathInv`: a
  scheduled path names its Pod, no request gives such a path, and an object under
  it means that the BACKUP of this Pod has begun.

`BackupSchedules_proofs`, for any number of requests, pairs and late calls and any
naming:

* `TypeCorrect`.
* `ForeignKept` and `PrivateKept` from two facts: a CronJob that is managed is at
  the name of its own pair (`ManagedHasItsName`), and a delete, also a late one,
  was sent for a name at which no foreign CronJob was, and where none has come since
  (`DeletesMeetNoForeign`).
* `Refinement` (`SchedulesAreARegistry`): each step maps to the linearisation point
  of its request or to a stutter; a pair in `Own` never meets a CronJob of others
  (`OwnIsNotTaken`), so that `HeldSays` relates a CronJob with what the
  registry holds for its pair, `AtItsCall` the place of a handler with its request.

`DiagnosticsReport_proofs`, for any rows, thresholds, limits and numbers:

* `TypeCorrect`; `CategoriesOnce` (`EveryCategoryOnce`) by the place of a category
  in the list (`Places`).
* `BlindReportsSaySo` (`BlindIsNotHealthy`): a step that could not see appends a
  finding that is not INFO, findings are never removed, and `StatusOf` is PASS only
  if all of them are INFO.
* `LimitHidesNoneOfThese` (`OrderSurvivesLimit`): if the returned rows are fewer
  than the rows, there is at least one of them, by cardinality
  (`SomeRowInFront`), and it is not behind the hidden one in the order; so
  its value passes the threshold too.

`ClusterView_proofs`, for clusters of any size, any number of tasks, of pods of
neighbours and of faults, and any order of their names:

* `TypeCorrect`.
* `PassSawAllUp` (`PassMeansAllUp`): a verdict of PASS after the probe (`PastProbe`)
  needs a probe that held, and a probe sent to a pod of the cluster sees all its
  servers up at that moment; the list is not read again.
* `ReadyOfServers` (`ReadyIsOfServers`): only a server has a target (`Summarised`).
* `SoundSeen` (`SoundIsSeen`): as long as the cluster was sound and without tasks and
  neighbours (`Whole`; `NoStrangers`: no neighbour, no pods of one), the pods listed
  are its own (`WholeSays`) and every read so far has found what it wants
  (`SoundSoFar`).

Assumptions are the named ASSUMEs of the modules; TLC evaluates them in every
run. Only model-checked are the liveness properties `EveryRequestEnds`,
`RepeatingSucceeds` and `TaskIsSeenToEnd`: fairness and ENABLED are out of the
prover's reach. Of each the part that is safety is proved: `MutexesAreReturned` and
`DoneRunsEnd`; `LeftoversPrefix`, `ServerOnKeeper` and `LeftoversFit`; `EndIsFinal`.

## 7. Not modelled

* Lists of clusters and of resources: one read each, formatted.
* What the checks of PVCs, Services, `system.clusters`, replicas and roles compare,
  and the values of the samples of Prometheus: each may fail or hold in `ClusterView`.
* Pods of a neighbour `<cluster>-x` (section 5) outside `ClusterView`: the lists of
  `HealthcheckServer` hold pods of its own cluster, and its properties are about
  clusters without such a neighbour; in `DiagnosticsReport` what a query about the
  pods finds is open, and a backup task takes nothing but its image from the first pod.
* Redaction: string replacement; `Conclude` has its outcome.
* Validation of request bodies, except where a name is too long for a CronJob.
* Process start-up, configuration and routing: no state but the request timeout.
* Two API server processes at a time (a rolling update) in `BackupTasks`,
  `ClusterCreate` and `BackupSchedules`: their handlers share no memory, so two
  processes are two requests. In `HealthcheckServer` processes are a constant, and
  what fails with two of them is said in section 3.
* Manifests, validation scripts, dashboards.

## 8. Plan

What is left, in order of worth:

1. Composition of `ClusterCreate` and `ClusterView`: what a client who polls
   `GET /clusters/<name>` sees while a cluster comes up, against what creation
   promises.
2. `BackupSchedules` with the Jobs of `BackupTasks`: what the "last successful"
   fields of a schedule say while Jobs end and are cleaned up.
