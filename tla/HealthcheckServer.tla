------------------------- MODULE HealthcheckServer -------------------------
(***************************************************************************)
(* POST /healthcheck and GET /healthcheck/latest of upm-api-server:        *)
(* internal/api/server.go (the per-cluster mutex, the latest report) and   *)
(* internal/kube/store.go (RunHealthcheck and the write/read probe it runs *)
(* against the reserved tables of ClickHouse through pod exec).            *)
(*                                                                         *)
(* One action per step of the handler after which another request, the     *)
(* request deadline, ClickHouse or a restart of the process can intervene. *)
(* A pod exec that loses its client goes on inside the pod: the TRUNCATE   *)
(* and INSERT script of a request is a process of its own.                 *)
(***************************************************************************)
EXTENDS Naturals

CONSTANTS
    Requests,   \* the POST /healthcheck requests
    NoRequest,  \* the holder of a free mutex
    Servers,    \* upm-api-server processes
    Clusters,   \* managed clusters, the namespace/name keys
    ServerOf,   \* the process that serves a request
    ClusterOf,  \* the cluster a request names
    NumPods,    \* ClickHouse pods of a cluster, in the order of their names
    ShardOf,    \* the shard a pod is a replica of
    MaxCrashes, \* bound: restarts of one process
    MaxDrifts   \* bound: times somebody else redefines a reserved table

Pods == 1 .. NumPods
Shards == {ShardOf[p] : p \in Pods}
Replicas(s) == {p \in Pods : ShardOf[p] = s}
Keys == Servers \X Clusters
Key(r) == <<ServerOf[r], ClusterOf[r]>>

ASSUME RequestsAssumption ==
    /\ NoRequest \notin Requests
    /\ ServerOf \in [Requests -> Servers]
    /\ ClusterOf \in [Requests -> Clusters]
ASSUME PodsAssumption == NumPods \in Nat \ {0} /\ DOMAIN ShardOf = Pods
ASSUME BoundsAssumption == MaxCrashes \in Nat /\ MaxDrifts \in Nat

VARIABLES
    pc,        \* where the handler of a request is
    ctxDone,   \* the request context is done: deadline passed or client gone
    lock,      \* healthcheckLocks: the request that holds the mutex of a key
    latest,    \* latest: the report GET /healthcheck/latest returns
    at,        \* the next iteration of the loop the handler is in, from 1
    verdict,   \* the status of the report under construction
    listed,    \* the server pods the run goes by
    tables,    \* the definition of the reserved tables on a pod
    script,    \* the TRUNCATE and INSERT script of a request, inside the pod
    toInsert,  \* the shards the INSERT of a script has not reached
    committed, \* probe batches in the replicated table of a shard
    applied,   \* probe batches a replica has fetched
    crashes, drifts,  \* what the bounds count
    \* History, read by the properties only:
    runs,      \* runs begun under a key
    run,       \* the number of a request's run under its key
    faulted,   \* the run met a deadline, a fault, a drift or an unhealthy part
    disturbed, \* a script left behind by another request touched the tables
    seen       \* the newest run a client of this process was shown

handlerVars == <<pc, ctxDone, lock, latest, at, verdict>>
clickHouseVars == <<tables, script, toInsert, committed, applied>>
historyVars == <<runs, run, faulted, disturbed, seen>>
vars == <<handlerVars, clickHouseVars, listed, crashes, drifts, historyVars>>

ProbeSteps == {"createDatabase", "validateBefore", "createTables",
               "validateAfter", "startWrite", "writing", "sync", "assert"}
LockedSteps == ProbeSteps \cup {"getCluster", "inspect", "conclude",
                                "store", "respond"}
EndSteps == {"answered", "failed", "panicked", "lost"}
Steps == {"idle", "locking"} \cup LockedSteps \cup EndSteps

Statuses == {"PASS", "WARN", "FAIL"}
Register == INSTANCE LatestReport WITH shown <- seen
NoReport == Register!NoReport
Reports == Register!Reports

Running(r) == script[r] \in {"truncate", "insert"}

TypeOK ==
    /\ pc \in [Requests -> Steps]
    /\ ctxDone \in [Requests -> BOOLEAN]
    /\ lock \in [Keys -> Requests \cup {NoRequest}]
    /\ latest \in [Keys -> Reports]
    /\ at \in [Requests -> Nat]
    /\ verdict \in [Requests -> Statuses]
    /\ listed \in [Requests -> SUBSET Pods]
    /\ tables \in [Clusters -> [Pods -> {"absent", "owned", "drifted"}]]
    /\ script \in [Requests ->
                    {"none", "truncate", "insert", "finished", "failed"}]
    /\ toInsert \in [Requests -> SUBSET Shards]
    /\ committed \in [Clusters -> [Shards -> Nat]]
    /\ applied \in [Clusters -> [Pods -> Nat]]
    /\ crashes \in [Servers -> Nat]
    /\ drifts \in Nat
    /\ runs \in [Keys -> Nat]
    /\ run \in [Requests -> Nat]
    /\ faulted \in [Requests -> BOOLEAN]
    /\ disturbed \in [Requests -> BOOLEAN]
    /\ seen \in [Keys -> Nat]

(* A new process. The reserved tables are not there, are left by earlier   *)
(* runs with the rows of the last of them, or are defined by somebody else *)
(* on some of the pods.                                                    *)
Init ==
    /\ pc = [r \in Requests |-> "idle"]
    /\ ctxDone = [r \in Requests |-> FALSE]
    /\ lock = [k \in Keys |-> NoRequest]
    /\ latest = [k \in Keys |-> NoReport]
    /\ at = [r \in Requests |-> 1]
    /\ verdict = [r \in Requests |-> "PASS"]
    /\ listed = [r \in Requests |-> Pods]
    /\ \/ /\ tables = [c \in Clusters |-> [p \in Pods |-> "absent"]]
          /\ committed = [c \in Clusters |-> [s \in Shards |-> 0]]
          /\ applied = [c \in Clusters |-> [p \in Pods |-> 0]]
       \/ /\ tables \in [Clusters -> [Pods -> {"owned", "drifted"}]]
          /\ committed = [c \in Clusters |-> [s \in Shards |-> 1]]
          /\ applied = [c \in Clusters |-> [p \in Pods |-> 1]]
    /\ script = [r \in Requests |-> "none"]
    /\ toInsert = [r \in Requests |-> {}]
    /\ crashes = [s \in Servers |-> 0]
    /\ drifts = 0
    /\ runs = [k \in Keys |-> 0]
    /\ run = [r \in Requests |-> 0]
    /\ faulted = [r \in Requests |-> FALSE]
    /\ disturbed = [r \in Requests |-> FALSE]
    /\ seen = [k \in Keys |-> 0]

-----------------------------------------------------------------------------
(* The handler. *)

GoTo(r, step) == pc' = [pc EXCEPT ![r] = step]

\* Mutants of AddCheck: the last check decides; a report of passed checks is
\* taken for one without checks.
AddCheck_LastWins(old, status) == status
AddCheck_Skipped(old, status) ==
    IF "FAIL" \in {old, status} THEN "FAIL"
    ELSE IF "WARN" \in {old, status} THEN "WARN" ELSE "SKIPPED"

(* The status of a report after one more check: a failed critical check    *)
(* decides, a warning only lowers PASS. Finalize computes it at the end    *)
(* from the list of checks, with the same outcome.                         *)
AddCheck(old, status) ==
    IF "FAIL" \in {old, status} THEN "FAIL"
    ELSE IF "WARN" \in {old, status} THEN "WARN" ELSE "PASS"

Record(r, status) ==
    verdict' = [verdict EXCEPT ![r] = AddCheck(verdict[r], status)]

(* The probe stops with a failed critical check that a fault explains; the *)
(* checks after the probe still run.                                       *)
ProbeFails(r) ==
    /\ GoTo(r, "conclude")
    /\ Record(r, "FAIL")
    /\ faulted' = [faulted EXCEPT ![r] = TRUE]

(* The middleware starts the deadline before the handler takes the mutex.  *)
Arrive(r) ==
    /\ pc[r] = "idle"
    /\ GoTo(r, "locking")
    /\ UNCHANGED <<ctxDone, lock, latest, at, verdict,
                   clickHouseVars, listed, crashes, drifts, historyVars>>

\* Mutant of MutexFree: every call makes a mutex of its own.
MutexFree_Fresh(r) == TRUE

(* healthcheckLock: one mutex per key for as long as the process lives.    *)
MutexFree(r) == lock[Key(r)] = NoRequest

(* lock.Lock(), which does not look at the context.                        *)
Acquire(r) ==
    /\ pc[r] = "locking"
    /\ MutexFree(r)
    /\ lock' = [lock EXCEPT ![Key(r)] = r]
    /\ GoTo(r, "getCluster")
    /\ runs' = [runs EXCEPT ![Key(r)] = @ + 1]
    /\ run' = [run EXCEPT ![r] = runs[Key(r)] + 1]
    /\ UNCHANGED <<ctxDone, latest, at, verdict,
                   clickHouseVars, listed, crashes, drifts, faulted, disturbed, seen>>

(* The deferred lock.Unlock(), on every way out of runHealthcheck.         *)
Unlock(r) == lock' = [lock EXCEPT ![Key(r)] = NoRequest]

\* Mutant of GetCluster: Unlock is not deferred and a panic passes it by.
GetCluster_KeepsLock(r) ==
    /\ pc[r] = "getCluster"
    /\ \/ ~ctxDone[r] /\ GoTo(r, "inspect") /\ UNCHANGED lock
       \/ GoTo(r, "failed") /\ Unlock(r)
       \/ ~ctxDone[r] /\ GoTo(r, "panicked") /\ UNCHANGED lock
    /\ UNCHANGED <<ctxDone, latest, at, verdict,
                   clickHouseVars, listed, crashes, drifts, historyVars>>

(* RunHealthcheck first reads the cluster. An error is answered and leaves *)
(* the latest report alone; a context already done is such an error. With  *)
(* the Keeper UnitSet gone and the package installed, the summary          *)
(* dereferences a nil object: net/http recovers the panic and drops the    *)
(* connection, and the deferred Unlock runs.                               *)
GetCluster(r) ==
    /\ pc[r] = "getCluster"
    /\ \/ ~ctxDone[r] /\ GoTo(r, "inspect") /\ UNCHANGED lock
       \/ GoTo(r, "failed") /\ Unlock(r)
       \/ ~ctxDone[r] /\ GoTo(r, "panicked") /\ Unlock(r)
    /\ UNCHANGED <<ctxDone, latest, at, verdict,
                   clickHouseVars, listed, crashes, drifts, historyVars>>

(* The checks before the probe: Project, UnitSets, Pods, PVCs, Services,   *)
(* Keeper ruok and roles, SELECT 1, system.clusters. A failed one does not *)
(* stop the run, and the pods that are listed now are those the probe goes *)
(* by, some of them missing perhaps. Without any it fails at once.         *)
Inspect(r) ==
    /\ pc[r] = "inspect"
    /\ \E pods \in SUBSET Pods, healthy \in BOOLEAN :
         /\ ctxDone[r] => pods = {}
         /\ healthy => pods = Pods
         /\ listed' = [listed EXCEPT ![r] = pods]
         /\ GoTo(r, IF pods = {} THEN "conclude" ELSE "createDatabase")
         /\ Record(r, IF healthy THEN "PASS" ELSE "FAIL")
         /\ faulted' = [faulted EXCEPT ![r] = @ \/ ~healthy]
    /\ UNCHANGED <<ctxDone, lock, latest, at, clickHouseVars,
                   crashes, drifts, runs, run, disturbed, seen>>

(* An exec that fails or loses its client may have taken effect. What the  *)
(* write script still does is up to its own actions.                       *)
TablesCreated(c) ==
    [tables EXCEPT ![c] =
        [p \in Pods |-> IF @[p] = "absent" THEN "owned" ELSE @[p]]]

ExecStops(r) ==
    /\ ProbeFails(r)
    /\ \/ UNCHANGED tables
       \/ pc[r] = "createTables" /\ tables' = TablesCreated(ClusterOf[r])
    /\ UNCHANGED <<ctxDone, lock, latest, at, script, toInsert, committed,
                   applied, listed, crashes, drifts, runs, run, disturbed, seen>>

\* Mutant of CtxStopsProbe: the write exec streams without the context.
CtxStopsProbe_Blocks(r) ==
    /\ pc[r] \in ProbeSteps \ {"writing"} /\ ctxDone[r]
    /\ ExecStops(r)

(* Any exec of the probe whose context is done returns an error.           *)
CtxStopsProbe(r) ==
    /\ pc[r] \in ProbeSteps /\ ctxDone[r]
    /\ ExecStops(r)

\* Mutant of CreateDatabase: the exec has a context of its own.
CreateDatabase_Detached(r) ==
    /\ pc[r] = "createDatabase"
    /\ GoTo(r, "validateBefore")
    /\ at' = [at EXCEPT ![r] = 1]
    /\ UNCHANGED <<ctxDone, lock, latest, verdict,
                   clickHouseVars, listed, crashes, drifts, historyVars>>

(* CREATE DATABASE IF NOT EXISTS ... ON CLUSTER.                           *)
CreateDatabase(r) ==
    /\ pc[r] = "createDatabase" /\ ~ctxDone[r]
    /\ GoTo(r, "validateBefore")
    /\ at' = [at EXCEPT ![r] = 1]
    /\ UNCHANGED <<ctxDone, lock, latest, verdict,
                   clickHouseVars, listed, crashes, drifts, historyVars>>

\* Mutant of NextPod: the loop leaves out the last pod.
NextPod_Short(r, next) ==
    IF at[r] + 1 < NumPods
    THEN at' = [at EXCEPT ![r] = @ + 1] /\ pc' = pc
    ELSE at' = [at EXCEPT ![r] = 1] /\ GoTo(r, next)

(* One iteration of a loop over the server pods, then the step after it.   *)
(* An iteration for a pod that was not listed has nothing to do.           *)
NextPod(r, next) ==
    IF at[r] < NumPods
    THEN at' = [at EXCEPT ![r] = @ + 1] /\ pc' = pc
    ELSE at' = [at EXCEPT ![r] = 1] /\ GoTo(r, next)

\* Mutant of ValidDefinition: a table that exists is taken for valid.
ValidDefinition_Exists(r, allowMissing) ==
    \/ at[r] \notin listed[r]
    \/ tables[ClusterOf[r]][at[r]] # "absent" \/ allowMissing

(* validateHealthcheckTableDefinitions on one pod.                         *)
ValidDefinition(r, allowMissing) ==
    LET definition == tables[ClusterOf[r]][at[r]]
    IN  \/ at[r] \notin listed[r]
        \/ definition = "owned"
        \/ definition = "absent" /\ allowMissing

ValidatePod(r, allowMissing, next) ==
    IF ValidDefinition(r, allowMissing)
    THEN NextPod(r, next) /\ UNCHANGED <<verdict, faulted>>
    ELSE ProbeFails(r) /\ UNCHANGED at

ValidateBefore(r) ==
    /\ pc[r] = "validateBefore" /\ ~ctxDone[r]
    /\ ValidatePod(r, TRUE, "createTables")
    /\ UNCHANGED <<ctxDone, lock, latest, clickHouseVars,
                   listed, crashes, drifts, runs, run, disturbed, seen>>

CreateTables(r) ==
    /\ pc[r] = "createTables" /\ ~ctxDone[r]
    /\ tables' = TablesCreated(ClusterOf[r])
    /\ GoTo(r, "validateAfter")
    /\ UNCHANGED <<ctxDone, lock, latest, at, verdict, script, toInsert,
                   committed, applied, listed, crashes, drifts, historyVars>>

ValidateAfter(r) ==
    /\ pc[r] = "validateAfter" /\ ~ctxDone[r]
    /\ ValidatePod(r, FALSE, "startWrite")
    /\ UNCHANGED <<ctxDone, lock, latest, clickHouseVars,
                   listed, crashes, drifts, runs, run, disturbed, seen>>

(* The exec of healthcheckWriteSQL: from here the script runs in the pod.  *)
StartWrite(r) ==
    /\ pc[r] = "startWrite" /\ ~ctxDone[r]
    /\ script' = [script EXCEPT ![r] = "truncate"]
    /\ GoTo(r, "writing")
    /\ UNCHANGED <<ctxDone, lock, latest, at, verdict, tables, toInsert,
                   committed, applied, listed, crashes, drifts, historyVars>>

WriteReturns(r) ==
    /\ pc[r] = "writing" /\ ~ctxDone[r]
    /\ \/ script[r] = "finished"
          /\ GoTo(r, "sync")
          /\ UNCHANGED <<verdict, faulted>>
       \/ script[r] = "failed"
          /\ ProbeFails(r)
    /\ UNCHANGED <<ctxDone, lock, latest, at, clickHouseVars,
                   listed, crashes, drifts, runs, run, disturbed, seen>>

(* SYSTEM SYNC REPLICA on one pod returns once the replica has caught up.  *)
SyncReplica(r) ==
    /\ pc[r] = "sync" /\ ~ctxDone[r]
    /\ \/ at[r] \notin listed[r]
       \/ applied[ClusterOf[r]][at[r]] = committed[ClusterOf[r]][ShardOf[at[r]]]
    /\ NextPod(r, "assert")
    /\ UNCHANGED <<ctxDone, lock, latest, verdict,
                   clickHouseVars, listed, crashes, drifts, historyVars>>

(* The rows a read of the Distributed table finds in each shard: those of  *)
(* the replica it is sent to. An INSERT spreads the probe rows evenly, so  *)
(* the row count is right when there is one batch per shard on average.    *)
DistributedReads(c) ==
    {[s \in Shards |-> applied[c][route[s]]] :
        route \in {f \in [Shards -> Pods] : \A s \in Shards : ShardOf[f[s]] = s}}

(* healthcheckWriteAssertions: the row count, every shard read, and every  *)
(* replica of a shard with the same rows, not none.                        *)
AssertionHolds(i, c, read) ==
    CASE i = 1 -> \/ \A s \in Shards : read[s] = 1
                  \/ \E s, t \in Shards : read[s] > 1 /\ read[t] = 0
      [] i = 2 -> \A s \in Shards : read[s] > 0
      [] i = 3 -> \A s \in Shards : \A p, q \in Replicas(s) :
                     applied[c][p] = applied[c][q] /\ applied[c][p] > 0

NumAssertions == 3

CheckAssertion(r) ==
    /\ pc[r] = "assert" /\ ~ctxDone[r]
    /\ \E read \in DistributedReads(ClusterOf[r]) :
         IF AssertionHolds(at[r], ClusterOf[r], read)
         THEN /\ at' = [at EXCEPT ![r] = IF @ < NumAssertions THEN @ + 1 ELSE 1]
              /\ GoTo(r, IF at[r] < NumAssertions THEN "assert" ELSE "conclude")
              /\ UNCHANGED verdict
         ELSE /\ GoTo(r, "conclude")
              /\ Record(r, "FAIL")
              /\ UNCHANGED at
    /\ UNCHANGED <<ctxDone, lock, latest, clickHouseVars,
                   listed, crashes, drifts, historyVars>>

(* The checks after the probe, redaction and Finalize: replica_health is   *)
(* critical and wants every replica caught up, metrics_endpoint is a       *)
(* warning, no_secret_leakage is critical.                                 *)
CaughtUp(c) == \A p \in Pods : applied[c][p] = committed[c][ShardOf[p]]

Conclude(r) ==
    /\ pc[r] = "conclude"
    /\ \E fault, metrics \in BOOLEAN :
         /\ ctxDone[r] => fault /\ ~metrics
         /\ Record(r, IF fault \/ ~CaughtUp(ClusterOf[r]) THEN "FAIL"
                      ELSE IF metrics THEN "PASS" ELSE "WARN")
         /\ faulted' = [faulted EXCEPT ![r] = @ \/ fault]
    /\ GoTo(r, "store")
    /\ UNCHANGED <<ctxDone, lock, latest, at, clickHouseVars,
                   listed, crashes, drifts, runs, run, disturbed, seen>>

\* Mutant of Store: a FAIL report is answered but not kept.
Store_NotFail(r) ==
    /\ pc[r] = "store"
    /\ latest' = IF verdict[r] = "FAIL" THEN latest
                 ELSE [latest EXCEPT ![Key(r)] =
                         [run |-> run[r], status |-> verdict[r]]]
    /\ GoTo(r, "respond")
    /\ UNCHANGED <<ctxDone, lock, at, verdict,
                   clickHouseVars, listed, crashes, drifts, historyVars>>

(* latest[key] = report, under latestMu and before the response.           *)
Store(r) ==
    /\ pc[r] = "store"
    /\ latest' = [latest EXCEPT
                    ![Key(r)] = [run |-> run[r], status |-> verdict[r]]]
    /\ GoTo(r, "respond")
    /\ UNCHANGED <<ctxDone, lock, at, verdict,
                   clickHouseVars, listed, crashes, drifts, historyVars>>

(* writeJSON and the deferred Unlock.                                      *)
Respond(r) ==
    /\ pc[r] = "respond"
    /\ seen' = [seen EXCEPT ![Key(r)] = run[r]]
    /\ Unlock(r)
    /\ GoTo(r, "answered")
    /\ UNCHANGED <<ctxDone, latest, at, verdict, clickHouseVars,
                   listed, crashes, drifts, runs, run, faulted, disturbed>>

(* GET /healthcheck/latest: one read of the map under the read lock.       *)
GetLatest(k) ==
    /\ latest[k] # NoReport
    /\ seen' = [seen EXCEPT ![k] = latest[k].run]
    /\ UNCHANGED <<handlerVars, clickHouseVars, listed, crashes, drifts,
                   runs, run, faulted, disturbed>>

-----------------------------------------------------------------------------
(* The deadline, faults and restarts. *)

(* REQUEST_TIMEOUT passes, or the client goes away.                        *)
Expire(r) ==
    /\ pc[r] \in LockedSteps \cup {"locking"}
    /\ ~ctxDone[r]
    /\ ctxDone' = [ctxDone EXCEPT ![r] = TRUE]
    /\ UNCHANGED <<pc, lock, latest, at, verdict,
                   clickHouseVars, listed, crashes, drifts, historyVars>>

(* An exec of the probe fails: the pod, its container or the stream is     *)
(* gone.                                                                   *)
ExecFault(r) ==
    /\ pc[r] \in ProbeSteps /\ ~ctxDone[r]
    /\ ExecStops(r)

(* The process restarts: its requests, mutexes and reports are gone, the   *)
(* scripts it started are not.                                             *)
Crash(s) ==
    /\ crashes[s] < MaxCrashes
    /\ crashes' = [crashes EXCEPT ![s] = @ + 1]
    /\ pc' = [r \in Requests |->
                IF ServerOf[r] = s /\ pc[r] \in LockedSteps \cup {"locking"}
                THEN "lost" ELSE pc[r]]
    /\ lock' = [k \in Keys |-> IF k[1] = s THEN NoRequest ELSE lock[k]]
    /\ latest' = [k \in Keys |-> IF k[1] = s THEN NoReport ELSE latest[k]]
    /\ seen' = [k \in Keys |-> IF k[1] = s THEN 0 ELSE seen[k]]
    /\ UNCHANGED <<ctxDone, at, verdict, clickHouseVars, listed, drifts,
                   runs, run, faulted, disturbed>>

-----------------------------------------------------------------------------
(* ClickHouse, as the probe uses it. *)

(* A script whose handler is gone disturbs the requests whose probe is     *)
(* using the same tables.                                                  *)
Disturbs(r) ==
    disturbed' = [q \in Requests |->
        \/ disturbed[q]
        \/ /\ q # r /\ ClusterOf[q] = ClusterOf[r] /\ pc[r] # "writing"
           /\ pc[q] \in {"writing", "sync", "assert", "conclude", "store", "respond"}]

(* TRUNCATE ... ON CLUSTER waits for every replica.                        *)
ScriptTruncate(r) ==
    /\ script[r] = "truncate"
    /\ script' = [script EXCEPT ![r] = "insert"]
    /\ toInsert' = [toInsert EXCEPT ![r] = Shards]
    /\ committed' = [committed EXCEPT ![ClusterOf[r]] = [s \in Shards |-> 0]]
    /\ applied' = [applied EXCEPT ![ClusterOf[r]] = [p \in Pods |-> 0]]
    /\ Disturbs(r)
    /\ UNCHANGED <<handlerVars, tables, listed, crashes, drifts,
                   runs, run, faulted, seen>>

(* insert_distributed_sync: the part of a shard is on one of its replicas. *)
(* A replicated table may drop a block equal to one it has.                *)
ScriptInsert(r, s) ==
    LET c == ClusterOf[r]
    IN  /\ script[r] = "insert"
        /\ s \in toInsert[r]
        /\ \E p \in Replicas(s),
              batches \in {committed[c][s] + 1} \cup ({committed[c][s]} \ {0}) :
             /\ committed' = [committed EXCEPT ![c][s] = batches]
             /\ applied' = [applied EXCEPT ![c][p] = batches]
        /\ toInsert' = [toInsert EXCEPT ![r] = @ \ {s}]
        /\ script' = [script EXCEPT ![r] =
                        IF toInsert[r] = {s} THEN "finished" ELSE "insert"]
        /\ Disturbs(r)
        /\ UNCHANGED <<handlerVars, tables, listed, crashes, drifts,
                       runs, run, faulted, seen>>

(* A statement fails; --multiquery stops at it.                            *)
ScriptFails(r) ==
    /\ Running(r)
    /\ script' = [script EXCEPT ![r] = "failed"]
    /\ UNCHANGED <<handlerVars, tables, toInsert, committed, applied,
                   listed, crashes, drifts, historyVars>>

(* A replica catches up with the log of its shard.                         *)
Replicate(c, p) ==
    /\ applied[c][p] # committed[c][ShardOf[p]]
    /\ applied' = [applied EXCEPT ![c][p] = committed[c][ShardOf[p]]]
    /\ UNCHANGED <<handlerVars, tables, script, toInsert, committed,
                   listed, crashes, drifts, historyVars>>

(* Somebody else redefines a reserved table on a pod.                      *)
Drift(c, p) ==
    /\ drifts < MaxDrifts
    /\ tables[c][p] # "drifted"
    /\ tables' = [tables EXCEPT ![c][p] = "drifted"]
    /\ drifts' = drifts + 1
    /\ UNCHANGED <<handlerVars, script, toInsert, committed, applied,
                   listed, crashes, historyVars>>

-----------------------------------------------------------------------------

Handle(r) ==
    \/ GetCluster(r) \/ Inspect(r) \/ CtxStopsProbe(r) \/ CreateDatabase(r)
    \/ ValidateBefore(r) \/ CreateTables(r) \/ ValidateAfter(r)
    \/ StartWrite(r) \/ WriteReturns(r) \/ SyncReplica(r) \/ CheckAssertion(r)
    \/ Conclude(r) \/ Store(r) \/ Respond(r)

RunScript(r) ==
    \/ ScriptTruncate(r) \/ ScriptFails(r)
    \/ \E s \in Shards : ScriptInsert(r, s)

(* All requests are over and no script is left: the system rests.          *)
Rest ==
    /\ \A r \in Requests : pc[r] \in EndSteps /\ ~Running(r)
    /\ UNCHANGED vars

Next ==
    \/ \E r \in Requests :
         Arrive(r) \/ Acquire(r) \/ Handle(r) \/ RunScript(r)
         \/ Expire(r) \/ ExecFault(r)
    \/ \E k \in Keys : GetLatest(k)
    \/ \E s \in Servers : Crash(s)
    \/ \E c \in Clusters, p \in Pods : Replicate(c, p) \/ Drift(c, p)
    \/ Rest

Spec == Init /\ [][Next]_vars

(* The scheduling the code justifies: a deadline passes, a free mutex is   *)
(* handed to a waiter, and a handler whose context is done gets on. Nothing*)
(* is assumed of Kubernetes, of ClickHouse or of its scripts.              *)
Fairness ==
    \A r \in Requests :
        /\ WF_vars(Expire(r))
        /\ WF_vars(Acquire(r))
        /\ WF_vars(ctxDone[r] /\ Handle(r))

FairSpec == Spec /\ Fairness

-----------------------------------------------------------------------------
(* Properties. *)

(* Two runs of one process for one cluster are never past the mutex        *)
(* together, whatever errors, panics, deadlines and restarts ended others: *)
(* runHealthcheck holds healthcheckLock(key) until it returns.             *)
OneRunPerKey ==
    \A q, r \in Requests :
        /\ pc[q] \in LockedSteps /\ pc[r] \in LockedSteps
        /\ Key(q) = Key(r)
        => q = r

(* A mutex that is taken is in the hands of a run of its key that is still *)
(* on its way: no error, panic, deadline or restart leaves one behind that *)
(* nobody would unlock, since the Unlock of runHealthcheck is deferred.    *)
NoMutexIsLeft ==
    \A k \in Keys : lock[k] # NoRequest =>
        pc[lock[k]] \in LockedSteps /\ Key(lock[k]) = k

(* A report shown to a client, by POST or by GET latest, is never newer    *)
(* than the stored one: latest is written before the response.             *)
ReadYourWrites == \A k \in Keys : seen[k] <= latest[k].run

(* While the process lives, the latest report is never replaced by that of *)
(* a run that began earlier, nor taken away.                               *)
LatestMovesForward ==
    [][\A k \in Keys :
          crashes'[k[1]] = crashes[k[1]] => latest[k].run <= latest'[k].run]_vars

(* The mutex, the map and the two handlers together are the register of    *)
(* LatestReport: each report takes effect at once, between the call and    *)
(* its answer, and the probes in between leave no other trace in it.       *)
LatestIsRegister == Register!Spec

(* A run ends in FAIL only because it met a fault, a drift or its          *)
(* deadline, or because a script left behind by another request changed    *)
(* the tables under it: the truncate, the sync of every replica and the    *)
(* mutex together make the assertions of a healthy cluster hold.           *)
FailIsExplained ==
    \A r \in Requests : verdict[r] = "FAIL" => faulted[r] \/ disturbed[r]

(* A report that does not FAIL, from a run nobody disturbed, means every   *)
(* replica of every shard holds exactly the rows of one probe.             *)
PassMeansReplicated ==
    \A r \in Requests :
        /\ pc[r] \in {"store", "respond"}
        /\ verdict[r] # "FAIL"
        /\ ~disturbed[r]
        => \A p \in Pods : applied[ClusterOf[r]][p] = 1

(* The rows of a reserved table somebody else defined before the runs are  *)
(* neither truncated nor added to, on any pod: the definitions of all pods *)
(* are validated before the first write. The exception is a pod that was   *)
(* missing from the list of a run: its tables are not looked at.           *)
(* (Runs with MaxDrifts = 0.)                                              *)
DriftedTableUntouched ==
    [][\A c \in Clusters, p \in Pods :
          /\ tables[c][p] = "drifted"
          /\ \A r \in Requests : ClusterOf[r] = c => p \in listed[r]
          => applied'[c][p] = applied[c][p]]_vars

(* A request that is not on its way to write to a table of its cluster on  *)
(* a pod: the validation of that pod is still to come, or it has stopped.  *)
PastValidation ==
    {"createTables", "validateAfter", "startWrite", "writing", "sync", "assert"}
Barred(r, p) ==
    /\ ~Running(r)
    /\ pc[r] \notin PastValidation
    /\ pc[r] = "validateBefore" => at[r] <= p

(* Somebody else's table with nobody on the way to it.                     *)
Quiet(c, p) ==
    /\ tables[c][p] = "drifted"
    /\ CaughtUp(c)
    /\ \A r \in Requests : ClusterOf[r] = c => Barred(r, p)

(* A table that somebody else redefines at any time, also between runs and *)
(* before the validation of its pod in one, stays as it is from then on,   *)
(* whatever handlers and the scripts of lost requests do: no step changes  *)
(* its rows or its definition, or gets past the validation of its pod,     *)
(* until a run misses the pod in its list.                                 *)
QuietDriftIsKept ==
    [][\A c \in Clusters, p \in Pods :
          Quiet(c, p) =>
              /\ applied'[c][p] = applied[c][p]
              /\ tables'[c][p] = "drifted"
              /\ (\A r \in Requests : ClusterOf[r] = c => p \in listed[r])' => Quiet(c, p)']_vars

(* Every request that arrived is answered or dropped, even when Kubernetes *)
(* and ClickHouse stop answering and although Lock ignores the context:    *)
(* the deadline ends every step the mutex is held for.                     *)
EveryRequestEnds ==
    \A r \in Requests : pc[r] = "locking" ~> pc[r] \in EndSteps

(* The steps a run still takes when its context is done: the exec or read  *)
(* it is at, the last checks, the report and the answer.                   *)
Remaining(step) ==
    CASE step \in ProbeSteps \cup {"getCluster", "inspect"} -> 4
      [] step = "conclude" -> 3
      [] step = "store" -> 2
      [] step = "respond" -> 1
      [] OTHER -> 0

(* Whatever a run that holds the mutex does once its context is done takes *)
(* it nearer to its end: it begins no exec, no retry and no next pod, so   *)
(* that it gives the mutex back after four steps at most, however many     *)
(* pods and checks there are.                                              *)
DoneRunWindsDown ==
    [][\A r \in Requests :
          ctxDone[r] /\ pc[r] \in LockedSteps =>
              /\ ctxDone'[r]
              /\ pc'[r] = pc[r] \/ Remaining(pc'[r]) < Remaining(pc[r])]_vars

(* docs/phases/phase-04-healthcheck.md: concurrent healthchecks of one     *)
(* cluster "must be serialized so they cannot truncate or write the same   *)
(* validation tables simultaneously".                                      *)
ProbeWritesSerialized ==
    \A q, r \in Requests :
        Running(q) /\ Running(r) /\ ClusterOf[q] = ClusterOf[r] => q = r

=============================================================================
