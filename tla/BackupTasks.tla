---------------------------- MODULE BackupTasks -----------------------------
(***************************************************************************)
(* Backup and restore of one managed cluster: POST /backup, POST /restore  *)
(* and GET /tasks/{name} of upm-api-server (internal/kube/backup.go,       *)
(* internal/model/backup.go), the Jobs they make, and the script in the    *)
(* Pods of these Jobs (backupJobScript) against ClickHouse and the bucket. *)
(*                                                                         *)
(* The handlers create a Job and forget it. Everything after that happens  *)
(* between Pods that know nothing of each other: a restore looks whether   *)
(* its target exists, creates it and fills it in three statements, and a   *)
(* statement goes on in ClickHouse when its Pod is gone.                   *)
(***************************************************************************)
EXTENDS Naturals

CONSTANTS
    Clients,         \* clients, each with one body
    Tables,          \* tables <database>.<table> of the cluster
    Given,           \* object paths that bodies name
    Asked,           \* the bodies in use
    ScheduledTables, \* tables that schedules back up
    NoTable,         \* no target: the body of a backup
    MaxTasks,        \* bound: Jobs
    MaxSeconds,      \* bound: seconds on the clock
    MaxFaults,       \* bound: failed statements and calls, lost answers
    MaxDdl           \* bound: tables created and dropped by others

Tasks == 1..MaxTasks
Seconds == 0..MaxSeconds

(* An object path: one that is given, or a prefix with the second and, when*)
(* a schedule made it, the Pod.                                            *)
Manual == "manual"
Scheduled == "scheduled"
Paths == (Given \cup {Manual, Scheduled}) \X Seconds \X (Tasks \cup {0})
GivenPath(p) == <<p, 0, 0>>
NoPath == <<"", 0, 0>>

Bodies ==
    [type : {"backup"}, source : Tables, target : {NoTable},
     path : Given \cup {Manual}, dryRun : BOOLEAN]
    \cup {b \in [type : {"restore"}, source : Tables, target : Tables,
                 path : Given, dryRun : BOOLEAN] : b.source # b.target}

NoJob == [type |-> "none", source |-> NoTable, target |-> NoTable, origin |-> "none"]
Jobs ==
    [type : {"backup"}, source : Tables, target : {NoTable}, origin : {"api", "schedule"}]
    \cup [type : {"restore"}, source : Tables, target : Tables, origin : {"api"}]

ASSUME AskedAssumption == Asked \subseteq Bodies
ASSUME NamesAssumption ==
    /\ NoTable \notin Tables
    /\ Given \cap {Manual, Scheduled, ""} = {}
    /\ ScheduledTables \subseteq Tables
ASSUME BoundsAssumption ==
    /\ MaxTasks \in Nat /\ MaxSeconds \in Nat
    /\ MaxFaults \in Nat /\ MaxDdl \in Nat

VARIABLES
    \* Clients and their requests:
    pc,       \* where the handler of a client's request is
    body,     \* the body a client posts
    path,     \* storage.path of the request, defaults filled in
    told,     \* the task a client was told of, 0 if none
    seen,     \* the status a client last read for it
    \* Kubernetes:
    job,      \* the Jobs that were created
    listed,   \* those that still exist
    pod,      \* the Pod of a Job
    status,   \* the status that the Job controller has written
    \* The script in the Pod and its statement in ClickHouse:
    at,       \* the statement it has come to
    dest,     \* BACKUP_PATH
    \* ClickHouse and the bucket:
    table,    \* what a table holds
    maker,    \* the restore that created it, 0 if somebody else did
    writers,  \* the restores that wrote to it
    taken,    \* paths with an object, complete or not
    complete, \* what can be restored: the path of a backup and its table
    \* Bounds:
    created, second, faults, ddls,
    \* History, read by the properties only:
    cause     \* why a task failed

clientVars == <<pc, body, path, told, seen>>
kubeVars == <<job, listed, pod, status>>
tableVars == <<table, maker, writers>>
bucketVars == <<taken, complete>>
boundVars == <<created, second, faults, ddls>>
vars == <<clientVars, kubeVars, at, dest, tableVars, bucketVars, boundVars, cause>>

Steps == {"none", "check", "create", "restore", "loading", "backup", "storing", "stopped"}
Causes == {"none", "targetExists", "noSource", "pathTaken", "notRestorable", "fault", "killed"}
Shown == {"none", "Pending", "Running", "Succeeded", "Failed", "NotFound"}

TypeOK ==
    /\ pc \in [Clients -> {"idle", "prepare", "create", "accepted", "error"}]
    /\ body \in [Clients -> Asked]
    /\ path \in [Clients -> Paths \cup {NoPath}]
    /\ told \in [Clients -> Tasks \cup {0}]
    /\ seen \in [Clients -> Shown]
    /\ job \in [Tasks -> Jobs \cup {NoJob}]
    /\ listed \subseteq Tasks
    /\ pod \in [Tasks -> {"none", "running", "succeeded", "failed"}]
    /\ status \in [Tasks -> [active : 0..1, succeeded : Nat, failed : Nat,
                             condition : {"none", "Complete", "Failed"}]]
    /\ at \in [Tasks -> Steps]
    /\ dest \in [Tasks -> Paths \cup {NoPath}]
    /\ table \in [Tables -> {"absent", "empty", "partial", "full"}]
    /\ maker \in [Tables -> Tasks \cup {0}]
    /\ writers \in [Tables -> SUBSET Tasks]
    /\ taken \subseteq Paths \cup {NoPath} 
    /\ complete \subseteq (Paths \cup {NoPath}) \X (Tables \cup {NoTable})
    /\ created \in Nat /\ second \in Seconds /\ faults \in Nat /\ ddls \in Nat
    /\ cause \in [Tasks -> Causes]

Status(active, succeeded, failed, condition) ==
    [active |-> active, succeeded |-> succeeded, failed |-> failed, condition |-> condition]
NewStatus == Status(0, 0, 0, "none")

Init ==
    /\ pc = [c \in Clients |-> "idle"]
    /\ body \in [Clients -> Asked]
    /\ path = [c \in Clients |-> NoPath]
    /\ told = [c \in Clients |-> 0]
    /\ seen = [c \in Clients |-> "none"]
    /\ job = [j \in Tasks |-> NoJob]
    /\ listed = {}
    /\ pod = [j \in Tasks |-> "none"]
    /\ status = [j \in Tasks |-> NewStatus]
    /\ at = [j \in Tasks |-> "none"]
    /\ dest = [j \in Tasks |-> NoPath]
    /\ table \in [Tables -> {"absent", "full"}]
    /\ maker = [t \in Tables |-> 0]
    /\ writers = [t \in Tables |-> {}]
    /\ \E P \in SUBSET Given : \E of \in [P -> Tables] :
          /\ complete = {<<GivenPath(p), of[p]>> : p \in P}
          /\ taken = {GivenPath(p) : p \in P}
    /\ created = 0 /\ second = 0 /\ faults = 0 /\ ddls = 0
    /\ cause = [j \in Tasks |-> "none"]

Exists(t) == table[t] # "absent"
Source(j) == job[j].source
Target(j) == job[j].target
BackupOf(j) == <<dest[j], Source(j)>>

-----------------------------------------------------------------------------
(* Requests. *)

Goto(c, l) == pc' = [pc EXCEPT ![c] = l]

(* The body is valid. A backup without a path gets one with the second of  *)
(* the clock. A client posts again after an error or a failed task.        *)
Post(c) ==
    /\ pc[c] \in {"idle", "error"} \/ seen[c] = "Failed"
    /\ Goto(c, "prepare")
    /\ path' = [path EXCEPT ![c] =
          IF body[c].path = Manual THEN <<Manual, second, 0>> ELSE GivenPath(body[c].path)]
    /\ told' = [told EXCEPT ![c] = 0]
    /\ seen' = [seen EXCEPT ![c] = "none"]
    /\ UNCHANGED <<body, kubeVars, at, dest, tableVars, bucketVars, boundVars, cause>>

(* backupRuntime and the check of the storage Secret only read: the cluster*)
(* is fit for a task or the request ends with an error.                    *)
Prepare(c) ==
    /\ pc[c] = "prepare"
    /\ Goto(c, "create") \/ Goto(c, "error")
    /\ UNCHANGED <<body, path, told, seen, kubeVars, at, dest, tableVars,
                   bucketVars, boundVars, cause>>

(* A new Job under a generated name. *)
MakeJob(j, j2) ==
    /\ created' = j /\ j \in Tasks
    /\ job' = [job EXCEPT ![j] = j2]
    /\ listed' = listed \cup {j}

JobOf(c) == [type |-> body[c].type, source |-> body[c].source,
             target |-> body[c].target, origin |-> "api"]

Accept(c, j, shown) ==
    /\ Goto(c, "accepted")
    /\ told' = [told EXCEPT ![c] = j]
    /\ seen' = [seen EXCEPT ![c] = shown]

(* The server-side dry run leaves no Job. *)
CreateDryRun(c) ==
    /\ pc[c] = "create" /\ body[c].dryRun
    /\ Accept(c, 0, "Pending")
    /\ UNCHANGED <<body, path, kubeVars, at, dest, tableVars, bucketVars, boundVars, cause>>

(* The answer of the create may be lost: the client is told of an error.   *)
CreateJob(c) ==
    /\ pc[c] = "create" /\ ~body[c].dryRun
    /\ LET j == created + 1 IN
          /\ MakeJob(j, JobOf(c))
          /\ dest' = [dest EXCEPT ![j] = path[c]]
          /\ \/ Accept(c, j, "Pending") /\ UNCHANGED faults
             \/ /\ faults < MaxFaults /\ faults' = faults + 1
                /\ Goto(c, "error") /\ UNCHANGED <<told, seen>>
    /\ UNCHANGED <<body, path, pod, status, at, tableVars, bucketVars, second, ddls, cause>>

CreateFails(c) ==
    /\ pc[c] = "create"
    /\ faults < MaxFaults /\ faults' = faults + 1
    /\ Goto(c, "error")
    /\ UNCHANGED <<body, path, told, seen, kubeVars, at, dest, tableVars,
                   bucketVars, created, second, ddls, cause>>

(* mutant: without the counters *)
TaskStatus_Unknown(s) ==
    IF s.condition = "Complete" THEN "Succeeded"
    ELSE IF s.condition = "Failed" THEN "Failed"
    ELSE IF s.active > 0 THEN "Running"
    ELSE "Unknown"
(* The status of a Job: a true condition first, the counters otherwise.    *)
TaskStatus(s) ==
    IF s.condition = "Complete" THEN "Succeeded"
    ELSE IF s.condition = "Failed" THEN "Failed"
    ELSE IF s.active > 0 THEN "Running"
    ELSE IF s.failed > 0 THEN "Failed"
    ELSE IF s.succeeded > 0 THEN "Succeeded"
    ELSE "Pending"

GetTask(c) ==
    /\ pc[c] = "accepted" /\ told[c] # 0
    /\ seen' = [seen EXCEPT ![c] =
          IF told[c] \in listed THEN TaskStatus(status[told[c]]) ELSE "NotFound"]
    /\ UNCHANGED <<pc, body, path, told, kubeVars, at, dest, tableVars,
                   bucketVars, boundVars, cause>>

-----------------------------------------------------------------------------
(* The Job of a task: its Pod, its deadline and its status. *)

(* A CronJob starts a backup.                                              *)
ScheduledRun(t) ==
    /\ MakeJob(created + 1, [type |-> "backup", source |-> t,
                             target |-> NoTable, origin |-> "schedule"])
    /\ UNCHANGED <<clientVars, pod, status, at, dest, tableVars, bucketVars,
                   second, faults, ddls, cause>>

(* Pods that a Job may lose and start another. *)
BackoffLimit_One == 1
BackoffLimit == 0
Failures(j) == IF pod[j] = "failed" THEN 1 ELSE 0
ScriptStart(j) == IF job[j].type = "backup" THEN "backup" ELSE "check"

(* mutant: the second alone *)
ScheduledPath_SecondOnly(j) == <<Scheduled, second, 0>>
(* A scheduled run appends the second and the host name, that of the Pod.  *)
ScheduledPath(j) == <<Scheduled, second, j>>

StartPod(j) ==
    /\ j \in listed
    /\ pod[j] \in {"none", "failed"} /\ Failures(j) <= BackoffLimit
    /\ pod' = [pod EXCEPT ![j] = "running"]
    /\ at' = [at EXCEPT ![j] = ScriptStart(j)]
    /\ dest' = [dest EXCEPT ![j] =
          IF job[j].origin = "schedule" THEN ScheduledPath(j) ELSE @]
    /\ UNCHANGED <<clientVars, job, listed, status, tableVars, bucketVars, boundVars, cause>>

(* mutant: no activeDeadlineSeconds, only a lost node *)
Kill_LostNode(j) ==
    /\ j \in listed /\ pod[j] = "running"
    /\ faults < MaxFaults /\ faults' = faults + 1
    /\ pod' = [pod EXCEPT ![j] = "failed"]
    /\ cause' = [cause EXCEPT ![j] = "killed"]
    /\ UNCHANGED <<clientVars, job, listed, status, at, dest, tableVars,
                   bucketVars, created, second, ddls>>
(* activeDeadlineSeconds passes, or the node is lost. The statement the Pod*)
(* was waiting for goes on in ClickHouse.                                  *)
Kill(j) ==
    /\ j \in listed /\ pod[j] \in {"none", "running"}
    /\ pod' = [pod EXCEPT ![j] = "failed"]
    /\ cause' = [cause EXCEPT ![j] = "killed"]
    /\ UNCHANGED <<clientVars, job, listed, status, at, dest, tableVars,
                   bucketVars, boundVars>>

(* The controller first writes that no Pod is active any more, then the    *)
(* counters, then the condition.                                           *)
SyncActive(j) ==
    /\ j \in listed
    /\ status' = [status EXCEPT ![j] =
          Status(IF pod[j] = "running" THEN 1 ELSE 0, @.succeeded, @.failed, @.condition)]
    /\ UNCHANGED <<clientVars, job, listed, pod, at, dest, tableVars,
                   bucketVars, boundVars, cause>>

SyncEnded(j) ==
    /\ j \in listed /\ status[j].active = 0
    /\ \/ /\ pod[j] = "succeeded" /\ status[j].succeeded = 0
          /\ status' = [status EXCEPT ![j] = Status(0, 1, @.failed, @.condition)]
       \/ /\ pod[j] = "failed" /\ status[j].failed < Failures(j)
          /\ status' = [status EXCEPT ![j] = Status(0, @.succeeded, @.failed + 1, @.condition)]
    /\ UNCHANGED <<clientVars, job, listed, pod, at, dest, tableVars,
                   bucketVars, boundVars, cause>>

Conclude(j) ==
    /\ j \in listed /\ status[j].condition = "none"
    /\ \/ /\ status[j].succeeded > 0
          /\ status' = [status EXCEPT ![j] = Status(@.active, @.succeeded, @.failed, "Complete")]
       \/ /\ status[j].failed > BackoffLimit
          /\ status' = [status EXCEPT ![j] = Status(@.active, @.succeeded, @.failed, "Failed")]
    /\ UNCHANGED <<clientVars, job, listed, pod, at, dest, tableVars,
                   bucketVars, boundVars, cause>>

(* ttlSecondsAfterFinished, or the history limit of a schedule. *)
RemoveJob(j) ==
    /\ j \in listed /\ status[j].condition # "none"
    /\ listed' = listed \ {j}
    /\ UNCHANGED <<clientVars, job, pod, status, at, dest, tableVars,
                   bucketVars, boundVars, cause>>

-----------------------------------------------------------------------------
(* The script. Each action is what a statement does in ClickHouse; when it *)
(* has done so the script goes on, if its Pod is still there.              *)

GoOn(j, next) ==
    /\ at' = [at EXCEPT ![j] = IF pod[j] = "running" THEN next ELSE "stopped"]
    /\ UNCHANGED <<pod, cause>>

(* mutant: the client goes on after an error and the script ends well *)
Fail_GoesOn(j, why) ==
    /\ at' = [at EXCEPT ![j] = IF pod[j] # "running" THEN "stopped"
                               ELSE IF @ = "check" THEN "create"
                               ELSE IF @ = "create" THEN "restore" ELSE "stopped"]
    /\ pod' = [pod EXCEPT ![j] = IF @ = "running" /\ at'[j] = "stopped" THEN "succeeded" ELSE @]
    /\ UNCHANGED cause
(* set -e: a statement that fails ends the script. *)
Fail(j, why) ==
    /\ at' = [at EXCEPT ![j] = "stopped"]
    /\ pod' = [pod EXCEPT ![j] = IF @ = "running" THEN "failed" ELSE @]
    /\ cause' = [cause EXCEPT ![j] = IF pod[j] = "running" THEN why ELSE @]

Succeed(j) ==
    /\ at' = [at EXCEPT ![j] = "stopped"]
    /\ pod' = [pod EXCEPT ![j] = IF @ = "running" THEN "succeeded" ELSE @]
    /\ UNCHANGED cause

outsideVars == <<clientVars, job, listed, status, dest, boundVars>>

(* SELECT throwIf(count() > 0): the target must not exist on any replica.  *)
CheckTarget(j) ==
    /\ at[j] = "check"
    /\ \/ ~Exists(Target(j)) /\ GoOn(j, "create")
       \/ Exists(Target(j)) /\ Fail(j, "targetExists")
    /\ UNCHANGED <<outsideVars, tableVars, bucketVars>>

(* mutant: CREATE TABLE IF NOT EXISTS *)
CreateTarget_IfNotExists(j) ==
    /\ at[j] = "create"
    /\ \/ /\ Exists(Source(j)) /\ ~Exists(Target(j))
          /\ table' = [table EXCEPT ![Target(j)] = "empty"]
          /\ maker' = [maker EXCEPT ![Target(j)] = j]
          /\ GoOn(j, "restore")
       \/ ~Exists(Source(j)) /\ Fail(j, "noSource") /\ UNCHANGED <<table, maker>>
       \/ /\ Exists(Source(j)) /\ Exists(Target(j))
          /\ GoOn(j, "restore") /\ UNCHANGED <<table, maker>>
    /\ UNCHANGED <<outsideVars, writers, bucketVars>>

(* CREATE TABLE target ON CLUSTER AS source, without IF NOT EXISTS.        *)
CreateTarget(j) ==
    /\ at[j] = "create"
    /\ \/ /\ Exists(Source(j)) /\ ~Exists(Target(j))
          /\ table' = [table EXCEPT ![Target(j)] = "empty"]
          /\ maker' = [maker EXCEPT ![Target(j)] = j]
          /\ GoOn(j, "restore")
       \/ ~Exists(Source(j)) /\ Fail(j, "noSource") /\ UNCHANGED <<table, maker>>
       \/ /\ Exists(Source(j)) /\ Exists(Target(j))
          /\ Fail(j, "targetExists") /\ UNCHANGED <<table, maker>>
    /\ UNCHANGED <<outsideVars, writers, bucketVars>>

(* RESTORE TABLE source AS target: ClickHouse fills empty tables only.     *)
BeginRestore(j) ==
    /\ at[j] = "restore"
    /\ IF table[Target(j)] = "empty" /\ BackupOf(j) \in complete
         THEN /\ at' = [at EXCEPT ![j] = "loading"]
              /\ UNCHANGED <<pod, cause>>
         ELSE Fail(j, "notRestorable")
    /\ UNCHANGED <<outsideVars, tableVars, bucketVars>>

(* Rows of the backup reach the table, at last all of them.                *)
Load(j) ==
    /\ at[j] = "loading" /\ Exists(Target(j))
    /\ writers' = [writers EXCEPT ![Target(j)] = @ \cup {j}]
    /\ \/ /\ table' = [table EXCEPT ![Target(j)] = "partial"]
          /\ UNCHANGED <<at, pod, cause>>
       \/ /\ table[Target(j)] = "partial"
          /\ table' = [table EXCEPT ![Target(j)] = "full"]
          /\ Succeed(j)
    /\ UNCHANGED <<outsideVars, maker, bucketVars>>

(* BACKUP TABLE source: a path that is taken is refused.                   *)
BeginBackup(j) ==
    /\ at[j] = "backup"
    /\ \/ /\ Exists(Source(j)) /\ dest[j] \notin taken
          /\ taken' = taken \cup {dest[j]}
          /\ at' = [at EXCEPT ![j] = "storing"]
          /\ UNCHANGED <<pod, cause>>
       \/ ~Exists(Source(j)) /\ Fail(j, "noSource") /\ UNCHANGED taken
       \/ Exists(Source(j)) /\ dest[j] \in taken /\ Fail(j, "pathTaken") /\ UNCHANGED taken
    /\ UNCHANGED <<outsideVars, tableVars, complete>>

EndBackup(j) ==
    /\ at[j] = "storing"
    /\ complete' = complete \cup {BackupOf(j)}
    /\ Succeed(j)
    /\ UNCHANGED <<outsideVars, tableVars, taken>>

(* A statement fails: the bucket, a replica or the connection is gone.     *)
(* What it did to a table stays, an unfinished backup may be cleaned up.   *)
StatementFails(j) ==
    /\ at[j] \notin {"none", "stopped"}
    /\ faults < MaxFaults /\ faults' = faults + 1
    /\ Fail(j, "fault")
    /\ taken' \in {taken, IF at[j] = "storing" THEN taken \ {dest[j]} ELSE taken}
    /\ UNCHANGED <<clientVars, job, listed, status, dest, tableVars, complete,
                   created, second, ddls>>

Restoring(t) == \E j \in Tasks : at[j] \in {"restore", "loading"} /\ Target(j) = t

(* Others create tables, and drop them, though not one that is being       *)
(* restored: a leftover after its task, a table that was lost.             *)
OthersCreate(t) ==
    /\ ddls < MaxDdl /\ ddls' = ddls + 1
    /\ ~Exists(t)
    /\ table' = [table EXCEPT ![t] = "full"]
    /\ UNCHANGED <<clientVars, kubeVars, at, dest, maker, writers, bucketVars,
                   created, second, faults, cause>>

OthersDrop(t) ==
    /\ ddls < MaxDdl /\ ddls' = ddls + 1
    /\ Exists(t) /\ ~Restoring(t)
    /\ table' = [table EXCEPT ![t] = "absent"]
    /\ maker' = [maker EXCEPT ![t] = 0]
    /\ writers' = [writers EXCEPT ![t] = {}]
    /\ UNCHANGED <<clientVars, kubeVars, at, dest, bucketVars,
                   created, second, faults, cause>>

Tick ==
    /\ second < MaxSeconds /\ second' = second + 1
    /\ UNCHANGED <<clientVars, kubeVars, at, dest, tableVars, bucketVars,
                   created, faults, ddls, cause>>

Request(c) == Post(c) \/ Prepare(c) \/ CreateDryRun(c) \/ CreateJob(c)
              \/ CreateFails(c) \/ GetTask(c)
Controller(j) == StartPod(j) \/ Kill(j) \/ SyncActive(j) \/ SyncEnded(j)
                 \/ Conclude(j) \/ RemoveJob(j)
Script(j) == CheckTarget(j) \/ CreateTarget(j) \/ BeginRestore(j) \/ Load(j)
             \/ BeginBackup(j) \/ EndBackup(j) \/ StatementFails(j)

Next ==
    \/ \E c \in Clients : Request(c)
    \/ \E t \in ScheduledTables : ScheduledRun(t)
    \/ \E j \in Tasks : Controller(j) \/ Script(j)
    \/ \E t \in Tables : OthersCreate(t) \/ OthersDrop(t)
    \/ Tick

Spec == Init /\ [][Next]_vars

(* The deadline of a Job passes, the Job controller writes its status and  *)
(* the client goes on asking. Nothing is assumed of ClickHouse or the Pod. *)
FairSpec ==
    /\ Spec
    /\ \A j \in Tasks : WF_vars(Kill(j)) /\ WF_vars(SyncActive(j))
                        /\ WF_vars(SyncEnded(j)) /\ WF_vars(Conclude(j))
    /\ \A c \in Clients : WF_vars(GetTask(c))

-----------------------------------------------------------------------------
(* Properties. *)

Phase == [t \in Tables |->
    IF ~Exists(t) THEN "absent"
    ELSE IF maker[t] = 0 THEN "foreign"
    ELSE IF table[t] = "empty" THEN "claimed"
    ELSE IF table[t] = "partial" THEN "filling" ELSE "filled"]
Hands == [t \in Tables |-> writers[t] \cup ({maker[t]} \ {0})]

TargetTables == INSTANCE TargetTable WITH phase <- Phase, hands <- Hands

(* The check and the CREATE of a restore are two statements, between which *)
(* another restore of the same target, resubmitted or concurrent, or       *)
(* anybody else may create the table. Still the target of a restore is     *)
(* claimed by one task, filled by that task alone, also when its Pod is    *)
(* gone, and no table that others made is ever written to.                 *)
TargetsAreClaimed == TargetTables!Spec

(* A task that GET /tasks showed as Succeeded has done its work: the backup*)
(* is complete, or the target is the table this task made, filled from a   *)
(* complete backup (unless others have touched tables since). The status   *)
(* comes from the Job, the Job from the exit code of the script, that from *)
(* the statements, each of which may fail or be taken over by another task.*)
ShownSuccessIsReal ==
    \A c \in Clients : seen[c] = "Succeeded" =>
        LET j == told[c] IN
        /\ BackupOf(j) \in complete
        /\ \/ job[j].type = "backup"
           \/ ddls > 0
           \/ maker[Target(j)] = j /\ table[Target(j)] = "full"

(* What a client was shown as the end of a task does not change again: the *)
(* counters, which the status falls back on while the condition is not yet *)
(* written, and the condition agree, and no second Pod is started.         *)
EndedStatusIsFinal ==
    [][\A c \in Clients :
          seen[c] \in {"Succeeded", "Failed"} /\ told'[c] = told[c]
          => seen'[c] \in {seen[c], "NotFound"}]_vars

(* A scheduled run never meets an object at its path, though runs of one   *)
(* or of several schedules may start in the same second.                   *)
ScheduledPathIsFree ==
    \A j \in Tasks : job[j].origin = "schedule" => cause[j] # "pathTaken"

(* A client that goes on asking sees its task end, whatever ClickHouse, the*)
(* bucket and the Pod do.                                                  *)
TaskIsSeenToEnd ==
    \A c \in Clients :
        told[c] # 0 ~> seen[c] \in {"Succeeded", "Failed", "NotFound"}

=============================================================================
