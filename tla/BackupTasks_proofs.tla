------------------------- MODULE BackupTasks_proofs -------------------------
(***************************************************************************)
(* Proofs about BackupTasks: every variable keeps its type, and restores   *)
(* implement TargetTable, for any number of clients, Jobs, tables, faults  *)
(* and interventions of others.                                            *)
(***************************************************************************)
EXTENDS BackupTasks, TLAPS

(* The job of a body is a job. *)
LEMMA JobType ==
    ASSUME TypeOK, NEW c \in Clients
    PROVE  /\ JobOf(c) \in Jobs
           /\ body[c].path = Manual \/ body[c].path \in Given
  <1>1. body[c] \in Bodies
    BY AskedAssumption DEF TypeOK
  <1> QED
    BY <1>1 DEF Bodies, JobOf, Jobs

LEMMA PathType ==
    /\ \A p \in Given : GivenPath(p) \in Paths
    /\ \A s \in Seconds : <<Manual, s, 0>> \in Paths
    /\ \A s \in Seconds, j \in Tasks : <<Scheduled, s, j>> \in Paths
  BY BoundsAssumption DEF GivenPath, Paths, Seconds, Manual, Scheduled

LEMMA StatusType == NewStatus \in [active : 0..1, succeeded : Nat, failed : Nat,
                                   condition : {"none", "Complete", "Failed"}]
  BY DEF NewStatus, Status

LEMMA TypeInit == Init => TypeOK
  BY PathType, StatusType, BoundsAssumption DEF Init, TypeOK, Steps, Causes, Shown, Seconds, Tasks

(* Steps of a request. *)
LEMMA RequestType ==
    ASSUME TypeOK, NEW c \in Clients, Request(c)
    PROVE  TypeOK'
  <1>1. CASE Post(c)
    <2>1. path' \in [Clients -> Paths \cup {NoPath}]
      BY <1>1, PathType, JobType DEF Post, TypeOK
    <2> QED
      BY <1>1, <2>1 DEF Post, Goto, TypeOK, kubeVars, tableVars, bucketVars, boundVars, Shown
  <1>2. CASE Prepare(c)
    BY <1>2 DEF Prepare, Goto, TypeOK, kubeVars, tableVars, bucketVars, boundVars
  <1>3. CASE CreateDryRun(c)
    BY <1>3 DEF CreateDryRun, Accept, Goto, TypeOK, kubeVars, tableVars, bucketVars, boundVars, Shown
  <1>4. CASE CreateJob(c)
    <2>1. job' \in [Tasks -> Jobs \cup {NoJob}] /\ listed' \subseteq Tasks /\ created' \in Nat
      BY <1>4, JobType DEF CreateJob, MakeJob, TypeOK, Tasks
    <2>2. dest' \in [Tasks -> Paths \cup {NoPath}]
      BY <1>4 DEF CreateJob, TypeOK
    <2>0. created + 1 \in Tasks
      BY <1>4 DEF CreateJob, MakeJob
    <2>3. "Pending" \in Shown /\ pc \in [Clients -> {"idle", "prepare", "create", "accepted", "error"}]
          /\ told \in [Clients -> Tasks \cup {0}] /\ seen \in [Clients -> Shown]
          /\ faults \in Nat
      BY DEF TypeOK, Shown
    <2>4. pc' \in [Clients -> {"idle", "prepare", "create", "accepted", "error"}]
          /\ told' \in [Clients -> Tasks \cup {0}] /\ seen' \in [Clients -> Shown]
          /\ faults' \in Nat
      <3>1. CASE Accept(c, created + 1, "Pending") /\ UNCHANGED faults
        BY <2>0, <2>3, <3>1 DEF Accept, Goto
      <3>2. CASE faults' = faults + 1 /\ Goto(c, "error") /\ UNCHANGED <<told, seen>>
        BY <2>3, <3>2 DEF Goto
      <3> QED
        BY <1>4, <3>1, <3>2 DEF CreateJob
    <2> QED
      BY <1>4, <2>1, <2>2, <2>4 DEF CreateJob, TypeOK, tableVars, bucketVars
  <1>5. CASE CreateFails(c)
    BY <1>5 DEF CreateFails, Goto, TypeOK, kubeVars, tableVars, bucketVars
  <1>6. CASE GetTask(c)
    <2>1. \A s : TaskStatus(s) \in Shown
      BY DEF TaskStatus, Shown
    <2>2. seen' \in [Clients -> Shown]
      BY <1>6, <2>1 DEF GetTask, TypeOK, Shown
    <2> QED
      BY <1>6, <2>2 DEF GetTask, TypeOK, kubeVars, tableVars, bucketVars, boundVars
  <1> QED
    BY <1>1, <1>2, <1>3, <1>4, <1>5, <1>6 DEF Request

(* Steps of the Job controller and of a schedule. *)
LEMMA ControllerType ==
    ASSUME TypeOK, NEW j \in Tasks, Controller(j)
    PROVE  TypeOK'
  <1> DEFINE Statuses == [active : 0..1, succeeded : Nat, failed : Nat,
                          condition : {"none", "Complete", "Failed"}]
  <1>1. CASE StartPod(j)
    <2>1. dest' \in [Tasks -> Paths \cup {NoPath}]
      BY <1>1, PathType DEF StartPod, ScheduledPath, TypeOK
    <2>2. at' \in [Tasks -> Steps]
      BY <1>1 DEF StartPod, ScriptStart, TypeOK, Steps
    <2> QED
      BY <1>1, <2>1, <2>2 DEF StartPod, TypeOK, clientVars, tableVars, bucketVars, boundVars
  <1>2. CASE Kill(j)
    BY <1>2 DEF Kill, TypeOK, Causes, clientVars, tableVars, bucketVars, boundVars
  <1>3. CASE SyncActive(j)
    <2>1. status' \in [Tasks -> Statuses]
      BY <1>3 DEF SyncActive, TypeOK, Status
    <2> QED
      BY <1>3, <2>1 DEF SyncActive, TypeOK, clientVars, tableVars, bucketVars, boundVars
  <1>4. CASE SyncEnded(j)
    <2>1. status' \in [Tasks -> Statuses]
      BY <1>4 DEF SyncEnded, TypeOK, Status
    <2> QED
      BY <1>4, <2>1 DEF SyncEnded, TypeOK, clientVars, tableVars, bucketVars, boundVars
  <1>5. CASE Conclude(j)
    <2>1. status' \in [Tasks -> Statuses]
      BY <1>5 DEF Conclude, TypeOK, Status
    <2> QED
      BY <1>5, <2>1 DEF Conclude, TypeOK, clientVars, tableVars, bucketVars, boundVars
  <1>6. CASE RemoveJob(j)
    BY <1>6 DEF RemoveJob, TypeOK, clientVars, tableVars, bucketVars, boundVars
  <1> QED
    BY <1>1, <1>2, <1>3, <1>4, <1>5, <1>6 DEF Controller

LEMMA ScheduledJob ==
    ASSUME NEW t \in ScheduledTables
    PROVE  [type |-> "backup", source |-> t, target |-> NoTable, origin |-> "schedule"] \in Jobs
  BY NamesAssumption DEF Jobs

LEMMA ScheduleType ==
    ASSUME TypeOK, NEW t \in ScheduledTables, ScheduledRun(t)
    PROVE  TypeOK'
  <1>1. job' \in [Tasks -> Jobs \cup {NoJob}] /\ listed' \subseteq Tasks /\ created' \in Nat
    BY ScheduledJob DEF ScheduledRun, MakeJob, TypeOK, Tasks
  <1> QED
    BY <1>1 DEF ScheduledRun, TypeOK, clientVars, tableVars, bucketVars

(* How a statement ends changes the script, its Pod and the cause only. *)
LEMMA EndType ==
    ASSUME TypeOK, NEW j \in Tasks, NEW next \in Steps, NEW why \in Causes,
           GoOn(j, next) \/ Fail(j, why) \/ Succeed(j)
    PROVE  /\ at' \in [Tasks -> Steps]
           /\ pod' \in [Tasks -> {"none", "running", "succeeded", "failed"}]
           /\ cause' \in [Tasks -> Causes]
  <1> DEFINE Pods == {"none", "running", "succeeded", "failed"}
  <1>1. pod \in [Tasks -> Pods] /\ cause \in [Tasks -> Causes] /\ at \in [Tasks -> Steps]
    BY DEF TypeOK
  <1>2. "stopped" \in Steps
    BY DEF Steps
  <1>3. CASE GoOn(j, next)
    BY <1>1, <1>2, <1>3 DEF GoOn
  <1>4. CASE Fail(j, why)
    BY <1>1, <1>2, <1>4 DEF Fail
  <1>5. CASE Succeed(j)
    BY <1>1, <1>2, <1>5 DEF Succeed
  <1> QED
    BY <1>3, <1>4, <1>5

(* Steps of the script. *)
LEMMA ScriptType ==
    ASSUME TypeOK, NEW j \in Tasks, Script(j)
    PROVE  TypeOK'
  <1> USE DEF outsideVars, clientVars, boundVars, tableVars, bucketVars
  <1>1. CASE CheckTarget(j)
    <2>1. GoOn(j, "create") \/ Fail(j, "targetExists")
      BY <1>1 DEF CheckTarget
    <2> QED
      BY <1>1, <2>1, EndType DEF CheckTarget, TypeOK, Steps, Causes
  <1>2. CASE CreateTarget(j)
    <2>1. GoOn(j, "restore") \/ Fail(j, "noSource") \/ Fail(j, "targetExists")
      BY <1>2 DEF CreateTarget
    <2>2. /\ at' \in [Tasks -> Steps]
          /\ pod' \in [Tasks -> {"none", "running", "succeeded", "failed"}]
          /\ cause' \in [Tasks -> Causes]
      BY <2>1, EndType DEF Steps, Causes
    <2> QED
      BY <1>2, <2>2 DEF CreateTarget, TypeOK
  <1>3. CASE BeginRestore(j)
    <2>1. /\ at' \in [Tasks -> Steps]
          /\ pod' \in [Tasks -> {"none", "running", "succeeded", "failed"}]
          /\ cause' \in [Tasks -> Causes]
      BY <1>3, EndType DEF BeginRestore, TypeOK, Steps, Causes
    <2> QED
      BY <1>3, <2>1 DEF BeginRestore, TypeOK
  <1>4. CASE Load(j)
    <2>1. /\ at' \in [Tasks -> Steps]
          /\ pod' \in [Tasks -> {"none", "running", "succeeded", "failed"}]
          /\ cause' \in [Tasks -> Causes]
      BY <1>4, EndType DEF Load, TypeOK, Steps, Causes
    <2> QED
      BY <1>4, <2>1 DEF Load, TypeOK
  <1>5. CASE BeginBackup(j)
    <2>1. /\ at' \in [Tasks -> Steps]
          /\ pod' \in [Tasks -> {"none", "running", "succeeded", "failed"}]
          /\ cause' \in [Tasks -> Causes]
      <3>1. CASE at' = [at EXCEPT ![j] = "storing"] /\ UNCHANGED <<pod, cause>>
        BY <3>1 DEF TypeOK, Steps
      <3>2. CASE \E why \in Causes : Fail(j, why)
        BY <3>2, EndType DEF Steps
      <3> QED
        BY <1>5, <3>1, <3>2 DEF BeginBackup, Causes
    <2>2. taken' \subseteq Paths \cup {NoPath}
      BY <1>5 DEF BeginBackup, TypeOK
    <2> QED
      BY <1>5, <2>1, <2>2 DEF BeginBackup, TypeOK
  <1>6. CASE EndBackup(j)
    <2>1. /\ at' \in [Tasks -> Steps]
          /\ pod' \in [Tasks -> {"none", "running", "succeeded", "failed"}]
          /\ cause' \in [Tasks -> Causes]
      BY <1>6, EndType DEF EndBackup, Steps, Causes
    <2>2. Source(j) \in Tables \cup {NoTable} /\ dest[j] \in Paths \cup {NoPath}
      BY DEF TypeOK, Jobs, NoJob, Source
    <2>3. complete' \subseteq (Paths \cup {NoPath}) \X (Tables \cup {NoTable})
      BY <1>6, <2>2 DEF EndBackup, BackupOf, TypeOK
    <2> QED
      BY <1>6, <2>1, <2>3 DEF EndBackup, TypeOK
  <1>7. CASE StatementFails(j)
    BY <1>7, EndType DEF StatementFails, TypeOK, Steps, Causes
  <1> QED
    BY <1>1, <1>2, <1>3, <1>4, <1>5, <1>6, <1>7 DEF Script

(* Steps of others. *)
LEMMA OthersType ==
    ASSUME TypeOK, (\E t \in Tables : OthersCreate(t) \/ OthersDrop(t)) \/ Tick
    PROVE  TypeOK'
  <1> USE DEF clientVars, kubeVars, tableVars, bucketVars
  <1>1. CASE \E t \in Tables : OthersCreate(t)
    BY <1>1 DEF OthersCreate, TypeOK
  <1>2. CASE \E t \in Tables : OthersDrop(t)
    BY <1>2 DEF OthersDrop, TypeOK
  <1>3. CASE Tick
    BY <1>3, BoundsAssumption DEF Tick, TypeOK, Seconds
  <1> QED
    BY <1>1, <1>2, <1>3

LEMMA TypeStep == TypeOK /\ [Next]_vars => TypeOK'
  <1> SUFFICES ASSUME TypeOK, [Next]_vars PROVE TypeOK'
    OBVIOUS
  <1>1. CASE Next
    BY <1>1, RequestType, ControllerType, ScheduleType, ScriptType, OthersType DEF Next
  <1>2. CASE UNCHANGED vars
    BY <1>2 DEF TypeOK, vars, clientVars, kubeVars, tableVars, bucketVars, boundVars
  <1> QED
    BY <1>1, <1>2

(* TypeOK, of every variable of backups and restores. *)
THEOREM TypeCorrect == Spec => []TypeOK
  BY TypeInit, TypeStep, PTL DEF Spec

-----------------------------------------------------------------------------
(***************************************************************************)
(* Restores implement TargetTable. A statement of a restore acts on a table*)
(* it looks up by name, so that what it needs to know of the table is an   *)
(* invariant about the place of its script: past the CREATE the table is   *)
(* there and made by this task, while it loads it is not yet full.         *)
(***************************************************************************)

AbsentIsClean == \A t \in Tables : ~Exists(t) => maker[t] = 0 /\ writers[t] = {}
WriterIsMaker == \A t \in Tables : writers[t] \subseteq {maker[t]}
RestoreSteps == \A j \in Tasks :
    at[j] \in {"check", "create", "restore", "loading"} => job[j].type = "restore"
FillerIsMaker == \A j \in Tasks :
    at[j] \in {"restore", "loading"} => Exists(Target(j)) /\ maker[Target(j)] = j
LoadingIsOpen == \A j \in Tasks :
    at[j] = "loading" => table[Target(j)] \in {"empty", "partial"}
NotYetCreated == \A j \in Tasks :
    created < j => at[j] = "none" /\ pod[j] = "none" /\ j \notin listed

ListedIsJob == \A j \in listed : job[j] \in Jobs

ClaimInv == /\ AbsentIsClean /\ WriterIsMaker /\ RestoreSteps
            /\ FillerIsMaker /\ LoadingIsOpen /\ NotYetCreated /\ ListedIsJob

USE DEF Exists, Target, Source

(* A restore has a target among the tables. *)
LEMMA RestoreTarget ==
    ASSUME TypeOK, NEW j \in Tasks, job[j].type = "restore"
    PROVE  Target(j) \in Tables
  <1>1. job[j] \in Jobs
    BY DEF TypeOK, NoJob
  <1> QED
    BY <1>1 DEF Jobs

LEMMA ClaimInit == Init => ClaimInv
  BY DEF Init, ClaimInv, AbsentIsClean, WriterIsMaker, RestoreSteps, FillerIsMaker,
         LoadingIsOpen, NotYetCreated, ListedIsJob

(* A step that leaves the tables, the Jobs and their scripts alone. *)
LEMMA ClaimUnchanged ==
    ASSUME ClaimInv, UNCHANGED <<job, at, tableVars, created>>, UNCHANGED pod,
           listed' \subseteq listed
    PROVE  ClaimInv'
  BY DEF ClaimInv, AbsentIsClean, WriterIsMaker, RestoreSteps, FillerIsMaker,
         LoadingIsOpen, NotYetCreated, ListedIsJob, tableVars

(* A new Job has not started. *)
LEMMA ClaimNewJob ==
    ASSUME TypeOK, ClaimInv, NEW j2 \in Jobs, MakeJob(created + 1, j2),
           UNCHANGED <<at, pod, tableVars>>
    PROVE  ClaimInv'
  <1>1. at[created + 1] = "none" /\ created + 1 \in Tasks /\ created \in Nat
    BY DEF MakeJob, ClaimInv, NotYetCreated, TypeOK
  <1>2. \A j \in Tasks : job'[j] = job[j] \/ at[j] = "none"
    BY <1>1 DEF MakeJob, TypeOK
  <1>3. AbsentIsClean' /\ WriterIsMaker'
    BY DEF ClaimInv, AbsentIsClean, WriterIsMaker, tableVars
  <1>4. RestoreSteps' /\ FillerIsMaker' /\ LoadingIsOpen'
    BY <1>2 DEF ClaimInv, RestoreSteps, FillerIsMaker, LoadingIsOpen, tableVars
  <1>5. NotYetCreated' /\ ListedIsJob'
    BY <1>1 DEF MakeJob, ClaimInv, NotYetCreated, ListedIsJob, Tasks, TypeOK
  <1> QED
    BY <1>3, <1>4, <1>5 DEF ClaimInv

(* A script that moves to a place from which it touches no table. *)
LEMMA ClaimElsewhere ==
    ASSUME TypeOK, ClaimInv, NEW j \in Tasks, j <= created,
           at' = [at EXCEPT ![j] = at'[j]],
           at'[j] \in {"none", "check", "create", "backup", "storing", "stopped"},
           at'[j] \in {"check", "create"} => job[j].type = "restore",
           \A i \in Tasks : i # j => pod'[i] = pod[i],
           UNCHANGED <<job, listed, tableVars, created>>
    PROVE  ClaimInv'
  <1>1. AbsentIsClean' /\ WriterIsMaker'
    BY DEF ClaimInv, AbsentIsClean, WriterIsMaker, tableVars
  <1>2. \A i \in Tasks : i # j => at'[i] = at[i]
    BY DEF TypeOK
  <1>3. RestoreSteps' /\ FillerIsMaker' /\ LoadingIsOpen'
    BY <1>2 DEF ClaimInv, RestoreSteps, FillerIsMaker, LoadingIsOpen, tableVars
  <1>4. NotYetCreated' /\ ListedIsJob'
    BY <1>2 DEF ClaimInv, NotYetCreated, ListedIsJob, TypeOK, Tasks
  <1> QED
    BY <1>1, <1>3, <1>4 DEF ClaimInv

(* Where the script of a task that has begun is. *)
LEMMA Begun ==
    ASSUME TypeOK, ClaimInv, NEW j \in Tasks, at[j] # "none" \/ j \in listed
    PROVE  j <= created
  BY DEF ClaimInv, NotYetCreated, TypeOK, Tasks

LEMMA EndsElsewhere ==
    ASSUME TypeOK, ClaimInv, NEW j \in Tasks, at[j] # "none",
           NEW next \in {"create"}, NEW why,
           (GoOn(j, next) /\ job[j].type = "restore") \/ Fail(j, why) \/ Succeed(j),
           UNCHANGED <<job, listed, tableVars, created>>
    PROVE  ClaimInv'
  <1>1. /\ at' = [at EXCEPT ![j] = at'[j]]
        /\ at'[j] \in {"create", "stopped"}
        /\ at'[j] = "create" => job[j].type = "restore"
    BY DEF GoOn, Fail, Succeed, TypeOK
  <1>2. \A i \in Tasks : i # j => pod'[i] = pod[i]
    BY DEF GoOn, Fail, Succeed, TypeOK
  <1> QED
    BY <1>1, <1>2, Begun, ClaimElsewhere

(* CREATE TABLE: an absent table is nobody's, so that no other task is     *)
(* filling it.                                                             *)
LEMMA ClaimCreate ==
    ASSUME TypeOK, ClaimInv, NEW j \in Tasks, CreateTarget(j)
    PROVE  ClaimInv'
  <1>1. at[j] = "create" /\ job[j].type = "restore" /\ Target(j) \in Tables
    BY RestoreTarget DEF CreateTarget, ClaimInv, RestoreSteps
  <1>2. UNCHANGED <<job, listed, created, writers>>
    BY DEF CreateTarget, outsideVars, boundVars
  <1>3. CASE UNCHANGED <<table, maker>> /\ \E why \in Causes : Fail(j, why)
    BY <1>1, <1>2, <1>3, EndsElsewhere DEF tableVars
  <1>4. CASE /\ ~Exists(Target(j))
             /\ table' = [table EXCEPT ![Target(j)] = "empty"]
             /\ maker' = [maker EXCEPT ![Target(j)] = j]
             /\ GoOn(j, "restore")
    <2>1. AbsentIsClean' /\ WriterIsMaker'
      BY <1>1, <1>2, <1>4 DEF ClaimInv, AbsentIsClean, WriterIsMaker, TypeOK
    <2>2. /\ \A i \in Tasks : i # j => at'[i] = at[i]
          /\ at'[j] \in {"restore", "stopped"}
          /\ UNCHANGED pod
      BY <1>4 DEF GoOn, TypeOK
    <2>3. RestoreSteps'
      BY <1>1, <1>2, <2>2 DEF ClaimInv, RestoreSteps
    <2>4. \A i \in Tasks : at[i] \in {"restore", "loading"} =>
              Target(i) # Target(j) /\ Target(i) \in Tables
      BY <1>4, RestoreTarget DEF ClaimInv, FillerIsMaker, RestoreSteps
    <2>5. FillerIsMaker' /\ LoadingIsOpen'
      BY <1>1, <1>2, <1>4, <2>2, <2>4 DEF ClaimInv, FillerIsMaker, LoadingIsOpen, TypeOK
    <2>6. NotYetCreated' /\ ListedIsJob'
      BY <1>1, <1>2, <2>2, Begun DEF ClaimInv, NotYetCreated, ListedIsJob, TypeOK, Tasks
    <2> QED
      BY <2>1, <2>3, <2>5, <2>6 DEF ClaimInv
  <1> QED
    BY <1>3, <1>4 DEF CreateTarget, Causes

(* RESTORE TABLE begins: the table is empty, and this task has made it. *)
LEMMA ClaimBegin ==
    ASSUME TypeOK, ClaimInv, NEW j \in Tasks, BeginRestore(j)
    PROVE  ClaimInv'
  <1>1. at[j] = "restore" /\ UNCHANGED <<job, listed, created, tableVars>>
    BY DEF BeginRestore, outsideVars, boundVars
  <1>2. CASE Fail(j, "notRestorable")
    BY <1>1, <1>2, EndsElsewhere
  <1>3. CASE /\ table[Target(j)] = "empty"
             /\ at' = [at EXCEPT ![j] = "loading"] /\ UNCHANGED pod
    <2>1. \A i \in Tasks : at'[i] = IF i = j THEN "loading" ELSE at[i]
      BY <1>3 DEF TypeOK
    <2>2. AbsentIsClean' /\ WriterIsMaker'
      BY <1>1 DEF ClaimInv, AbsentIsClean, WriterIsMaker, tableVars
    <2>3. RestoreSteps' /\ FillerIsMaker' /\ LoadingIsOpen'
      BY <1>1, <1>3, <2>1 DEF ClaimInv, RestoreSteps, FillerIsMaker, LoadingIsOpen, tableVars
    <2>4. NotYetCreated' /\ ListedIsJob'
      BY <1>1, <1>3, <2>1, Begun DEF ClaimInv, NotYetCreated, ListedIsJob, TypeOK, Tasks
    <2> QED
      BY <2>2, <2>3, <2>4 DEF ClaimInv
  <1> QED
    BY <1>2, <1>3 DEF BeginRestore

(* Rows reach the table: no other task loads into it, which it would have  *)
(* had to make.                                                            *)
LEMMA ClaimLoad ==
    ASSUME TypeOK, ClaimInv, NEW j \in Tasks, Load(j)
    PROVE  ClaimInv'
  <1>1. /\ at[j] = "loading" /\ job[j].type = "restore" /\ Target(j) \in Tables
        /\ maker[Target(j)] = j
    BY RestoreTarget DEF Load, ClaimInv, RestoreSteps, FillerIsMaker
  <1>2. /\ UNCHANGED <<job, listed, created, maker>>
        /\ writers' = [writers EXCEPT ![Target(j)] = @ \cup {j}]
    BY DEF Load, outsideVars, boundVars
  <1>3. \E v \in {"partial", "full"} :
          /\ table' = [table EXCEPT ![Target(j)] = v]
          /\ v = "full" => at'[j] = "stopped"
    BY DEF Load, Succeed, TypeOK
  <1>4. /\ \A i \in Tasks : i # j => at'[i] = at[i] /\ pod'[i] = pod[i]
        /\ at'[j] \in {"loading", "stopped"}
    BY <1>1 DEF Load, Succeed, TypeOK
  <1>5. AbsentIsClean' /\ WriterIsMaker'
    BY <1>1, <1>2, <1>3 DEF ClaimInv, AbsentIsClean, WriterIsMaker, TypeOK
  <1>6. RestoreSteps'
    BY <1>1, <1>2, <1>4 DEF ClaimInv, RestoreSteps
  <1>7. FillerIsMaker'
    BY <1>1, <1>2, <1>3, <1>4, RestoreTarget DEF ClaimInv, FillerIsMaker, RestoreSteps, TypeOK
  <1>8. \A i \in Tasks : i # j /\ at[i] = "loading" => Target(i) # Target(j)
    BY <1>1 DEF ClaimInv, FillerIsMaker
  <1>9. LoadingIsOpen'
    BY <1>1, <1>2, <1>3, <1>4, <1>8, RestoreTarget
       DEF ClaimInv, LoadingIsOpen, RestoreSteps, TypeOK
  <1>10. NotYetCreated' /\ ListedIsJob'
    BY <1>1, <1>2, <1>4, Begun DEF ClaimInv, NotYetCreated, ListedIsJob, TypeOK, Tasks
  <1> QED
    BY <1>5, <1>6, <1>7, <1>9, <1>10 DEF ClaimInv

(* Others drop no table that is being restored. *)
LEMMA ClaimOthers ==
    ASSUME TypeOK, ClaimInv, NEW t \in Tables, OthersCreate(t) \/ OthersDrop(t)
    PROVE  ClaimInv'
  <1>1. UNCHANGED <<job, listed, pod, at, created>>
    BY DEF OthersCreate, OthersDrop, kubeVars
  <1>2. AbsentIsClean' /\ WriterIsMaker'
    <2>1. CASE OthersCreate(t)
      BY <2>1 DEF OthersCreate, ClaimInv, AbsentIsClean, WriterIsMaker, TypeOK
    <2>2. CASE OthersDrop(t)
      <3>1. /\ maker'[t] = 0 /\ writers'[t] = {}
            /\ \A u \in Tables : u # t =>
                  table'[u] = table[u] /\ maker'[u] = maker[u] /\ writers'[u] = writers[u]
        BY <2>2 DEF OthersDrop, TypeOK
      <3> QED
        BY <3>1 DEF ClaimInv, AbsentIsClean, WriterIsMaker
    <2> QED
      BY <2>1, <2>2
  <1>3. \A j \in Tasks : at[j] \in {"restore", "loading"} =>
            Target(j) # t /\ Target(j) \in Tables
    BY RestoreTarget DEF OthersCreate, OthersDrop, Restoring, ClaimInv, FillerIsMaker, RestoreSteps
  <1>4. \A u \in Tables : u # t => table'[u] = table[u] /\ maker'[u] = maker[u]
    BY DEF OthersCreate, OthersDrop, TypeOK
  <1>5. RestoreSteps' /\ FillerIsMaker' /\ LoadingIsOpen'
        /\ NotYetCreated' /\ ListedIsJob'
    BY <1>1, <1>3, <1>4
       DEF ClaimInv, RestoreSteps, FillerIsMaker, LoadingIsOpen, NotYetCreated, ListedIsJob
  <1> QED
    BY <1>2, <1>5 DEF ClaimInv

LEMMA ClaimRequest ==
    ASSUME TypeOK, ClaimInv, NEW c \in Clients, Request(c)
    PROVE  ClaimInv'
  <1>1. CASE CreateJob(c)
    BY <1>1, ClaimNewJob, JobType DEF CreateJob
  <1>2. CASE Post(c) \/ Prepare(c) \/ CreateDryRun(c) \/ CreateFails(c) \/ GetTask(c)
    BY <1>2, ClaimUnchanged
       DEF Post, Prepare, CreateDryRun, CreateFails, GetTask, kubeVars, boundVars
  <1> QED
    BY <1>1, <1>2 DEF Request

LEMMA ClaimController ==
    ASSUME TypeOK, ClaimInv, NEW j \in Tasks, Controller(j)
    PROVE  ClaimInv'
  <1>1. CASE StartPod(j)
    <2>1. /\ j <= created /\ at' = [at EXCEPT ![j] = at'[j]]
          /\ at'[j] \in {"check", "backup"}
          /\ \A i \in Tasks : i # j => pod'[i] = pod[i]
      BY <1>1, Begun DEF StartPod, ScriptStart, TypeOK
    <2>2. at'[j] = "check" => job[j].type = "restore"
      <3>1. job[j] \in Jobs
        BY <1>1 DEF StartPod, ClaimInv, ListedIsJob
      <3> QED
        BY <1>1, <3>1 DEF StartPod, ScriptStart, TypeOK, Jobs
    <2> QED
      BY <1>1, <2>1, <2>2, ClaimElsewhere DEF StartPod, boundVars
  <1>2. CASE Kill(j)
    <2>1. j <= created /\ \A i \in Tasks : i # j => pod'[i] = pod[i]
      BY <1>2, Begun DEF Kill, TypeOK
    <2>2. AbsentIsClean' /\ WriterIsMaker' /\ RestoreSteps' /\ FillerIsMaker' /\ LoadingIsOpen'
      BY <1>2 DEF Kill, ClaimInv, AbsentIsClean, WriterIsMaker, RestoreSteps,
                  FillerIsMaker, LoadingIsOpen, tableVars
    <2>3. NotYetCreated' /\ ListedIsJob'
      BY <1>2, <2>1 DEF Kill, boundVars, ClaimInv, NotYetCreated, ListedIsJob, TypeOK, Tasks
    <2> QED
      BY <2>2, <2>3 DEF ClaimInv
  <1>3. CASE SyncActive(j) \/ SyncEnded(j) \/ Conclude(j) \/ RemoveJob(j)
    BY <1>3, ClaimUnchanged DEF SyncActive, SyncEnded, Conclude, RemoveJob, boundVars
  <1> QED
    BY <1>1, <1>2, <1>3 DEF Controller

LEMMA ClaimScript ==
    ASSUME TypeOK, ClaimInv, NEW j \in Tasks, Script(j)
    PROVE  ClaimInv'
  <1> USE DEF outsideVars, boundVars
  <1>1. CASE CheckTarget(j)
    BY <1>1, EndsElsewhere DEF CheckTarget, ClaimInv, RestoreSteps
  <1>2. CASE BeginBackup(j)
    <2>1. CASE at' = [at EXCEPT ![j] = "storing"] /\ UNCHANGED pod
      <3>1. at'[j] = "storing" /\ j <= created
        BY <1>2, <2>1, Begun DEF BeginBackup, TypeOK
      <3> QED
        BY <1>2, <2>1, <3>1, ClaimElsewhere DEF BeginBackup
    <2>2. CASE \E why \in Causes : Fail(j, why)
      BY <1>2, <2>2, EndsElsewhere DEF BeginBackup
    <2> QED
      BY <1>2, <2>1, <2>2 DEF BeginBackup, Causes
  <1>3. CASE EndBackup(j)
    BY <1>3, EndsElsewhere DEF EndBackup
  <1>4. CASE StatementFails(j)
    BY <1>4, EndsElsewhere DEF StatementFails
  <1> QED
    BY <1>1, <1>2, <1>3, <1>4, ClaimCreate, ClaimBegin, ClaimLoad DEF Script

LEMMA ClaimStep == TypeOK /\ ClaimInv /\ [Next]_vars => ClaimInv'
  <1> SUFFICES ASSUME TypeOK, ClaimInv, [Next]_vars PROVE ClaimInv'
    OBVIOUS
  <1>1. CASE \E t \in ScheduledTables : ScheduledRun(t)
    BY <1>1, ClaimNewJob, ScheduledJob DEF ScheduledRun
  <1>2. CASE Tick
    BY <1>2, ClaimUnchanged DEF Tick, kubeVars
  <1>3. CASE UNCHANGED vars
    BY <1>3, ClaimUnchanged DEF vars, kubeVars, boundVars
  <1> QED
    BY <1>1, <1>2, <1>3, ClaimRequest, ClaimController, ClaimScript, ClaimOthers DEF Next

LEMMA RefineInit == Init => TargetTables!Init
  BY DEF Init, Phase, Hands, TargetTables!Init

(* A step that leaves the tables alone. *)
LEMMA RefineUntouched ==
    ASSUME UNCHANGED tableVars
    PROVE  UNCHANGED TargetTables!tableVars
  BY DEF tableVars, Phase, Hands, TargetTables!tableVars

(* A step of one table is a move of that table. *)
LEMMA RefineMove ==
    ASSUME NEW t \in Tables, NEW from, NEW to, Phase[t] = from, Phase'[t] = to,
           \A u \in Tables : u # t => Phase'[u] = Phase[u]
    PROVE  TargetTables!Move(t, from, to)
  <1>1. Phase = [u \in Tables |-> Phase[u]] /\ Phase' = [u \in Tables |-> Phase'[u]]
    BY DEF Phase
  <1>2. Phase' = [Phase EXCEPT ![t] = to]
    BY <1>1
  <1> QED
    BY <1>2 DEF TargetTables!Move

LEMMA RefineCreate ==
    ASSUME TypeOK, ClaimInv, NEW j \in Tasks, CreateTarget(j)
    PROVE  TargetTables!Next \/ UNCHANGED TargetTables!tableVars
  <1>1. job[j].type = "restore" /\ UNCHANGED writers
    BY DEF CreateTarget, ClaimInv, RestoreSteps
  <1>2. PICK t \in Tables : t = Target(j)
    BY <1>1, RestoreTarget
  <1>3. CASE UNCHANGED <<table, maker>>
    BY <1>1, <1>3, RefineUntouched DEF tableVars
  <1>4. CASE /\ table[t] = "absent"
             /\ table' = [table EXCEPT ![t] = "empty"]
             /\ maker' = [maker EXCEPT ![t] = j]
    <2>1. j # 0 /\ writers[t] = {} /\ table'[t] = "empty" /\ maker'[t] = j
      BY <1>4 DEF ClaimInv, AbsentIsClean, Tasks, TypeOK
    <2>2. \A u \in Tables : u # t => table'[u] = table[u] /\ maker'[u] = maker[u]
      BY <1>4 DEF TypeOK
    <2>3. Phase[t] = "absent" /\ Phase'[t] = "claimed"
      BY <1>4, <2>1 DEF Phase
    <2>4. \A u \in Tables : u # t => Phase'[u] = Phase[u]
      BY <2>2 DEF Phase
    <2>5. {j} \ {0} = {j}
      BY <2>1
    <2>6. writers'[t] \cup ({maker'[t]} \ {0}) = {j}
      BY <1>1, <2>1, <2>5
    <2>7. Hands' = [Hands EXCEPT ![t] = {j}]
      BY <1>1, <2>2, <2>6 DEF Hands
    <2>8. TargetTables!Claim(t, j)
      BY <2>3, <2>4, <2>7, RefineMove DEF TargetTables!Claim
    <2> QED
      BY <2>8 DEF TargetTables!Next
  <1> QED
    BY <1>2, <1>3, <1>4 DEF CreateTarget

LEMMA RefineLoad ==
    ASSUME TypeOK, ClaimInv, NEW j \in Tasks, Load(j)
    PROVE  TargetTables!Next \/ UNCHANGED TargetTables!tableVars
  <1>1. job[j].type = "restore"
    BY DEF Load, ClaimInv, RestoreSteps
  <1>2. PICK t \in Tables : t = Target(j)
    BY <1>1, RestoreTarget
  <1>3. maker[t] = j /\ j # 0 /\ table[t] \in {"empty", "partial"}
    BY <1>2 DEF Load, ClaimInv, FillerIsMaker, LoadingIsOpen, Tasks
  <1>4. UNCHANGED maker /\ writers' = [writers EXCEPT ![t] = @ \cup {j}]
    BY <1>2 DEF Load
  <1>5. \A u \in Tables : writers'[u] \cup ({maker'[u]} \ {0}) = writers[u] \cup ({maker[u]} \ {0})
    BY <1>3, <1>4 DEF TypeOK
  <1>6. Hands' = Hands
    BY <1>5 DEF Hands
  <1>7. PICK v \in {"partial", "full"} :
          /\ table' = [table EXCEPT ![t] = v]
          /\ v = "full" => table[t] = "partial"
    BY <1>2 DEF Load
  <1>8. table'[t] = v /\ \A u \in Tables : u # t => table'[u] = table[u]
    BY <1>7 DEF TypeOK
  <1>9. \A u \in Tables : u # t => Phase'[u] = Phase[u]
    BY <1>4, <1>8 DEF Phase
  <1>10. Phase'[t] = IF v = "partial" THEN "filling" ELSE "filled"
    BY <1>3, <1>4, <1>7, <1>8 DEF Phase
  <1>11. Phase[t] = IF table[t] = "empty" THEN "claimed" ELSE "filling"
    BY <1>3 DEF Phase
  <1>12. CASE table[t] = "empty"
    <2>1. TargetTables!Move(t, "claimed", "filling")
      BY <1>7, <1>9, <1>10, <1>11, <1>12, RefineMove
    <2>2. TargetTables!Fill(t)
      BY <1>6, <2>1 DEF TargetTables!Fill
    <2> QED
      BY <2>2 DEF TargetTables!Next
  <1>13. CASE table[t] = "partial" /\ v = "full"
    <2>1. TargetTables!Move(t, "filling", "filled")
      BY <1>9, <1>10, <1>11, <1>13, RefineMove
    <2>2. TargetTables!Complete(t)
      BY <1>6, <2>1 DEF TargetTables!Complete
    <2> QED
      BY <2>2 DEF TargetTables!Next
  <1>14. CASE table[t] = "partial" /\ v = "partial"
    <2>1. Phase' = Phase
      BY <1>9, <1>10, <1>11, <1>14 DEF Phase
    <2> QED
      BY <1>6, <2>1 DEF TargetTables!tableVars
  <1> QED
    BY <1>3, <1>7, <1>12, <1>13, <1>14

LEMMA RefineOthers ==
    ASSUME TypeOK, ClaimInv, NEW t \in Tables, OthersCreate(t) \/ OthersDrop(t)
    PROVE  TargetTables!Next
  <1>1. CASE OthersCreate(t)
    <2>1. table[t] = "absent" /\ maker[t] = 0 /\ UNCHANGED <<maker, writers>>
      BY <1>1 DEF OthersCreate, ClaimInv, AbsentIsClean
    <2>2. table'[t] = "full" /\ \A u \in Tables : u # t => table'[u] = table[u]
      BY <1>1 DEF OthersCreate, TypeOK
    <2>3. Phase[t] = "absent" /\ Phase'[t] = "foreign"
      BY <2>1, <2>2 DEF Phase
    <2>4. \A u \in Tables : u # t => Phase'[u] = Phase[u]
      BY <2>1, <2>2 DEF Phase
    <2>5. UNCHANGED Hands
      BY <2>1 DEF Hands
    <2>6. TargetTables!Take(t)
      BY <2>3, <2>4, <2>5, RefineMove DEF TargetTables!Take
    <2> QED
      BY <2>6 DEF TargetTables!Next
  <1>2. CASE OthersDrop(t)
    <2>1. table[t] # "absent" /\ table'[t] = "absent" /\ maker'[t] = 0 /\ writers'[t] = {}
      BY <1>2 DEF OthersDrop, TypeOK
    <2>2. \A u \in Tables : u # t =>
             table'[u] = table[u] /\ maker'[u] = maker[u] /\ writers'[u] = writers[u]
      BY <1>2 DEF OthersDrop, TypeOK
    <2>3. Phase[t] \in TargetTables!Phases \ {"absent"} /\ Phase'[t] = "absent"
      BY <2>1 DEF Phase, TargetTables!Phases
    <2>4. \A u \in Tables : u # t => Phase'[u] = Phase[u]
      BY <2>2 DEF Phase
    <2>5. writers'[t] \cup ({maker'[t]} \ {0}) = {}
      BY <2>1
    <2>6. Hands' = [Hands EXCEPT ![t] = {}]
      BY <2>2, <2>5 DEF Hands
    <2>7. PICK p \in TargetTables!Phases \ {"absent"} : TargetTables!Move(t, p, "absent")
      BY <2>3, <2>4, RefineMove
    <2>8. TargetTables!Drop(t)
      BY <2>6, <2>7 DEF TargetTables!Drop
    <2> QED
      BY <2>8 DEF TargetTables!Next
  <1> QED
    BY <1>1, <1>2

LEMMA RefineStep ==
    TypeOK /\ ClaimInv /\ [Next]_vars => [TargetTables!Next]_(TargetTables!tableVars)
  <1> SUFFICES ASSUME TypeOK, ClaimInv, [Next]_vars
               PROVE  TargetTables!Next \/ UNCHANGED TargetTables!tableVars
    OBVIOUS
  <1>1. CASE \E c \in Clients : Request(c)
    BY <1>1, RefineUntouched
       DEF Request, Post, Prepare, CreateDryRun, CreateJob, CreateFails, GetTask
  <1>2. CASE (\E t \in ScheduledTables : ScheduledRun(t)) \/ Tick \/ UNCHANGED vars
    BY <1>2, RefineUntouched DEF ScheduledRun, Tick, vars
  <1>3. CASE \E j \in Tasks : Controller(j)
    BY <1>3, RefineUntouched
       DEF Controller, StartPod, Kill, SyncActive, SyncEnded, Conclude, RemoveJob
  <1>4. CASE \E j \in Tasks : Script(j)
    BY <1>4, RefineUntouched, RefineCreate, RefineLoad
       DEF Script, CheckTarget, BeginRestore, BeginBackup, EndBackup, StatementFails
  <1>5. CASE \E t \in Tables : OthersCreate(t) \/ OthersDrop(t)
    BY <1>5, RefineOthers
  <1> QED
    BY <1>1, <1>2, <1>3, <1>4, <1>5 DEF Next

(* TargetsAreClaimed: with any number of concurrent, resubmitted and       *)
(* abandoned restores, the target of a restore is claimed and filled by one*)
(* task, and tables of others are left as they are.                        *)
THEOREM Refinement == Spec => TargetsAreClaimed
  <1>1. Init /\ [][Next]_vars => [](TypeOK /\ ClaimInv)
    BY TypeInit, TypeStep, ClaimInit, ClaimStep, PTL
  <1>2. Init => TargetTables!Init
    BY RefineInit
  <1> QED
    BY <1>1, <1>2, RefineStep, PTL DEF Spec, TargetsAreClaimed, TargetTables!Spec

=============================================================================
