----------------------- MODULE BackupOutcomes_proofs -----------------------
(***************************************************************************)
(* What a client is told of a task, and where scheduled backups go: an end *)
(* that was shown stays, a success that was shown is one, and a scheduled  *)
(* run finds its path free.  For any number of clients, tasks, tables,     *)
(* faults and interventions of others.                                     *)
(***************************************************************************)
EXTENDS BackupTasks_proofs

USE DEF Exists, Target, Source

(* A statement ends, whatever becomes of the script.                       *)
Ends(j) == \/ \E next \in {"create", "restore"} : GoOn(j, next)
           \/ \E why \in Causes : Fail(j, why)
           \/ Succeed(j)

-----------------------------------------------------------------------------
(* Pods: one that has ended stays so, since a second one is not started.   *)

PodsStay == \A j \in Tasks : pod'[j] # pod[j] => pod[j] \in {"none", "running"}

LEMMA PodsStayStep == TypeOK /\ [Next]_vars => PodsStay
  <1> SUFFICES ASSUME TypeOK, [Next]_vars PROVE PodsStay
    OBVIOUS
  <1>1. CASE UNCHANGED pod
    BY <1>1 DEF PodsStay
  <1>2. ASSUME NEW j \in Tasks, StartPod(j) PROVE PodsStay
    <2>1. pod[j] = "none"
      BY <1>2 DEF StartPod, Failures, BackoffLimit
    <2> QED
      BY <1>2, <2>1 DEF StartPod, PodsStay, TypeOK
  <1>3. ASSUME NEW j \in Tasks, Kill(j) PROVE PodsStay
    BY <1>3 DEF Kill, PodsStay, TypeOK
  <1>4. ASSUME NEW j \in Tasks, Ends(j) PROVE PodsStay
    BY <1>4 DEF Ends, GoOn, Fail, Succeed, PodsStay, TypeOK
  <1>5. ASSUME NEW j \in Tasks, Script(j) PROVE PodsStay
    <2>1. Ends(j) \/ UNCHANGED pod
      BY <1>5 DEF Script, CheckTarget, CreateTarget, BeginRestore, Load, BeginBackup,
                  EndBackup, StatementFails, Ends, Causes
    <2> QED
      BY <1>1, <1>4, <2>1
  <1>6. CASE \/ \E c \in Clients : Request(c)
             \/ \E t \in ScheduledTables : ScheduledRun(t)
             \/ \E t \in Tables : OthersCreate(t) \/ OthersDrop(t)
             \/ Tick \/ UNCHANGED vars
             \/ \E j \in Tasks : SyncActive(j) \/ SyncEnded(j) \/ Conclude(j) \/ RemoveJob(j)
    <2>1. UNCHANGED pod
      BY <1>6 DEF Request, Post, Prepare, CreateDryRun, CreateJob, CreateFails, GetTask,
                  ScheduledRun, OthersCreate, OthersDrop, Tick, SyncActive, SyncEnded,
                  Conclude, RemoveJob, vars, kubeVars
    <2> QED
      BY <1>1, <2>1
  <1> QED
    BY <1>2, <1>3, <1>5, <1>6 DEF Next, Controller

-----------------------------------------------------------------------------
(* The status of a Job follows its Pod.                                    *)

StatusFollows == \A j \in Tasks :
    /\ status[j].succeeded > 0 => pod[j] = "succeeded"
    /\ status[j].failed > 0 => pod[j] = "failed"
    /\ status[j].condition = "Complete" => status[j].succeeded > 0
    /\ status[j].condition = "Failed" => status[j].failed > 0
    /\ status[j].succeeded > 0 \/ status[j].failed > 0 => status[j].active = 0

(* Counters are not taken back.                                            *)
CountersStay == \A j \in Tasks :
    /\ status[j].succeeded > 0 => status'[j].succeeded > 0
    /\ status[j].failed > 0 => status'[j].failed > 0

LEMMA StatusInit == Init => StatusFollows
  BY DEF Init, StatusFollows, NewStatus, Status

(* The controller writes a part of a status.                               *)
LEMMA StatusWritten ==
    ASSUME TypeOK, StatusFollows, NEW j \in Tasks,
           SyncActive(j) \/ SyncEnded(j) \/ Conclude(j)
    PROVE  StatusFollows' /\ CountersStay
  <1> DEFINE s == status[j]
  <1>1. /\ s.active \in 0..1 /\ s.succeeded \in Nat /\ s.failed \in Nat
        /\ s.condition \in {"none", "Complete", "Failed"}
    BY DEF TypeOK
  <1>2. UNCHANGED pod
    BY DEF SyncActive, SyncEnded, Conclude
  <1>3. ASSUME NEW v, status' = [status EXCEPT ![j] = v],
               v.succeeded > 0 => pod[j] = "succeeded",
               v.failed > 0 => pod[j] = "failed",
               v.condition = "Complete" => v.succeeded > 0,
               v.condition = "Failed" => v.failed > 0,
               v.succeeded > 0 \/ v.failed > 0 => v.active = 0,
               s.succeeded > 0 => v.succeeded > 0,
               s.failed > 0 => v.failed > 0
        PROVE  StatusFollows' /\ CountersStay
    <2>1. \A i \in Tasks : status'[i] = IF i = j THEN v ELSE status[i]
      BY <1>3 DEF TypeOK
    <2> QED
      BY <1>2, <1>3, <2>1 DEF StatusFollows, CountersStay
  <1>4. /\ s.succeeded > 0 => pod[j] = "succeeded"
        /\ s.failed > 0 => pod[j] = "failed"
        /\ s.condition = "Complete" => s.succeeded > 0
        /\ s.condition = "Failed" => s.failed > 0
        /\ s.succeeded > 0 \/ s.failed > 0 => s.active = 0
    BY DEF StatusFollows
  <1>5. CASE SyncActive(j)
    <2> DEFINE v == Status(IF pod[j] = "running" THEN 1 ELSE 0, s.succeeded, s.failed, s.condition)
    <2>1. /\ v.succeeded = s.succeeded /\ v.failed = s.failed /\ v.condition = s.condition
          /\ v.active = IF pod[j] = "running" THEN 1 ELSE 0
      BY DEF Status
    <2>2. status' = [status EXCEPT ![j] = v]
      BY <1>5 DEF SyncActive
    <2> HIDE DEF v
    <2> QED
      BY <1>3, <1>4, <2>1, <2>2
  <1>6. CASE pod[j] = "succeeded" /\ s.succeeded = 0 /\ s.active = 0
             /\ status' = [status EXCEPT ![j] = Status(0, 1, s.failed, s.condition)]
    <2> DEFINE v == Status(0, 1, s.failed, s.condition)
    <2>1. v.succeeded = 1 /\ v.failed = s.failed /\ v.condition = s.condition /\ v.active = 0
      BY DEF Status
    <2>2. status' = [status EXCEPT ![j] = v]
      BY <1>6
    <2> HIDE DEF v
    <2>3. /\ v.succeeded > 0 => pod[j] = "succeeded"
          /\ v.failed > 0 => pod[j] = "failed"
          /\ v.condition = "Complete" => v.succeeded > 0
          /\ v.condition = "Failed" => v.failed > 0
          /\ v.succeeded > 0 \/ v.failed > 0 => v.active = 0
          /\ s.succeeded > 0 => v.succeeded > 0
          /\ s.failed > 0 => v.failed > 0
      BY <1>1, <1>4, <1>6, <2>1
    <2> QED
      BY <1>3, <2>2, <2>3
  <1>7. CASE pod[j] = "failed" /\ s.active = 0
             /\ status' = [status EXCEPT ![j] = Status(0, s.succeeded, s.failed + 1, s.condition)]
    <2> DEFINE v == Status(0, s.succeeded, s.failed + 1, s.condition)
    <2>1. /\ v.succeeded = s.succeeded /\ v.failed = s.failed + 1
          /\ v.condition = s.condition /\ v.active = 0
      BY DEF Status
    <2>2. status' = [status EXCEPT ![j] = v]
      BY <1>7
    <2> HIDE DEF v
    <2>3. /\ v.succeeded > 0 => pod[j] = "succeeded"
          /\ v.failed > 0 => pod[j] = "failed"
          /\ v.condition = "Complete" => v.succeeded > 0
          /\ v.condition = "Failed" => v.failed > 0
          /\ v.succeeded > 0 \/ v.failed > 0 => v.active = 0
          /\ s.succeeded > 0 => v.succeeded > 0
          /\ s.failed > 0 => v.failed > 0
      BY <1>1, <1>4, <1>7, <2>1
    <2> QED
      BY <1>3, <2>2, <2>3
  <1>8. ASSUME NEW to \in {"Complete", "Failed"},
               to = "Complete" => s.succeeded > 0, to = "Failed" => s.failed > 0,
               status' = [status EXCEPT ![j] = Status(s.active, s.succeeded, s.failed, to)]
        PROVE  StatusFollows' /\ CountersStay
    <2> DEFINE v == Status(s.active, s.succeeded, s.failed, to)
    <2>1. /\ v.succeeded = s.succeeded /\ v.failed = s.failed
          /\ v.condition = to /\ v.active = s.active
      BY DEF Status
    <2>2. status' = [status EXCEPT ![j] = v]
      BY <1>8
    <2> HIDE DEF v
    <2> QED
      BY <1>3, <1>4, <1>8, <2>1, <2>2
  <1>9. CASE SyncEnded(j)
    BY <1>6, <1>7, <1>9 DEF SyncEnded
  <1>10. CASE Conclude(j)
    BY <1>8, <1>10 DEF Conclude, BackoffLimit
  <1> QED
    BY <1>5, <1>9, <1>10

LEMMA StatusStep == TypeOK /\ StatusFollows /\ [Next]_vars => StatusFollows' /\ CountersStay
  <1> SUFFICES ASSUME TypeOK, StatusFollows, [Next]_vars
               PROVE  StatusFollows' /\ CountersStay
    OBVIOUS
  <1>1. PodsStay
    BY PodsStayStep
  <1>2. CASE UNCHANGED status
    BY <1>1, <1>2 DEF PodsStay, StatusFollows, CountersStay
  <1>3. CASE \E j \in Tasks : SyncActive(j) \/ SyncEnded(j) \/ Conclude(j)
    BY <1>3, StatusWritten
  <1>4. UNCHANGED status \/ \E j \in Tasks : SyncActive(j) \/ SyncEnded(j) \/ Conclude(j)
    BY DEF Next, Request, Post, Prepare, CreateDryRun, CreateJob, CreateFails, GetTask,
           ScheduledRun, Controller, StartPod, Kill, RemoveJob, Script, CheckTarget,
           CreateTarget, BeginRestore, Load, BeginBackup, EndBackup, StatementFails,
           OthersCreate, OthersDrop, Tick, vars, kubeVars, outsideVars
  <1> QED
    BY <1>2, <1>3, <1>4

-----------------------------------------------------------------------------
(* What a client has seen is what a counter says.                          *)

SeenIsCounted == \A c \in Clients :
    /\ seen[c] = "Succeeded" => told[c] \in Tasks /\ status[told[c]].succeeded > 0
    /\ seen[c] = "Failed" => told[c] \in Tasks /\ status[told[c]].failed > 0
NothingToldYet == \A c \in Clients :
    pc[c] \in {"prepare", "create"} => told[c] = 0 /\ seen[c] = "none"

SeenInv == StatusFollows /\ SeenIsCounted /\ NothingToldYet

LEMMA SeenInit == Init => SeenInv
  BY StatusInit DEF Init, SeenInv, SeenIsCounted, NothingToldYet

(* The status of a task says of its counters what the client reads in it.  *)
LEMMA StatusSays ==
    ASSUME TypeOK, StatusFollows, NEW j \in Tasks
    PROVE  /\ TaskStatus(status[j]) = "Succeeded" <=> status[j].succeeded > 0
           /\ TaskStatus(status[j]) = "Failed" <=> status[j].failed > 0
  <1> DEFINE s == status[j]
  <1>1. /\ s.active \in 0..1 /\ s.condition \in {"none", "Complete", "Failed"}
        /\ s.succeeded \in Nat /\ s.failed \in Nat
    BY DEF TypeOK
  <1>2. /\ ~(s.succeeded > 0 /\ s.failed > 0)
        /\ s.condition = "Complete" => s.succeeded > 0
        /\ s.condition = "Failed" => s.failed > 0
        /\ s.succeeded > 0 \/ s.failed > 0 => s.active = 0
    BY DEF StatusFollows
  <1> QED
    BY <1>1, <1>2 DEF TaskStatus

(* A client reads, is told of a new task, or stays with what it has seen.  *)
SeenChanges(c) ==
    \/ UNCHANGED <<told[c], seen[c]>>
    \/ told'[c] = 0 /\ seen'[c] = "none"
    \/ seen[c] = "none" /\ seen'[c] = "Pending"
    \/ told[c] \in Tasks /\ told'[c] = told[c]
       /\ seen'[c] \in {TaskStatus(status[told[c]]), "NotFound"}

LEMMA SeenChangesStep ==
    ASSUME TypeOK, NothingToldYet, [Next]_vars, NEW c \in Clients
    PROVE  SeenChanges(c)
  <1>1. CASE UNCHANGED <<told, seen>>
    BY <1>1 DEF SeenChanges
  <1>2. ASSUME NEW d \in Clients, Post(d) PROVE SeenChanges(c)
    BY <1>2 DEF Post, SeenChanges, TypeOK
  <1>3. ASSUME NEW d \in Clients, CreateDryRun(d) \/ CreateJob(d) PROVE SeenChanges(c)
    BY <1>3, <1>1 DEF CreateDryRun, CreateJob, Accept, SeenChanges, NothingToldYet, TypeOK
  <1>4. ASSUME NEW d \in Clients, GetTask(d) PROVE SeenChanges(c)
    BY <1>4 DEF GetTask, SeenChanges, TypeOK
  <1>5. \/ UNCHANGED <<told, seen>>
        \/ \E d \in Clients : Post(d) \/ CreateDryRun(d) \/ CreateJob(d) \/ GetTask(d)
    BY DEF Next, Request, Prepare, CreateFails,
           ScheduledRun, Controller, StartPod, Kill, SyncActive, SyncEnded, Conclude,
           RemoveJob, Script, CheckTarget, CreateTarget, BeginRestore, Load, BeginBackup,
           EndBackup, StatementFails, OthersCreate, OthersDrop, Tick, vars, clientVars,
           outsideVars
  <1> QED
    BY <1>1, <1>2, <1>3, <1>4, <1>5

LEMMA NothingToldStep == TypeOK /\ NothingToldYet /\ [Next]_vars => NothingToldYet'
  <1> SUFFICES ASSUME TypeOK, NothingToldYet, [Next]_vars, NEW c \in Clients,
                      pc'[c] \in {"prepare", "create"}
               PROVE  told'[c] = 0 /\ seen'[c] = "none"
    BY DEF NothingToldYet
  <1>1. CASE UNCHANGED <<pc, told, seen>>
    BY <1>1 DEF NothingToldYet
  <1>2. ASSUME NEW d \in Clients, Request(d)
        PROVE  told'[c] = 0 /\ seen'[c] = "none"
    <2>1. CASE Post(d) \/ Prepare(d) \/ CreateFails(d)
      BY <1>2, <2>1 DEF Post, Prepare, CreateFails, Goto, NothingToldYet, TypeOK
    <2>2. CASE CreateDryRun(d) \/ CreateJob(d)
      BY <1>2, <2>2 DEF CreateDryRun, CreateJob, Accept, Goto, NothingToldYet, TypeOK
    <2>3. CASE GetTask(d)
      BY <2>3 DEF GetTask, NothingToldYet, TypeOK
    <2> QED
      BY <1>2, <2>1, <2>2, <2>3 DEF Request
  <1>3. UNCHANGED <<pc, told, seen>> \/ \E d \in Clients : Request(d)
    BY DEF Next, ScheduledRun, Controller, StartPod, Kill, SyncActive, SyncEnded, Conclude,
           RemoveJob, Script, CheckTarget, CreateTarget, BeginRestore, Load, BeginBackup,
           EndBackup, StatementFails, OthersCreate, OthersDrop, Tick, vars, clientVars,
           outsideVars
  <1> QED
    BY <1>1, <1>2, <1>3

LEMMA SeenStep == TypeOK /\ SeenInv /\ [Next]_vars => SeenInv'
  <1> SUFFICES ASSUME TypeOK, SeenInv, [Next]_vars PROVE SeenInv'
    OBVIOUS
  <1>1. StatusFollows' /\ CountersStay /\ NothingToldYet'
    BY StatusStep, NothingToldStep DEF SeenInv
  <1>2. ASSUME NEW c \in Clients
        PROVE  /\ seen'[c] = "Succeeded" =>
                    told'[c] \in Tasks /\ status'[told'[c]].succeeded > 0
               /\ seen'[c] = "Failed" =>
                    told'[c] \in Tasks /\ status'[told'[c]].failed > 0
    <2>1. SeenChanges(c)
      BY SeenChangesStep DEF SeenInv
    <2> QED
      BY <1>1, <2>1, StatusSays DEF SeenInv, SeenIsCounted, SeenChanges, CountersStay
  <1> QED
    BY <1>1, <1>2 DEF SeenInv, SeenIsCounted

(* A client that was shown the end of a task and asks again.               *)
LEMMA EndStays ==
    TypeOK /\ SeenInv /\ [Next]_vars =>
    [\A c \in Clients :
        seen[c] \in {"Succeeded", "Failed"} /\ told'[c] = told[c]
        => seen'[c] \in {seen[c], "NotFound"}]_vars
  <1> SUFFICES ASSUME TypeOK, SeenInv, [Next]_vars, NEW c \in Clients,
                      seen[c] \in {"Succeeded", "Failed"}, told'[c] = told[c]
               PROVE  seen'[c] \in {seen[c], "NotFound"}
    OBVIOUS
  <1>1. SeenChanges(c) /\ told[c] \in Tasks /\ 0 \notin Tasks
    BY SeenChangesStep DEF SeenInv, SeenIsCounted, Tasks
  <1> QED
    BY <1>1, StatusSays DEF SeenInv, SeenIsCounted, SeenChanges

(* EndedStatusIsFinal: the parts of a status are written one after another *)
(* and a client may read in between, yet what it reads as the end of a task*)
(* stays the end.                                                          *)
THEOREM EndIsFinal == Spec => EndedStatusIsFinal
  BY TypeInit, TypeStep, SeenInit, SeenStep, EndStays, PTL DEF Spec, EndedStatusIsFinal

-----------------------------------------------------------------------------
(* A Pod that succeeded has done its work.                                 *)

PodlessIsIdle == \A j \in Tasks : pod[j] = "none" => at[j] = "none" /\ cause[j] = "none"
BackupSteps == \A j \in Tasks : at[j] \in {"backup", "storing"} => job[j].type = "backup"
LoadingHasBackup == \A j \in Tasks : at[j] = "loading" => BackupOf(j) \in complete

Done(j) ==
    /\ BackupOf(j) \in complete
    /\ \/ job[j].type = "backup"
       \/ ddls > 0
       \/ job[j].type = "restore" /\ maker[Target(j)] = j /\ table[Target(j)] = "full"
SucceededIsDone == \A j \in Tasks : pod[j] = "succeeded" => at[j] = "stopped" /\ Done(j)

DoneInv == PodlessIsIdle /\ BackupSteps /\ LoadingHasBackup /\ SucceededIsDone

LEMMA DoneInit == Init => DoneInv
  BY DEF Init, DoneInv, PodlessIsIdle, BackupSteps, LoadingHasBackup, SucceededIsDone

(* What a step does to a task: a new one is made, its Pod starts or is     *)
(* killed, its script takes a step, or nothing of it changes.              *)
taskVars == <<job, pod, at, dest, complete, taken, cause>>
NewTask == \E o \in Jobs, p \in Paths \cup {NoPath} :
    /\ MakeJob(created + 1, o)
    /\ dest' \in {dest, [dest EXCEPT ![created + 1] = p]}
    /\ p \in {path[c] : c \in Clients} \cup {NoPath}
    /\ UNCHANGED <<pod, at, tableVars, bucketVars, cause, ddls>>

LEMMA TaskStep ==
    ASSUME TypeOK, [Next]_vars
    PROVE  \/ NewTask
           \/ \E j \in Tasks : StartPod(j) \/ Kill(j) \/ Script(j)
           \/ UNCHANGED taskVars /\ UNCHANGED tableVars /\ UNCHANGED ddls
           \/ UNCHANGED taskVars /\ ddls' > 0
  <1>1. CASE \E t \in ScheduledTables : ScheduledRun(t)
    BY <1>1, ScheduledJob DEF ScheduledRun, NewTask
  <1>2. ASSUME NEW c \in Clients, CreateJob(c) PROVE NewTask
    <2>1. JobOf(c) \in Jobs /\ path[c] \in Paths \cup {NoPath}
      BY JobType DEF TypeOK
    <2> QED
      BY <1>2, <2>1 DEF CreateJob, NewTask
  <1>3. CASE \E c \in Clients : Post(c) \/ Prepare(c) \/ CreateDryRun(c) \/ CreateFails(c)
                                \/ GetTask(c)
    BY <1>3 DEF Post, Prepare, CreateDryRun, CreateFails, GetTask, taskVars, kubeVars,
                bucketVars, boundVars
  <1>4. CASE Tick \/ UNCHANGED vars
             \/ \E j \in Tasks : SyncActive(j) \/ SyncEnded(j) \/ Conclude(j) \/ RemoveJob(j)
    BY <1>4 DEF Tick, vars, SyncActive, SyncEnded, Conclude, RemoveJob, taskVars, kubeVars,
                bucketVars, boundVars
  <1>5. CASE \E t \in Tables : OthersCreate(t) \/ OthersDrop(t)
    BY <1>5 DEF OthersCreate, OthersDrop, taskVars, kubeVars, bucketVars, TypeOK
  <1> QED
    BY <1>1, <1>2, <1>3, <1>4, <1>5 DEF Next, Request, Controller

(* What a statement of task j does to its script, Pod and cause.           *)
LEMMA ScriptMoves ==
    ASSUME TypeOK, NEW j \in Tasks, Script(j)
    PROVE  /\ at[j] \notin {"none", "stopped"} /\ at'[j] \notin {"none", "backup"}
           /\ pod'[j] = "none" => pod[j] = "none"
           /\ cause'[j] # "none" => cause[j] # "none" \/ pod[j] # "none"
           /\ at'[j] \in {"backup", "storing"} => at[j] \in {"backup", "storing"}
           /\ pod'[j] = "succeeded" /\ pod[j] # "succeeded" => at'[j] = "stopped"
           /\ \A i \in Tasks : i # j =>
                 at'[i] = at[i] /\ pod'[i] = pod[i] /\ cause'[i] = cause[i]
           /\ UNCHANGED <<job, dest>> /\ complete \subseteq complete'
           /\ ddls' = ddls
  <1> USE DEF outsideVars, boundVars, bucketVars
  <1>1. ASSUME GoOn(j, "create") \/ GoOn(j, "restore")
               \/ (\E why \in Causes : Fail(j, why)) \/ Succeed(j)
        PROVE  /\ at'[j] \in {"create", "restore", "stopped"}
               /\ pod'[j] = "none" => pod[j] = "none"
               /\ cause'[j] # "none" => cause[j] # "none" \/ pod[j] # "none"
               /\ pod'[j] = "succeeded" /\ pod[j] # "succeeded" => at'[j] = "stopped"
               /\ \A i \in Tasks : i # j =>
                     at'[i] = at[i] /\ pod'[i] = pod[i] /\ cause'[i] = cause[i]
    BY <1>1 DEF GoOn, Fail, Succeed, TypeOK
  <1>2. CASE CheckTarget(j) \/ CreateTarget(j)
    <2>1. GoOn(j, "create") \/ GoOn(j, "restore") \/ \E why \in Causes : Fail(j, why)
      BY <1>2 DEF CheckTarget, CreateTarget, Causes
    <2> QED
      BY <1>1, <1>2, <2>1 DEF CheckTarget, CreateTarget
  <1>3. CASE BeginRestore(j)
    <2>1. CASE Fail(j, "notRestorable")
      BY <1>1, <1>3, <2>1 DEF BeginRestore, Causes
    <2>2. CASE at' = [at EXCEPT ![j] = "loading"] /\ UNCHANGED <<pod, cause>>
      BY <1>3, <2>2 DEF BeginRestore, TypeOK
    <2> QED
      BY <1>3, <2>1, <2>2 DEF BeginRestore
  <1>4. CASE Load(j)
    BY <1>1, <1>4 DEF Load
  <1>5. CASE BeginBackup(j)
    <2>1. CASE \E why \in Causes : Fail(j, why)
      BY <1>1, <1>5, <2>1 DEF BeginBackup
    <2>2. CASE at' = [at EXCEPT ![j] = "storing"] /\ UNCHANGED <<pod, cause>>
      BY <1>5, <2>2 DEF BeginBackup, TypeOK
    <2> QED
      BY <1>5, <2>1, <2>2 DEF BeginBackup, Causes
  <1>6. CASE EndBackup(j)
    BY <1>1, <1>6 DEF EndBackup
  <1>7. CASE StatementFails(j)
    BY <1>1, <1>7 DEF StatementFails, Causes
  <1> QED
    BY <1>2, <1>3, <1>4, <1>5, <1>6, <1>7 DEF Script

LEMMA SameBackup ==
    ASSUME NEW j \in Tasks, dest'[j] = dest[j], job'[j] = job[j]
    PROVE  BackupOf(j)' = BackupOf(j) /\ Target(j)' = Target(j)
  BY DEF BackupOf, Source, Target

(* A step leaves a task whose Pod has started as it is.                    *)
LEMMA TaskStays ==
    ASSUME TypeOK, ClaimInv, [Next]_vars, NEW j \in Tasks, pod[j] # "none"
    PROVE  dest'[j] = dest[j] /\ job'[j] = job[j]
  <1>1. CASE NewTask
    <2>1. created + 1 \in Tasks /\ created \in Nat
      BY <1>1 DEF NewTask, MakeJob, TypeOK
    <2>2. j # created + 1
      BY <2>1 DEF ClaimInv, NotYetCreated
    <2> QED
      BY <1>1, <2>2 DEF NewTask, MakeJob, TypeOK
  <1>2. ASSUME NEW i \in Tasks, StartPod(i) PROVE dest'[j] = dest[j] /\ job'[j] = job[j]
    BY <1>2 DEF StartPod, Failures, BackoffLimit, TypeOK
  <1>3. ASSUME NEW i \in Tasks, Kill(i) \/ Script(i) PROVE dest'[j] = dest[j] /\ job'[j] = job[j]
    BY <1>3, ScriptMoves DEF Kill
  <1> QED
    BY <1>1, <1>2, <1>3, TaskStep DEF taskVars

LEMMA IdleStep == TypeOK /\ PodlessIsIdle /\ [Next]_vars => PodlessIsIdle'
  <1> SUFFICES ASSUME TypeOK, PodlessIsIdle, [Next]_vars, NEW j \in Tasks, pod'[j] = "none"
               PROVE  at'[j] = "none" /\ cause'[j] = "none"
    BY DEF PodlessIsIdle
  <1>1. CASE NewTask \/ UNCHANGED taskVars
    BY <1>1 DEF NewTask, taskVars, PodlessIsIdle
  <1>2. ASSUME NEW i \in Tasks, StartPod(i) \/ Kill(i)
        PROVE  at'[j] = "none" /\ cause'[j] = "none"
    BY <1>2 DEF StartPod, Kill, PodlessIsIdle, TypeOK
  <1>3. ASSUME NEW i \in Tasks, Script(i)
        PROVE  at'[j] = "none" /\ cause'[j] = "none"
    BY <1>3, ScriptMoves DEF PodlessIsIdle
  <1> QED
    BY <1>1, <1>2, <1>3, TaskStep

LEMMA BackupStepsStep ==
    TypeOK /\ ClaimInv /\ PodlessIsIdle /\ BackupSteps /\ [Next]_vars => BackupSteps'
  <1> SUFFICES ASSUME TypeOK, ClaimInv, PodlessIsIdle, BackupSteps, [Next]_vars,
                      NEW j \in Tasks, at'[j] \in {"backup", "storing"}
               PROVE  job'[j].type = "backup"
    BY DEF BackupSteps
  <1>1. CASE pod[j] # "none" /\ at[j] \in {"backup", "storing"}
    BY <1>1, TaskStays DEF BackupSteps
  <1>2. CASE NewTask \/ UNCHANGED taskVars
    BY <1>1, <1>2 DEF NewTask, taskVars, PodlessIsIdle
  <1>3. ASSUME NEW i \in Tasks, StartPod(i) PROVE job'[j].type = "backup"
    BY <1>1, <1>3 DEF StartPod, ScriptStart, PodlessIsIdle, TypeOK
  <1>4. ASSUME NEW i \in Tasks, Kill(i) PROVE job'[j].type = "backup"
    BY <1>4 DEF Kill, BackupSteps
  <1>5. ASSUME NEW i \in Tasks, Script(i) PROVE job'[j].type = "backup"
    BY <1>5, ScriptMoves DEF BackupSteps
  <1> QED
    BY <1>2, <1>3, <1>4, <1>5, TaskStep

LEMMA LoadingStep ==
    TypeOK /\ ClaimInv /\ PodlessIsIdle /\ LoadingHasBackup /\ [Next]_vars
        => LoadingHasBackup'
  <1> SUFFICES ASSUME TypeOK, ClaimInv, PodlessIsIdle, LoadingHasBackup, [Next]_vars,
                      NEW j \in Tasks, at'[j] = "loading"
               PROVE  BackupOf(j)' \in complete'
    BY DEF LoadingHasBackup
  <1>1. complete \subseteq complete'
    BY TaskStep, ScriptMoves DEF NewTask, StartPod, Kill, taskVars, bucketVars
  <1>2. CASE at[j] = "loading"
    <2>1. pod[j] # "none"
      BY <1>2 DEF PodlessIsIdle
    <2> QED
      BY <1>1, <1>2, <2>1, TaskStays, SameBackup DEF LoadingHasBackup
  <1>3. CASE at[j] # "loading"
    <2>1. PICK i \in Tasks : Script(i)
      BY <1>3, TaskStep DEF NewTask, StartPod, ScriptStart, Kill, taskVars, TypeOK
    <2>2. i = j /\ at'[j] = "loading" /\ UNCHANGED <<job, dest>>
      BY <1>3, <2>1, ScriptMoves
    <2>3. BeginRestore(j)
      BY <1>3, <2>1, <2>2 DEF Script, CheckTarget, CreateTarget, Load, BeginBackup,
             EndBackup, StatementFails, GoOn, Fail, Succeed, TypeOK
    <2>4. BackupOf(j) \in complete
      BY <2>2, <2>3 DEF BeginRestore, Fail, TypeOK
    <2> QED
      BY <1>1, <2>2, <2>4, SameBackup
  <1> QED
    BY <1>2, <1>3

(* Nobody but others changes a table that is full.                         *)
LEMMA FullStays ==
    ASSUME TypeOK, ClaimInv, NEW i \in Tasks, Script(i),
           NEW t \in Tables, table[t] = "full"
    PROVE  table'[t] = "full" /\ maker'[t] = maker[t]
  <1>1. CASE UNCHANGED <<table, maker>>
    BY <1>1
  <1>2. CASE CreateTarget(i)
    <2>2. CASE /\ table[Target(i)] = "absent"
               /\ table' = [table EXCEPT ![Target(i)] = "empty"]
               /\ maker' = [maker EXCEPT ![Target(i)] = i]
      <3>1. t # Target(i)
        BY <2>2
      <3> QED
        BY <2>2, <3>1 DEF TypeOK
    <2> QED
      BY <1>1, <1>2, <2>2 DEF CreateTarget
  <1>3. CASE Load(i)
    BY <1>3 DEF Load, ClaimInv, LoadingIsOpen, TypeOK
  <1> QED
    BY <1>1, <1>2, <1>3 DEF Script, CheckTarget, BeginRestore, BeginBackup, EndBackup,
                            StatementFails, tableVars

(* What is done stays done, unless others have touched tables.             *)
LEMMA DoneStays ==
    ASSUME TypeOK, ClaimInv, [Next]_vars, NEW j \in Tasks, pod[j] # "none", Done(j)
    PROVE  Done(j)'
  <1>1. dest'[j] = dest[j] /\ job'[j] = job[j]
    BY TaskStays
  <1>2. complete \subseteq complete'
    BY TaskStep, ScriptMoves DEF NewTask, StartPod, Kill, taskVars, bucketVars
  <1>3. ddls' = ddls \/ ddls' > 0
    BY TaskStep, ScriptMoves DEF NewTask, StartPod, Kill, boundVars
  <1>4. BackupOf(j)' \in complete'
    BY <1>1, <1>2, SameBackup DEF Done
  <1>5. CASE ddls' > 0 \/ job[j].type = "backup"
    BY <1>1, <1>4, <1>5 DEF Done
  <1>6. CASE ddls' = 0 /\ job[j].type = "restore"
             /\ maker[Target(j)] = j /\ table[Target(j)] = "full"
    <2>1. PICK t \in Tables : t = Target(j)
      BY <1>6, RestoreTarget
    <2>2. table'[t] = "full" /\ maker'[t] = maker[t]
      <3>1. \/ UNCHANGED <<table, maker>>
            \/ \E i \in Tasks : Script(i)
        BY <1>6, TaskStep DEF NewTask, StartPod, Kill, tableVars
      <3> QED
        BY <1>6, <2>1, <3>1, FullStays
    <2>3. Target(j)' = t
      BY <1>1, <2>1, SameBackup
    <2> QED
      BY <1>1, <1>4, <1>6, <2>1, <2>2, <2>3 DEF Done
  <1> QED
    BY <1>3, <1>5, <1>6 DEF Done, TypeOK

(* The last statement of a script has done the work of the task.           *)
LEMMA SucceedsDone ==
    ASSUME TypeOK, ClaimInv, BackupSteps, LoadingHasBackup, NEW j \in Tasks, Script(j),
           pod[j] # "succeeded", pod'[j] = "succeeded"
    PROVE  at'[j] = "stopped" /\ Done(j)'
  <1> USE DEF outsideVars, boundVars
  <1>1. at'[j] = "stopped" /\ UNCHANGED <<job, dest>> /\ complete \subseteq complete'
    BY ScriptMoves
  <1>2. Load(j) \/ EndBackup(j)
    BY DEF Script, CheckTarget, CreateTarget, BeginRestore, BeginBackup,
           StatementFails, GoOn, Fail, TypeOK
  <1>3. CASE EndBackup(j)
    <2>1. job[j].type = "backup" /\ BackupOf(j) \in complete'
      BY <1>3 DEF EndBackup, BackupSteps
    <2> QED
      BY <1>1, <2>1, SameBackup DEF Done
  <1>4. CASE Load(j)
    <2>1. job[j].type = "restore" /\ maker[Target(j)] = j /\ BackupOf(j) \in complete
      BY <1>4 DEF Load, ClaimInv, RestoreSteps, FillerIsMaker, LoadingHasBackup
    <2>2. PICK t \in Tables : t = Target(j)
      BY <2>1, RestoreTarget
    <2>3. table'[t] = "full" /\ maker' = maker
      BY <1>4, <2>2 DEF Load, TypeOK
    <2>4. Target(j)' = t /\ BackupOf(j)' \in complete'
      BY <1>1, <2>1, <2>2, SameBackup
    <2> QED
      BY <1>1, <2>1, <2>2, <2>3, <2>4 DEF Done
  <1> QED
    BY <1>2, <1>3, <1>4

LEMMA SucceededStep ==
    TypeOK /\ ClaimInv /\ DoneInv /\ [Next]_vars => SucceededIsDone'
  <1> SUFFICES ASSUME TypeOK, ClaimInv, DoneInv, [Next]_vars,
                      NEW j \in Tasks, pod'[j] = "succeeded"
               PROVE  at'[j] = "stopped" /\ Done(j)'
    BY DEF SucceededIsDone
  <1>1. CASE pod[j] = "succeeded"
    <2>1. at[j] = "stopped" /\ Done(j)
      BY <1>1 DEF DoneInv, SucceededIsDone
    <2>2. at'[j] = "stopped"
      <3>1. ASSUME NEW i \in Tasks, StartPod(i) PROVE at'[j] = "stopped"
        BY <1>1, <2>1, <3>1 DEF StartPod, Failures, BackoffLimit, TypeOK
      <3>2. ASSUME NEW i \in Tasks, Script(i) PROVE at'[j] = "stopped"
        BY <2>1, <3>2, ScriptMoves
      <3> QED
        BY <2>1, <3>1, <3>2, TaskStep DEF NewTask, Kill, taskVars
    <2> QED
      BY <1>1, <2>1, <2>2, DoneStays
  <1>2. CASE pod[j] # "succeeded"
    <2>1. PICK i \in Tasks : Script(i)
      BY <1>2, TaskStep DEF NewTask, StartPod, Kill, taskVars, TypeOK
    <2>2. i = j
      BY <1>2, <2>1, ScriptMoves
    <2> QED
      BY <1>2, <2>1, <2>2, SucceedsDone DEF DoneInv
  <1> QED
    BY <1>1, <1>2

LEMMA DoneStep == TypeOK /\ ClaimInv /\ DoneInv /\ [Next]_vars => DoneInv'
  BY IdleStep, BackupStepsStep, LoadingStep, SucceededStep DEF DoneInv

LEMMA SuccessShows == SeenInv /\ DoneInv => ShownSuccessIsReal
  <1> SUFFICES ASSUME SeenInv, DoneInv, NEW c \in Clients, seen[c] = "Succeeded"
               PROVE  LET j == told[c] IN
                      /\ BackupOf(j) \in complete
                      /\ \/ job[j].type = "backup"
                         \/ ddls > 0
                         \/ maker[Target(j)] = j /\ table[Target(j)] = "full"
    BY DEF ShownSuccessIsReal
  <1>1. told[c] \in Tasks /\ pod[told[c]] = "succeeded"
    BY DEF SeenInv, SeenIsCounted, StatusFollows
  <1> QED
    BY <1>1 DEF DoneInv, SucceededIsDone, Done

(* ShownSuccessIsReal: from the status a client reads through the counters,*)
(* the exit of the Pod and the last statement of the script, a task that   *)
(* succeeded has stored its backup or filled the table it made.            *)
THEOREM SuccessIsReal == Spec => []ShownSuccessIsReal
  <1> QED
    BY TypeInit, TypeStep, ClaimInit, ClaimStep, SeenInit, SeenStep, DoneInit, DoneStep,
       SuccessShows, PTL DEF Spec

-----------------------------------------------------------------------------
(* Paths.  The third part of a path names the Pod of a scheduled run, so   *)
(* that no other task has the path; the task itself has used it only once  *)
(* its BACKUP has begun.                                                   *)

RequestsNameNoPod == \A c \in Clients : path[c][3] = 0
OwnPath == \A j \in Tasks : dest[j][3] \in {0, j}
ScheduledHasPath == \A j \in Tasks :
    job[j].origin = "schedule" /\ at[j] = "backup" => dest[j][3] = j
TakenHasBegun == \A j \in Tasks :
    (\E p \in taken : p[3] = j) => at[j] \notin {"none", "backup"}

PathInv == /\ RequestsNameNoPod /\ OwnPath /\ ScheduledHasPath
           /\ TakenHasBegun /\ ScheduledPathIsFree

LEMMA ThirdPart ==
    /\ NoPath[3] = 0
    /\ \A p \in Given : GivenPath(p)[3] = 0
    /\ \A s : <<Manual, s, 0>>[3] = 0
    /\ \A s, j : <<Scheduled, s, j>>[3] = j
    /\ 0 \notin Tasks
  BY DEF NoPath, GivenPath, Tasks

LEMMA PathInit == Init => PathInv
  <1> SUFFICES ASSUME Init PROVE PathInv
    OBVIOUS
  <1>1. RequestsNameNoPod /\ OwnPath
    BY ThirdPart DEF Init, RequestsNameNoPod, OwnPath
  <1>2. TakenHasBegun
    BY ThirdPart DEF Init, TakenHasBegun
  <1>3. ScheduledHasPath /\ ScheduledPathIsFree
    BY DEF Init, ScheduledHasPath, ScheduledPathIsFree
  <1> QED
    BY <1>1, <1>2, <1>3 DEF PathInv

LEMMA RequestPathsStep ==
    TypeOK /\ RequestsNameNoPod /\ [Next]_vars => RequestsNameNoPod'
  <1> SUFFICES ASSUME TypeOK, RequestsNameNoPod, [Next]_vars PROVE RequestsNameNoPod'
    OBVIOUS
  <1>1. CASE UNCHANGED path
    BY <1>1 DEF RequestsNameNoPod
  <1>2. ASSUME NEW c \in Clients, Post(c) PROVE RequestsNameNoPod'
    <2>1. PICK p : p[3] = 0 /\ path' = [path EXCEPT ![c] = p]
      BY <1>2, JobType, ThirdPart DEF Post
    <2> QED
      BY <2>1 DEF RequestsNameNoPod, TypeOK
  <1>3. UNCHANGED path \/ \E c \in Clients : Post(c)
    BY DEF Next, Request, Prepare, CreateDryRun, CreateJob, CreateFails, GetTask,
           ScheduledRun, Controller, StartPod, Kill, SyncActive, SyncEnded, Conclude,
           RemoveJob, Script, CheckTarget, CreateTarget, BeginRestore, Load, BeginBackup,
           EndBackup, StatementFails, OthersCreate, OthersDrop, Tick, vars, clientVars,
           outsideVars
  <1> QED
    BY <1>1, <1>2, <1>3

LEMMA PathsNewTask ==
    ASSUME TypeOK, ClaimInv, PodlessIsIdle, PathInv, NewTask
    PROVE  OwnPath' /\ ScheduledHasPath' /\ TakenHasBegun' /\ ScheduledPathIsFree'
  <1> DEFINE n == created + 1
  <1>1. PICK o \in Jobs, p \in Paths \cup {NoPath} :
          /\ job' = [job EXCEPT ![n] = o] /\ n \in Tasks
          /\ dest' \in {dest, [dest EXCEPT ![n] = p]}
          /\ p[3] = 0
          /\ UNCHANGED <<at, taken, cause>>
    <2>1. PICK o \in Jobs, p \in Paths \cup {NoPath} :
            /\ MakeJob(n, o) /\ dest' \in {dest, [dest EXCEPT ![n] = p]}
            /\ p \in {path[c] : c \in Clients} \cup {NoPath}
            /\ UNCHANGED <<at, bucketVars, cause>>
      BY DEF NewTask
    <2>2. p[3] = 0
      BY <2>1, ThirdPart DEF PathInv, RequestsNameNoPod
    <2> QED
      BY <2>1, <2>2 DEF MakeJob, bucketVars
  <1>2. at[n] = "none" /\ cause[n] = "none"
    <2>1. created \in Nat /\ created < n
      BY DEF TypeOK
    <2> QED
      BY <1>1, <2>1 DEF ClaimInv, NotYetCreated, PodlessIsIdle
  <1>3. \A j \in Tasks : j # n => job'[j] = job[j] /\ dest'[j] = dest[j]
    BY <1>1 DEF TypeOK
  <1>4. dest'[n] = dest[n] \/ dest'[n] = p
    BY <1>1 DEF TypeOK
  <1>5. OwnPath' /\ ScheduledHasPath'
    BY <1>1, <1>2, <1>3, <1>4 DEF PathInv, OwnPath, ScheduledHasPath
  <1>6. TakenHasBegun' /\ ScheduledPathIsFree'
    BY <1>1, <1>2, <1>3 DEF PathInv, TakenHasBegun, ScheduledPathIsFree
  <1> QED
    BY <1>5, <1>6

LEMMA PathsStartPod ==
    ASSUME TypeOK, PodlessIsIdle, PathInv, NEW i \in Tasks, StartPod(i)
    PROVE  OwnPath' /\ ScheduledHasPath' /\ TakenHasBegun' /\ ScheduledPathIsFree'
  <1>1. at[i] = "none" /\ UNCHANGED <<job, taken, cause>>
    BY DEF StartPod, Failures, BackoffLimit, PodlessIsIdle, bucketVars
  <1>2. \A j \in Tasks : j # i => dest'[j] = dest[j] /\ at'[j] = at[j]
    BY DEF StartPod, TypeOK
  <1>3. /\ job[i].origin = "schedule" => dest'[i][3] = i
        /\ job[i].origin # "schedule" => dest'[i] = dest[i]
    BY ThirdPart DEF StartPod, ScheduledPath, TypeOK
  <1>4. OwnPath' /\ ScheduledHasPath'
    BY <1>1, <1>2, <1>3 DEF PathInv, OwnPath, ScheduledHasPath
  <1>5. ~ \E p \in taken : p[3] = i
    BY <1>1 DEF PathInv, TakenHasBegun
  <1>6. TakenHasBegun' /\ ScheduledPathIsFree'
    BY <1>1, <1>2, <1>5 DEF PathInv, TakenHasBegun, ScheduledPathIsFree
  <1> QED
    BY <1>4, <1>6

LEMMA PathsScript ==
    ASSUME TypeOK, PathInv, NEW i \in Tasks, Script(i)
    PROVE  OwnPath' /\ ScheduledHasPath' /\ TakenHasBegun' /\ ScheduledPathIsFree'
  <1> USE DEF bucketVars
  <1>1. /\ \A j \in Tasks : j # i => at'[j] = at[j] /\ cause'[j] = cause[j]
        /\ at'[i] \notin {"none", "backup"} /\ UNCHANGED <<job, dest>>
    BY ScriptMoves
  <1>2. OwnPath' /\ ScheduledHasPath'
    BY <1>1 DEF PathInv, OwnPath, ScheduledHasPath
  <1>3. taken' \subseteq taken \cup {dest[i]}
    BY DEF Script, CheckTarget, CreateTarget, BeginRestore, Load, BeginBackup,
           EndBackup, StatementFails
  <1>4. TakenHasBegun'
    BY <1>1, <1>3, ThirdPart DEF PathInv, OwnPath, TakenHasBegun
  <1>5. cause'[i] = "pathTaken" =>
            cause[i] = "pathTaken" \/ (at[i] = "backup" /\ dest[i] \in taken)
    BY DEF Script, CheckTarget, CreateTarget, BeginRestore, Load, BeginBackup,
           EndBackup, StatementFails, GoOn, Fail, Succeed, TypeOK
  <1>6. job[i].origin = "schedule" => ~(at[i] = "backup" /\ dest[i] \in taken)
    BY DEF PathInv, ScheduledHasPath, TakenHasBegun
  <1>7. ScheduledPathIsFree'
    BY <1>1, <1>5, <1>6 DEF PathInv, ScheduledPathIsFree
  <1> QED
    BY <1>2, <1>4, <1>7

LEMMA PathStep == TypeOK /\ ClaimInv /\ PodlessIsIdle /\ PathInv /\ [Next]_vars => PathInv'
  <1> SUFFICES ASSUME TypeOK, ClaimInv, PodlessIsIdle, PathInv, [Next]_vars PROVE PathInv'
    OBVIOUS
  <1> DEFINE Goal == OwnPath' /\ ScheduledHasPath' /\ TakenHasBegun' /\ ScheduledPathIsFree'
  <1>1. RequestsNameNoPod'
    BY RequestPathsStep DEF PathInv
  <1>2. ASSUME UNCHANGED taskVars PROVE Goal
    <2>1. UNCHANGED <<job, at, dest, taken, cause>>
      BY <1>2 DEF taskVars
    <2> QED
      BY <2>1 DEF PathInv, OwnPath, ScheduledHasPath, TakenHasBegun, ScheduledPathIsFree
  <1>3. ASSUME NEW i \in Tasks, Kill(i) PROVE Goal
    <2>1. UNCHANGED <<job, at, dest, taken>> /\ cause' = [cause EXCEPT ![i] = "killed"]
      BY <1>3 DEF Kill, bucketVars
    <2> QED
      BY <2>1 DEF PathInv, OwnPath, ScheduledHasPath, TakenHasBegun, ScheduledPathIsFree,
                  TypeOK
  <1>4. Goal
    BY <1>2, <1>3, TaskStep, PathsNewTask, PathsStartPod, PathsScript DEF PathInv
  <1> QED
    BY <1>1, <1>4 DEF PathInv

(* ScheduledPathIsFree: any number of runs of any schedules in one second, *)
(* beside backups to given and default paths.                              *)
THEOREM ScheduledPathsAreFree == Spec => []ScheduledPathIsFree
  <1>1. PathInv => ScheduledPathIsFree
    BY DEF PathInv
  <1>2. Init => PodlessIsIdle
    BY DoneInit DEF DoneInv
  <1> QED
    BY <1>1, <1>2, TypeInit, TypeStep, ClaimInit, ClaimStep, IdleStep, PathInit, PathStep,
       PTL DEF Spec

=============================================================================
