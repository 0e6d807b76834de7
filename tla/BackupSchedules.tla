--------------------------- MODULE BackupSchedules ---------------------------
(***************************************************************************)
(* The backup schedule requests of upm-api-server (internal/kube/backup.go)*)
(* on the CronJobs of one namespace.  A schedule is the CronJob named      *)
(* <cluster>-backup-<schedule> and the labels it carries: two different    *)
(* pairs can have the same name, and names can be taken by CronJobs the    *)
(* server did not make.  The handlers hold no lock and keep nothing        *)
(* between the Kubernetes calls, each of which is one step.  What a CronJob*)
(* starts is in BackupTasks; a call whose caller was given up on may still *)
(* be carried out and stays in "late".  Others make no CronJobs while the  *)
(* requests run: theirs were there before, or have names of no schedule.   *)
(***************************************************************************)
EXTENDS FiniteSets, Naturals

CONSTANTS
    Requests,
    Pairs,         \* <<cluster, schedule>>
    Names,         \* names of CronJobs
    ResourceName,  \* the name <cluster>-backup-<schedule> of a pair
    TooLong,       \* the names of more than 52 characters
    Unlabelled,    \* in the place of the pair: none of the labels
    Absent,
    InitialCronJobs, \* what the namespace may hold before the first request
    NoCall,
    MaxLate        \* bound: calls that lost their caller at one time

CronJobs == [pair : Pairs \cup {Unlabelled}, managed : BOOLEAN]
Foreign == {o \in CronJobs : ~o.managed}
(* A list asks for a cluster: one of its pairs stands for it.              *)
Calls == {c \in [op : {"create", "list", "get", "delete"}, pair : Pairs] :
             c.op = "list" => c.pair = CHOOSE p \in Pairs : p[1] = c.pair[1]}
Writes == {c \in Calls : c.op \in {"create", "delete"}}

ASSUME NamesAssumption == ResourceName \in [Pairs -> Names] /\ TooLong \subseteq Names
ASSUME AbsentAssumption == Absent \notin CronJobs /\ NoCall \notin Calls
ASSUME UnlabelledAssumption == Unlabelled \notin Pairs
ASSUME InitialAssumption == InitialCronJobs \subseteq [Names -> Foreign \cup {Absent}]
ASSUME BoundAssumption == MaxLate \in Nat

VARIABLES
    cronJobs,  \* the CronJob of a name
    pc,        \* where the handler of a request is
    call,      \* what the request asks
    read,      \* the CronJobs its answer will be about
    answer,
    late       \* writes that lost their caller and may still be carried out

vars == <<cronJobs, pc, call, read, answer, late>>

PCs == {"idle", "cluster", "create", "list", "get", "delete", "status", "over"}
Answers == {"NONE", "ACCEPTED", "LISTED", "SHOWN", "DELETED", "REJECTED",
            "VALIDATION_ERROR", "BACKUP_SCHEDULE_ALREADY_EXISTS",
            "BACKUP_SCHEDULE_NOT_FOUND", "KUBERNETES_API_ERROR"}

TypeOK ==
    /\ cronJobs \in [Names -> CronJobs \cup {Absent}]
    /\ pc \in [Requests -> PCs]
    /\ call \in [Requests -> Calls \cup {NoCall}]
    /\ \A r \in Requests : call[r] = NoCall <=> pc[r] = "idle"
    /\ read \in [Requests -> SUBSET CronJobs]
    /\ answer \in [Requests -> Answers]
    /\ late \subseteq Writes

Init ==
    /\ cronJobs \in InitialCronJobs
    /\ pc = [r \in Requests |-> "idle"]
    /\ call = [r \in Requests |-> NoCall]
    /\ read = [r \in Requests |-> {}]
    /\ answer = [r \in Requests |-> "NONE"]
    /\ late = {}

Pair(r) == call[r].pair
Name(r) == ResourceName[Pair(r)]
Made(p) == [pair |-> p, managed |-> TRUE]
Goto(r, step) == pc' = [pc EXCEPT ![r] = step] /\ UNCHANGED answer
Answer(r, a) == pc' = [pc EXCEPT ![r] = "over"] /\ answer' = [answer EXCEPT ![r] = a]

-----------------------------------------------------------------------------
Arrive(r, c) ==
    /\ pc[r] = "idle"
    /\ call' = [call EXCEPT ![r] = c]
    /\ Goto(r, "cluster")
    /\ UNCHANGED <<cronJobs, read, late>>

(* GetCluster, and for a create all that backupRuntime and                 *)
(* validateBackupStorageSecret look up; then the length of the name.       *)
GetCluster(r) ==
    /\ pc[r] = "cluster"
    /\ \/ \E a \in {"REJECTED", "KUBERNETES_API_ERROR"} : Answer(r, a)
       \/ /\ call[r].op = "create" /\ Name(r) \in TooLong
          /\ Answer(r, "VALIDATION_ERROR")
       \/ /\ call[r].op = "create" => Name(r) \notin TooLong
          /\ Goto(r, IF call[r].op = "delete" THEN "get" ELSE call[r].op)
    /\ UNCHANGED <<cronJobs, call, read, late>>

(* Mutant of Create: an error code of its own.                             *)
Create_OwnCode(r) ==
    /\ pc[r] = "create" /\ cronJobs[Name(r)] # Absent
    /\ Answer(r, "BACKUP_SCHEDULE_CONFLICT")
    /\ UNCHANGED <<cronJobs, call, read, late>>
Create(r) ==
    /\ pc[r] = "create"
    /\ \/ /\ cronJobs[Name(r)] = Absent
          /\ cronJobs' = [cronJobs EXCEPT ![Name(r)] = Made(Pair(r))]
          /\ read' = [read EXCEPT ![r] = {Made(Pair(r))}]
          /\ Goto(r, "status")
       \/ /\ cronJobs[Name(r)] # Absent
          /\ Answer(r, "BACKUP_SCHEDULE_ALREADY_EXISTS")
          /\ UNCHANGED <<cronJobs, read>>
    /\ UNCHANGED <<call, late>>

(* Mutant of Listed: the selector does not have the cluster.               *)
Listed_AnyCluster(cluster) ==
    {o \in {cronJobs[n] : n \in Names} \ {Absent} : o.managed /\ o.pair \in Pairs}
Listed(cluster) ==
    {o \in {cronJobs[n] : n \in Names} \ {Absent} :
        o.managed /\ o.pair \in Pairs /\ o.pair[1] = cluster}

List(r) ==
    /\ pc[r] = "list"
    /\ read' = [read EXCEPT ![r] = Listed(Pair(r)[1])]
    /\ Goto(r, "status")
    /\ UNCHANGED <<cronJobs, call, late>>

(* Not only a managed CronJob is shown: its labels are compared.           *)
IsShown(o, p) == o # Absent /\ o.pair = p
(* Mutant of IsDeletable: the label of the server is not asked for.        *)
IsDeletable_AnyMaker(o, p) == o # Absent /\ o.pair = p
IsDeletable(o, p) == o # Absent /\ o.pair = p /\ o.managed

Get(r) ==
    /\ pc[r] = "get" /\ call[r].op = "get"
    /\ \/ /\ IsShown(cronJobs[Name(r)], Pair(r))
          /\ read' = [read EXCEPT ![r] = {cronJobs[Name(r)]}]
          /\ Goto(r, "status")
       \/ /\ ~IsShown(cronJobs[Name(r)], Pair(r))
          /\ Answer(r, "BACKUP_SCHEDULE_NOT_FOUND")
          /\ UNCHANGED read
    /\ UNCHANGED <<cronJobs, call, late>>

CheckBeforeDelete(r) ==
    /\ pc[r] = "get" /\ call[r].op = "delete"
    /\ \/ IsDeletable(cronJobs[Name(r)], Pair(r)) /\ Goto(r, "delete")
       \/ /\ ~IsDeletable(cronJobs[Name(r)], Pair(r))
          /\ Answer(r, "BACKUP_SCHEDULE_NOT_FOUND")
    /\ UNCHANGED <<cronJobs, call, read, late>>

(* Mutant of Delete: by the label of the cluster.                          *)
Delete_OfCluster(r) ==
    /\ pc[r] = "delete"
    /\ cronJobs' = [n \in Names |->
          IF cronJobs[n] \in Listed(Pair(r)[1]) THEN Absent ELSE cronJobs[n]]
    /\ Answer(r, "DELETED")
    /\ UNCHANGED <<call, read, late>>

(* Delete by name: whatever holds the name by now.                         *)
Delete(r) ==
    /\ pc[r] = "delete"
    /\ \/ /\ cronJobs[Name(r)] # Absent
          /\ cronJobs' = [cronJobs EXCEPT ![Name(r)] = Absent]
          /\ Answer(r, "DELETED")
       \/ /\ cronJobs[Name(r)] = Absent
          /\ Answer(r, "BACKUP_SCHEDULE_NOT_FOUND")
          /\ UNCHANGED cronJobs
    /\ UNCHANGED <<call, read, late>>

(* The Jobs of every CronJob that was read are listed: the answer.         *)
Status(r) ==
    /\ pc[r] = "status"
    /\ Answer(r, IF call[r].op = "create" THEN "ACCEPTED"
                 ELSE IF call[r].op = "list" THEN "LISTED" ELSE "SHOWN")
    /\ UNCHANGED <<cronJobs, call, read, late>>

(* A Kubernetes call fails, the deadline of the request passes or the      *)
(* process ends; the write that was on its way may still arrive.           *)
Fail(r) ==
    /\ pc[r] \in {"create", "list", "get", "delete", "status"}
    /\ Answer(r, "KUBERNETES_API_ERROR")
    /\ \/ UNCHANGED late
       \/ /\ pc[r] \in {"create", "delete"} /\ Cardinality(late) < MaxLate
          /\ late' = late \cup {call[r]}
    /\ UNCHANGED <<cronJobs, call, read>>

Leave(r) ==
    /\ pc[r] = "over"
    /\ pc' = [pc EXCEPT ![r] = "idle"]
    /\ call' = [call EXCEPT ![r] = NoCall]
    /\ read' = [read EXCEPT ![r] = {}]
    /\ answer' = [answer EXCEPT ![r] = "NONE"]
    /\ UNCHANGED <<cronJobs, late>>

CarryOut(c) ==
    /\ late' = late \ {c}
    /\ cronJobs' = [cronJobs EXCEPT ![ResourceName[c.pair]] =
          IF c.op = "delete" THEN Absent
          ELSE IF @ = Absent THEN Made(c.pair) ELSE @]
    /\ UNCHANGED <<pc, call, read, answer>>

(* An administrator deletes the CronJob of a schedule.                     *)
AdminDelete(n) ==
    /\ cronJobs[n] # Absent /\ cronJobs[n].managed
    /\ cronJobs' = [cronJobs EXCEPT ![n] = Absent]
    /\ UNCHANGED <<pc, call, read, answer, late>>

Handle(r) == GetCluster(r) \/ Create(r) \/ List(r) \/ Get(r)
             \/ CheckBeforeDelete(r) \/ Delete(r) \/ Status(r) \/ Fail(r)

Next ==
    \/ \E r \in Requests : (\E c \in Calls : Arrive(r, c)) \/ Handle(r) \/ Leave(r)
    \/ \E c \in late : CarryOut(c)
    \/ \E n \in Names : AdminDelete(n)

Spec == Init /\ [][Next]_vars

-----------------------------------------------------------------------------
(* The pairs whose name no other pair has.                                 *)
Private == {p \in Pairs : \A q \in Pairs : ResourceName[q] = ResourceName[p] => q = p}

(* A CronJob the server did not make stays as it is, whatever is asked for *)
(* its name: a create does not replace it, no delete, however late,        *)
(* removes it.                                                             *)
ForeignCronJobsAreKept ==
    [][\A n \in Names : cronJobs[n] \in Foreign => cronJobs'[n] = cronJobs[n]]_vars

(* An accepted schedule is there until it is deleted for its own pair, by a*)
(* request, a late call or an administrator: requests for other schedules  *)
(* leave it alone.  True of a pair whose name is its own.                  *)
PrivateScheduleIsKept ==
    [][\A p \in Private :
          cronJobs[ResourceName[p]] = Made(p) /\ cronJobs'[ResourceName[p]] # Made(p) =>
            \/ \E r \in Requests : pc[r] = "delete" /\ Pair(r) = p /\ answer'[r] = "DELETED"
            \/ \E c \in late \ late' : c.op = "delete" /\ c.pair = p
            \/ AdminDelete(ResourceName[p])]_vars

-----------------------------------------------------------------------------
(* The pairs with a name of their own that nobody else's CronJob ever took:*)
(* they are a registry.                                                    *)
Own == {p \in Private : \A f \in InitialCronJobs : f[ResourceName[p]] = Absent}
Held == [p \in Own |->
    IF cronJobs[ResourceName[p]] = Absent THEN "absent" ELSE "managed"]
InRegistry(r) ==
    /\ pc[r] # "idle"
    /\ call[r].op = "list" \/ Pair(r) \in Own
RegistryCall == [r \in Requests |-> IF InRegistry(r) THEN call[r] ELSE NoCall]
ResultOf(op) == IF op = "create" THEN "ACCEPTED"
                ELSE IF op = "list" THEN "LISTED" ELSE "SHOWN"
Result(r) ==
    IF ~InRegistry(r) THEN "idle"
    ELSE IF pc[r] = "status" THEN ResultOf(call[r].op)
    ELSE IF pc[r] # "over" THEN "open"
    ELSE IF answer[r] = "BACKUP_SCHEDULE_ALREADY_EXISTS" THEN "EXISTS"
    ELSE IF answer[r] = "BACKUP_SCHEDULE_NOT_FOUND" THEN "NOT_FOUND"
    ELSE IF answer[r] \in {"ACCEPTED", "LISTED", "SHOWN", "DELETED"} THEN answer[r]
    ELSE "ERROR"
RegistryResult == [r \in Requests |-> Result(r)]
RegistryListed == [r \in Requests |->
    IF InRegistry(r) /\ call[r].op = "list" THEN {o.pair : o \in read[r]} \cap Own ELSE {}]
RegistryLoose == {c \in late : c.pair \in Own}
RegistryCalls == {c \in Calls : c.op = "list" \/ c.pair \in Own}

Registry == INSTANCE ScheduleRegistry WITH
    Pairs <- Own, Calls <- RegistryCalls,
    held <- Held, call <- RegistryCall, result <- RegistryResult,
    listed <- RegistryListed, loose <- RegistryLoose

(* Each request for such a pair is one atomic operation on the registry: an*)
(* answer is true at one moment between its arrival and its answer, 404 and*)
(* 409 included, and only errors leave it open whether the request took    *)
(* effect.  Where a CronJob of others may have the name, the codes say     *)
(* less (a create answers ALREADY_EXISTS to any CronJob, a get shows one   *)
(* with the labels of the pair whoever made it): Own leaves that out.      *)
SchedulesAreARegistry == Registry!Spec
=============================================================================
