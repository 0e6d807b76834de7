----------------------- MODULE BackupSchedules_proofs -----------------------
(***************************************************************************)
(* Proofs about BackupSchedules, for any number of requests, pairs, late   *)
(* calls and CronJobs of others, and any naming of pairs, in which several *)
(* pairs may have one name.                                                *)
(***************************************************************************)
EXTENDS BackupSchedules, TLAPS

(* What a handler may change: the place it is at, its answer, what it read.*)
LEMMA MadeType == ASSUME NEW p \in Pairs PROVE Made(p) \in CronJobs \ Foreign
  BY DEF Made, CronJobs, Foreign

LEMMA CallType ==
    ASSUME TypeOK, NEW r \in Requests, pc[r] # "idle"
    PROVE  /\ call[r] \in Calls /\ Pair(r) \in Pairs /\ Name(r) \in Names
           /\ call[r].op \in {"create", "list", "get", "delete"}
  <1>1. call[r] \in Calls
    BY DEF TypeOK
  <1>2. call[r] \in [op : {"create", "list", "get", "delete"}, pair : Pairs]
    BY <1>1 DEF Calls
  <1>3. Pair(r) \in Pairs /\ call[r].op \in {"create", "list", "get", "delete"}
    BY <1>2 DEF Pair
  <1> QED
    BY <1>1, <1>3, NamesAssumption DEF Name

LEMMA WriteType ==
    ASSUME NEW c \in Writes
    PROVE  /\ c \in Calls /\ c.op \in {"create", "delete"} /\ c.pair \in Pairs
           /\ ResourceName[c.pair] \in Names
  <1>1. c \in Calls /\ c.op \in {"create", "delete"}
    BY DEF Writes
  <1>2. c \in [op : {"create", "list", "get", "delete"}, pair : Pairs]
    BY <1>1 DEF Calls
  <1> QED
    BY <1>1, <1>2, NamesAssumption

(* Where a handler is follows what its request asks.                       *)
AtItsCall == \A r \in Requests :
    /\ pc[r] \in {"create", "list", "delete"} => call[r].op = pc[r]
    /\ pc[r] = "get" => call[r].op \in {"get", "delete"}
    /\ pc[r] = "status" => call[r].op \in {"create", "list", "get"}

LEMMA ListedType == ASSUME TypeOK, NEW c PROVE Listed(c) \subseteq CronJobs
  BY DEF TypeOK, Listed

LEMMA TypeInit == Init => TypeOK
  BY InitialAssumption DEF Init, TypeOK, Foreign, PCs, Answers

LEMMA ArriveType ==
    ASSUME TypeOK, NEW r \in Requests, NEW c \in Calls, Arrive(r, c)
    PROVE  TypeOK'
  <1>1. \A q \in Requests : call'[q] = (IF q = r THEN c ELSE call[q])
                            /\ pc'[q] = (IF q = r THEN "cluster" ELSE pc[q])
    BY DEF Arrive, Goto, TypeOK
  <1>2. c # NoCall
    BY AbsentAssumption
  <1>3. call' \in [Requests -> Calls \cup {NoCall}] /\ pc' \in [Requests -> PCs]
    BY DEF Arrive, Goto, TypeOK, PCs
  <1> QED
    BY <1>1, <1>2, <1>3 DEF Arrive, Goto, TypeOK

(* A handler goes on or answers: its request stays.                        *)
LEMMA MoveType ==
    ASSUME TypeOK, NEW r \in Requests, pc[r] # "idle", UNCHANGED call,
           \/ \E step \in PCs \ {"idle"} : Goto(r, step)
           \/ \E a \in Answers : Answer(r, a)
    PROVE  /\ pc' \in [Requests -> PCs] /\ answer' \in [Requests -> Answers]
           /\ call' \in [Requests -> Calls \cup {NoCall}]
           /\ \A q \in Requests : call'[q] = NoCall <=> pc'[q] = "idle"
  <1>1. PICK step \in PCs \ {"idle"} : pc' = [pc EXCEPT ![r] = step]
    BY DEF Goto, Answer, PCs
  <1>2. pc' \in [Requests -> PCs] /\ call' \in [Requests -> Calls \cup {NoCall}]
    BY <1>1 DEF TypeOK
  <1>3. \A q \in Requests : call'[q] = NoCall <=> pc'[q] = "idle"
    BY <1>1 DEF TypeOK
  <1>4. answer' \in [Requests -> Answers]
    BY DEF Goto, Answer, TypeOK
  <1> QED
    BY <1>2, <1>3, <1>4

LEMMA HandleType ==
    ASSUME TypeOK, AtItsCall, NEW r \in Requests, Handle(r)
    PROVE  TypeOK'
  <1>0. UNCHANGED call /\ pc[r] # "idle"
    BY DEF Handle, GetCluster, Create, List, Get, CheckBeforeDelete, Delete, Status, Fail
  <1>1. call[r] \in Calls /\ Pair(r) \in Pairs /\ Name(r) \in Names
        /\ call[r].op \in {"create", "list", "get", "delete"}
    BY <1>0, CallType
  <1>2. (\E step \in PCs \ {"idle"} : Goto(r, step)) \/ (\E a \in Answers : Answer(r, a))
    <2>1. CASE GetCluster(r)
      <3>1. \/ \E step \in {"get", "create", "list"} : Goto(r, step)
            \/ \E a \in {"REJECTED", "KUBERNETES_API_ERROR", "VALIDATION_ERROR"} : Answer(r, a)
        BY <1>1, <2>1 DEF GetCluster
      <3> QED
        BY <3>1 DEF PCs, Answers
    <2>2. CASE Create(r) \/ List(r) \/ Get(r) \/ CheckBeforeDelete(r)
      <3>1. \/ \E step \in {"status", "delete"} : Goto(r, step)
            \/ \E a \in {"BACKUP_SCHEDULE_ALREADY_EXISTS", "BACKUP_SCHEDULE_NOT_FOUND"} :
                  Answer(r, a)
        BY <2>2 DEF Create, List, Get, CheckBeforeDelete
      <3> QED
        BY <3>1 DEF PCs, Answers
    <2>3. CASE Delete(r) \/ Status(r) \/ Fail(r)
      <3>1. \E a \in {"DELETED", "BACKUP_SCHEDULE_NOT_FOUND", "ACCEPTED", "LISTED", "SHOWN",
                      "KUBERNETES_API_ERROR"} : Answer(r, a)
        BY <2>3 DEF Delete, Status, Fail
      <3> QED
        BY <3>1 DEF Answers
    <2> QED
      BY <2>1, <2>2, <2>3 DEF Handle
  <1>3. /\ pc' \in [Requests -> PCs] /\ answer' \in [Requests -> Answers]
        /\ call' \in [Requests -> Calls \cup {NoCall}]
        /\ \A q \in Requests : call'[q] = NoCall <=> pc'[q] = "idle"
    BY <1>0, <1>2, MoveType
  <1>4. cronJobs' \in [Names -> CronJobs \cup {Absent}]
    <2>1. \/ UNCHANGED cronJobs
          \/ cronJobs' = [cronJobs EXCEPT ![Name(r)] = Made(Pair(r))]
          \/ cronJobs' = [cronJobs EXCEPT ![Name(r)] = Absent]
      BY DEF Handle, GetCluster, Create, List, Get, CheckBeforeDelete, Delete, Status, Fail
    <2> QED
      BY <1>1, <2>1, MadeType DEF TypeOK
  <1>5. read' \in [Requests -> SUBSET CronJobs]
    <2>1. \/ UNCHANGED read
          \/ read' = [read EXCEPT ![r] = {Made(Pair(r))}]
          \/ read' = [read EXCEPT ![r] = Listed(Pair(r)[1])]
          \/ /\ cronJobs[Name(r)] # Absent
             /\ read' = [read EXCEPT ![r] = {cronJobs[Name(r)]}]
      BY DEF Handle, GetCluster, Create, List, Get, CheckBeforeDelete, Delete, Status, Fail,
             IsShown
    <2> QED
      BY <1>1, <2>1, MadeType, ListedType DEF TypeOK
  <1>6. late' \subseteq Writes
    <2>1. UNCHANGED late \/ (pc[r] \in {"create", "delete"} /\ late' = late \cup {call[r]})
      BY DEF Handle, GetCluster, Create, List, Get, CheckBeforeDelete, Delete, Status, Fail
    <2> QED
      BY <1>1, <2>1 DEF TypeOK, AtItsCall, Writes
  <1> QED
    BY <1>3, <1>4, <1>5, <1>6 DEF TypeOK

LEMMA AtItsCallStep == TypeOK /\ AtItsCall /\ [Next]_vars => AtItsCall'
  <1> SUFFICES ASSUME TypeOK, AtItsCall, [Next]_vars PROVE AtItsCall'
    OBVIOUS
  <1>1. CASE UNCHANGED <<pc, call>>
    BY <1>1 DEF AtItsCall
  <1>2. ASSUME NEW r \in Requests, NEW step, NEW c,
               pc' = [pc EXCEPT ![r] = step], call' = [call EXCEPT ![r] = c],
               step \in {"create", "list", "delete"} => c.op = step,
               step = "get" => c.op \in {"get", "delete"},
               step = "status" => c.op \in {"create", "list", "get"}
        PROVE  AtItsCall'
    BY <1>2 DEF AtItsCall, TypeOK
  <1>3. ASSUME NEW r \in Requests, NEW c \in Calls, Arrive(r, c) PROVE AtItsCall'
    BY <1>2, <1>3 DEF Arrive, Goto
  <1>4. ASSUME NEW r \in Requests, Leave(r) PROVE AtItsCall'
    BY <1>2, <1>4 DEF Leave
  <1>5. ASSUME NEW r \in Requests, Handle(r) PROVE AtItsCall'
    <2>0. pc[r] # "idle"
      BY <1>5 DEF Handle, GetCluster, Create, List, Get, CheckBeforeDelete, Delete, Status, Fail
    <2>1. call' = [call EXCEPT ![r] = call[r]]
      BY <1>5 DEF Handle, GetCluster, Create, List, Get, CheckBeforeDelete, Delete, Status,
                  Fail, TypeOK
    <2>2. call[r].op \in {"create", "list", "get", "delete"}
      BY <2>0, CallType
    <2>3. PICK step : pc' = [pc EXCEPT ![r] = step]
      BY <1>5 DEF Handle, GetCluster, Create, List, Get, CheckBeforeDelete, Delete, Status,
                  Fail, Goto, Answer
    <2>4. pc'[r] = step
      BY <2>3 DEF TypeOK
    <2>5. /\ step \in {"create", "list", "delete"} => call[r].op = step
          /\ step = "get" => call[r].op \in {"get", "delete"}
          /\ step = "status" => call[r].op \in {"create", "list", "get"}
      <3>1. CASE GetCluster(r)
        BY <2>2, <2>4, <3>1 DEF GetCluster, Goto, Answer, TypeOK
      <3>2. CASE Create(r) \/ List(r) \/ Get(r)
        BY <2>2, <2>4, <3>2 DEF Create, List, Get, Goto, Answer, TypeOK, AtItsCall
      <3>3. CASE CheckBeforeDelete(r) \/ Delete(r) \/ Status(r) \/ Fail(r)
        BY <2>2, <2>4, <3>3 DEF CheckBeforeDelete, Delete, Status, Fail, Goto, Answer, TypeOK
      <3> QED
        BY <1>5, <3>1, <3>2, <3>3 DEF Handle
    <2> QED
      BY <1>2, <2>1, <2>3, <2>5
  <1>6. CASE (\E c \in late : CarryOut(c)) \/ (\E n \in Names : AdminDelete(n)) \/ UNCHANGED vars
    BY <1>1, <1>6 DEF CarryOut, AdminDelete, vars
  <1> QED
    BY <1>3, <1>4, <1>5, <1>6 DEF Next

LEMMA AtItsCallInit == Init => AtItsCall
  BY DEF Init, AtItsCall

LEMMA TypeStep == TypeOK /\ AtItsCall /\ [Next]_vars => TypeOK'
  <1> SUFFICES ASSUME TypeOK, AtItsCall, [Next]_vars PROVE TypeOK'
    OBVIOUS
  <1>1. ASSUME NEW r \in Requests, Leave(r) PROVE TypeOK'
    <2>1. \A q \in Requests : call'[q] = (IF q = r THEN NoCall ELSE call[q])
                              /\ pc'[q] = (IF q = r THEN "idle" ELSE pc[q])
      BY <1>1 DEF Leave, TypeOK
    <2> QED
      BY <1>1, <2>1 DEF Leave, TypeOK, PCs, Answers
  <1>2. ASSUME NEW c \in late, CarryOut(c) PROVE TypeOK'
    <2>1. c \in Writes
      BY DEF TypeOK
    <2>2. Made(c.pair) \in CronJobs /\ ResourceName[c.pair] \in Names
      BY <2>1, WriteType, MadeType
    <2>3. cronJobs' \in [Names -> CronJobs \cup {Absent}]
      BY <1>2, <2>2 DEF CarryOut, TypeOK
    <2> QED
      BY <1>2, <2>3 DEF CarryOut, TypeOK
  <1>3. ASSUME NEW n \in Names, AdminDelete(n) PROVE TypeOK'
    BY <1>3 DEF AdminDelete, TypeOK
  <1>4. CASE UNCHANGED vars
    BY <1>4 DEF vars, TypeOK
  <1> QED
    BY <1>1, <1>2, <1>3, <1>4, ArriveType, HandleType DEF Next

(* TypeOK, of every variable of the schedule requests.                     *)
THEOREM TypeCorrect == Spec => []TypeOK
  BY TypeInit, TypeStep, AtItsCallInit, AtItsCallStep, PTL DEF Spec

-----------------------------------------------------------------------------
(* What a step does to the CronJobs.                                       *)

Created(p) == /\ cronJobs[ResourceName[p]] = Absent
              /\ cronJobs' = [cronJobs EXCEPT ![ResourceName[p]] = Made(p)]
Deleted(n) == cronJobs' = [cronJobs EXCEPT ![n] = Absent]
CronJobsChange ==
    \/ UNCHANGED cronJobs
    \/ \E p \in Pairs : Created(p)
    \/ \E r \in Requests : pc[r] = "delete" /\ answer'[r] = "DELETED" /\ Deleted(Name(r))
    \/ \E c \in late \ late' : c.op = "delete" /\ Deleted(ResourceName[c.pair])
    \/ \E n \in Names : AdminDelete(n)

LEMMA CronJobsStep == TypeOK /\ [Next]_vars => CronJobsChange
  <1> SUFFICES ASSUME TypeOK, [Next]_vars PROVE CronJobsChange
    OBVIOUS
  <1> USE DEF CronJobsChange
  <1>1. ASSUME NEW r \in Requests, Handle(r) PROVE CronJobsChange
    <2>1. CASE Create(r)
      <3>1. Pair(r) \in Pairs
        BY <2>1, CallType DEF Create
      <3> QED
        BY <2>1, <3>1 DEF Create, Created, Name
    <2>2. CASE Delete(r)
      BY <2>2 DEF Delete, Deleted, Answer, TypeOK
    <2> QED
      BY <1>1, <2>1, <2>2 DEF Handle, GetCluster, List, Get, CheckBeforeDelete, Status, Fail
  <1>2. ASSUME NEW c \in late, CarryOut(c) PROVE CronJobsChange
    <2>1. c \in late \ late' /\ c.pair \in Pairs /\ c.op \in {"create", "delete"}
          /\ ResourceName[c.pair] \in Names
      BY <1>2, WriteType DEF CarryOut, TypeOK
    <2>2. CASE c.op = "delete"
      BY <1>2, <2>1, <2>2 DEF CarryOut, Deleted
    <2>3. CASE c.op = "create" /\ cronJobs[ResourceName[c.pair]] = Absent
      BY <1>2, <2>1, <2>3 DEF CarryOut, Created
    <2>4. CASE c.op = "create" /\ cronJobs[ResourceName[c.pair]] # Absent
      BY <1>2, <2>1, <2>4 DEF CarryOut, TypeOK
    <2> QED
      BY <2>1, <2>2, <2>3, <2>4
  <1> QED
    BY <1>1, <1>2 DEF Next, Arrive, Leave, vars

(* A managed CronJob has the name of its pair; a delete that has passed its*)
(* check, or was left behind after it, does not meet a foreign one, since  *)
(* the name has been free or managed ever since.                           *)
ManagedHasItsName == \A n \in Names :
    cronJobs[n] # Absent /\ cronJobs[n].managed =>
        cronJobs[n].pair \in Pairs /\ ResourceName[cronJobs[n].pair] = n
DeletesMeetNoForeign ==
    /\ \A r \in Requests : pc[r] = "delete" => cronJobs[Name(r)] \notin Foreign
    /\ \A c \in late : c.op = "delete" => cronJobs[ResourceName[c.pair]] \notin Foreign

(* No CronJob of others ever has the name of one of the pairs in Own.      *)
OwnIsNotTaken == \A p \in Own : cronJobs[ResourceName[p]] \notin Foreign

NameInv == ManagedHasItsName /\ DeletesMeetNoForeign /\ OwnIsNotTaken

LEMMA FewChanges ==
    ASSUME TypeOK, [Next]_vars, NEW n \in Names
    PROVE  \/ cronJobs'[n] \in {cronJobs[n], Absent}
           \/ /\ cronJobs[n] = Absent
              /\ \E p \in Pairs : ResourceName[p] = n /\ cronJobs'[n] = Made(p)
  <1>1. CronJobsChange
    BY CronJobsStep
  <1>2. ASSUME NEW p \in Pairs, Created(p)
        PROVE  \/ cronJobs'[n] = cronJobs[n]
               \/ cronJobs[n] = Absent /\ ResourceName[p] = n /\ cronJobs'[n] = Made(p)
    BY <1>2 DEF Created, TypeOK
  <1>3. ASSUME NEW m, Deleted(m) PROVE cronJobs'[n] \in {cronJobs[n], Absent}
    BY <1>3 DEF Deleted, TypeOK
  <1>4. ASSUME NEW m \in Names, AdminDelete(m) PROVE cronJobs'[n] \in {cronJobs[n], Absent}
    BY <1>4 DEF AdminDelete, TypeOK
  <1> QED
    BY <1>1, <1>2, <1>3, <1>4 DEF CronJobsChange

LEMMA NoNewForeign ==
    ASSUME TypeOK, [Next]_vars, NEW n \in Names, cronJobs'[n] \in Foreign
    PROVE  cronJobs[n] \in Foreign
  BY FewChanges, MadeType, AbsentAssumption DEF Foreign

LEMMA ManagedStep == TypeOK /\ ManagedHasItsName /\ [Next]_vars => ManagedHasItsName'
  <1> SUFFICES ASSUME TypeOK, ManagedHasItsName, [Next]_vars, NEW n \in Names,
                      cronJobs'[n] # Absent, cronJobs'[n].managed
               PROVE  cronJobs'[n].pair \in Pairs /\ ResourceName[cronJobs'[n].pair] = n
    BY DEF ManagedHasItsName
  <1>1. CASE cronJobs'[n] = cronJobs[n]
    BY <1>1 DEF ManagedHasItsName
  <1>2. ASSUME NEW p \in Pairs, ResourceName[p] = n, cronJobs'[n] = Made(p)
        PROVE  cronJobs'[n].pair \in Pairs /\ ResourceName[cronJobs'[n].pair] = n
    BY <1>2 DEF Made
  <1> QED
    BY <1>1, <1>2, FewChanges

(* A delete request that has passed its check.                             *)
LEMMA CheckedIsNotForeign ==
    ASSUME TypeOK, AtItsCall, DeletesMeetNoForeign, [Next]_vars,
           NEW r \in Requests, pc'[r] = "delete"
    PROVE  cronJobs[Name(r)] \notin Foreign /\ call'[r] = call[r] /\ pc[r] # "idle"
  <1>1. CASE pc[r] = "delete" /\ call'[r] = call[r]
    BY <1>1 DEF DeletesMeetNoForeign
  <1>2. CASE CheckBeforeDelete(r)
    BY <1>2 DEF CheckBeforeDelete, IsDeletable, Answer, Foreign, TypeOK
  <1>3. ASSUME NEW q \in Requests, q # r, Handle(q) \/ Leave(q) \/ \E c \in Calls : Arrive(q, c)
        PROVE  pc'[r] = pc[r] /\ call'[r] = call[r]
    BY <1>3 DEF Handle, GetCluster, Create, List, Get, CheckBeforeDelete, Delete, Status, Fail,
                Leave, Arrive, Goto, Answer, TypeOK
  <1>4. CASE GetCluster(r) \/ Create(r) \/ List(r) \/ Get(r) \/ Delete(r) \/ Status(r)
             \/ Fail(r) \/ Leave(r) \/ \E c \in Calls : Arrive(r, c)
    <2>1. PICK step : pc' = [pc EXCEPT ![r] = step] /\ step # "delete"
      <3>1. CASE GetCluster(r)
        BY <3>1 DEF GetCluster, Goto, Answer
      <3>2. CASE Create(r) \/ List(r) \/ Get(r)
        BY <3>2 DEF Create, List, Get, Goto, Answer
      <3>3. CASE Delete(r) \/ Status(r) \/ Fail(r) \/ Leave(r) \/ \E c \in Calls : Arrive(r, c)
        BY <3>3 DEF Delete, Status, Fail, Leave, Arrive, Goto, Answer
      <3> QED
        BY <1>4, <3>1, <3>2, <3>3
    <2> QED
      BY <2>1 DEF TypeOK
  <1>5. CASE (\E c \in late : CarryOut(c)) \/ (\E n \in Names : AdminDelete(n)) \/ UNCHANGED vars
    BY <1>1, <1>5 DEF CarryOut, AdminDelete, vars
  <1> QED
    BY <1>1, <1>2, <1>3, <1>4, <1>5 DEF Next, Handle

LEMMA LateStep ==
    ASSUME TypeOK, AtItsCall, [Next]_vars, NEW c \in late'
    PROVE  \/ c \in late
           \/ \E r \in Requests : /\ c = call[r] /\ pc[r] \in {"create", "delete"}
                                  /\ c.op = pc[r]
  <1>1. ASSUME NEW r \in Requests, Fail(r)
        PROVE  c \in late \/ (c = call[r] /\ pc[r] \in {"create", "delete"} /\ c.op = pc[r])
    BY <1>1 DEF Fail, AtItsCall
  <1> QED
    BY <1>1 DEF Next, Arrive, Handle, GetCluster, Create, List, Get, CheckBeforeDelete,
                Delete, Status, Leave, CarryOut, AdminDelete, vars

LEMMA DeletesStep ==
    TypeOK /\ AtItsCall /\ DeletesMeetNoForeign /\ [Next]_vars => DeletesMeetNoForeign'
  <1> SUFFICES ASSUME TypeOK, AtItsCall, DeletesMeetNoForeign, [Next]_vars
               PROVE  DeletesMeetNoForeign'
    OBVIOUS
  <1>1. ASSUME NEW r \in Requests, pc'[r] = "delete" PROVE Name(r)' \in Names
                                          /\ cronJobs'[Name(r)'] \notin Foreign
    <2>1. cronJobs[Name(r)] \notin Foreign /\ call'[r] = call[r] /\ Name(r) \in Names
      BY <1>1, CheckedIsNotForeign, CallType
    <2>2. Name(r)' = Name(r)
      BY <2>1 DEF Name, Pair
    <2> QED
      BY <2>1, <2>2, NoNewForeign
  <1>2. ASSUME NEW c \in late', c.op = "delete"
        PROVE  cronJobs'[ResourceName[c.pair]] \notin Foreign
    <2>1. cronJobs[ResourceName[c.pair]] \notin Foreign /\ ResourceName[c.pair] \in Names
      <3>1. CASE c \in late
        BY <1>2, <3>1, WriteType DEF DeletesMeetNoForeign, TypeOK
      <3>2. ASSUME NEW r \in Requests, c = call[r], pc[r] = "delete"
            PROVE  cronJobs[ResourceName[c.pair]] \notin Foreign
                   /\ ResourceName[c.pair] \in Names
        BY <3>2, CallType DEF DeletesMeetNoForeign, Name, Pair
      <3> QED
        BY <1>2, <3>1, <3>2, LateStep
    <2> QED
      BY <2>1, NoNewForeign
  <1> QED
    BY <1>1, <1>2 DEF DeletesMeetNoForeign

LEMMA OwnStep == TypeOK /\ OwnIsNotTaken /\ [Next]_vars => OwnIsNotTaken'
  BY NoNewForeign, NamesAssumption DEF OwnIsNotTaken, Own, Private

LEMMA NameInit == Init => NameInv
  <1>1. Init => ManagedHasItsName /\ DeletesMeetNoForeign
    BY InitialAssumption DEF Init, ManagedHasItsName, DeletesMeetNoForeign, Foreign
  <1>2. Init => OwnIsNotTaken
    BY AbsentAssumption DEF Init, OwnIsNotTaken, Own, Foreign
  <1> QED
    BY <1>1, <1>2 DEF NameInv

LEMMA NameStep == TypeOK /\ AtItsCall /\ NameInv /\ [Next]_vars => NameInv'
  BY ManagedStep, DeletesStep, OwnStep DEF NameInv

(* A CronJob of others is not created over, and no delete meets it.        *)
LEMMA ForeignStep ==
    TypeOK /\ NameInv /\ [Next]_vars =>
    [\A n \in Names : cronJobs[n] \in Foreign => cronJobs'[n] = cronJobs[n]]_vars
  <1> SUFFICES ASSUME TypeOK, NameInv, [Next]_vars, NEW n \in Names, cronJobs[n] \in Foreign
               PROVE  cronJobs'[n] = cronJobs[n]
    OBVIOUS
  <1>1. CronJobsChange /\ cronJobs[n] # Absent
    BY CronJobsStep, AbsentAssumption DEF Foreign
  <1>2. ASSUME NEW p \in Pairs, Created(p) PROVE cronJobs'[n] = cronJobs[n]
    BY <1>1, <1>2 DEF Created, TypeOK
  <1>3. ASSUME NEW m, Deleted(m), cronJobs[m] \notin Foreign PROVE cronJobs'[n] = cronJobs[n]
    BY <1>3 DEF Deleted, TypeOK
  <1>4. ASSUME NEW m \in Names, AdminDelete(m) PROVE cronJobs'[n] = cronJobs[n]
    BY <1>4 DEF AdminDelete, Foreign, TypeOK
  <1> QED
    BY <1>1, <1>2, <1>3, <1>4 DEF CronJobsChange, NameInv, DeletesMeetNoForeign

(* ForeignCronJobsAreKept: whatever the names of the pairs, and however    *)
(* late a delete is carried out.                                           *)
THEOREM ForeignKept == Spec => ForeignCronJobsAreKept
  BY TypeInit, TypeStep, AtItsCallInit, AtItsCallStep, NameInit, NameStep, ForeignStep, PTL
     DEF Spec, ForeignCronJobsAreKept

(* A managed CronJob of a pair with a name of its own is removed for it.   *)
PrivateStays ==
    \A p \in Private :
        cronJobs[ResourceName[p]] = Made(p) /\ cronJobs'[ResourceName[p]] # Made(p) =>
            \/ \E r \in Requests : pc[r] = "delete" /\ Pair(r) = p /\ answer'[r] = "DELETED"
            \/ \E c \in late \ late' : c.op = "delete" /\ c.pair = p
            \/ AdminDelete(ResourceName[p])

LEMMA PrivateStep == TypeOK /\ [Next]_vars => PrivateStays
  <1> SUFFICES ASSUME TypeOK, [Next]_vars, NEW p \in Private,
                      cronJobs[ResourceName[p]] = Made(p),
                      cronJobs'[ResourceName[p]] # Made(p)
               PROVE  \/ \E r \in Requests :
                            pc[r] = "delete" /\ Pair(r) = p /\ answer'[r] = "DELETED"
                      \/ \E c \in late \ late' : c.op = "delete" /\ c.pair = p
                      \/ AdminDelete(ResourceName[p])
    BY DEF PrivateStays
  <1>0. p \in Pairs /\ \A q \in Pairs : ResourceName[q] = ResourceName[p] => q = p
    BY DEF Private
  <1>1. CronJobsChange /\ Made(p) # Absent
    BY <1>0, CronJobsStep, MadeType, AbsentAssumption
  <1>2. ASSUME NEW q \in Pairs, Created(q) PROVE FALSE
    BY <1>1, <1>2 DEF Created, TypeOK
  <1>3. ASSUME NEW m, Deleted(m) PROVE m = ResourceName[p]
    BY <1>3 DEF Deleted, TypeOK
  <1>4. ASSUME NEW r \in Requests, pc[r] = "delete", Deleted(Name(r)) PROVE Pair(r) = p
    BY <1>0, <1>3, <1>4, CallType DEF Name
  <1>5. ASSUME NEW c \in late, Deleted(ResourceName[c.pair]) PROVE c.pair = p
    BY <1>0, <1>3, <1>5, WriteType DEF TypeOK
  <1>6. ASSUME NEW m \in Names, AdminDelete(m) PROVE m = ResourceName[p]
    BY <1>6 DEF AdminDelete, TypeOK
  <1> QED
    BY <1>1, <1>2, <1>4, <1>5, <1>6 DEF CronJobsChange

(* PrivateScheduleIsKept: requests for other schedules leave it alone.     *)
THEOREM PrivateKept == Spec => PrivateScheduleIsKept
  BY TypeInit, TypeStep, AtItsCallInit, AtItsCallStep, PrivateStep, PTL
     DEF Spec, PrivateScheduleIsKept, PrivateStays

-----------------------------------------------------------------------------
(***************************************************************************)
(* The pairs with a name of their own implement ScheduleRegistry.  A       *)
(* request takes effect when it first finds what its answer will say: a    *)
(* read when it reads, a delete that finds nothing when it checks, and a   *)
(* delete that removes something when it deletes, which is then still the  *)
(* schedule that it checked or one made again for the same pair.           *)
(***************************************************************************)

LEMMA OwnType == Own \subseteq Pairs /\ \A p \in Own : ResourceName[p] \in Names
  BY NamesAssumption DEF Own, Private

LEMMA OwnName ==
    ASSUME NEW p \in Own, NEW q \in Pairs, ResourceName[q] = ResourceName[p]
    PROVE  q = p
  BY DEF Own, Private

(* What the place of a private pair says of the CronJob of its name.       *)
LEMMA HeldSays ==
    ASSUME TypeOK, NameInv, NEW p \in Own
    PROVE  LET o == cronJobs[ResourceName[p]] IN
           /\ Held[p] = "absent" <=> o = Absent
           /\ Held[p] = "managed" <=> o = Made(p)
           /\ Held[p] = "managed" <=> (o # Absent /\ o \notin Foreign)
           /\ Held[p] = "managed" <=> IsShown(o, p)
           /\ Held[p] = "managed" <=> IsDeletable(o, p)
           /\ Held[p] \in {"absent", "managed"}
  <1> DEFINE o == cronJobs[ResourceName[p]]
  <1>1. p \in Pairs /\ ResourceName[p] \in Names
    BY OwnType
  <1>2. o \in CronJobs \cup {Absent} /\ Made(p) # Absent /\ Made(p) \in CronJobs
    BY <1>1, MadeType, AbsentAssumption DEF TypeOK
  <1>3. ASSUME o # Absent, o.managed PROVE o = Made(p)
    <2>1. o.pair = p
      BY <1>1, <1>3, OwnName DEF NameInv, ManagedHasItsName
    <2>2. o \in [pair : Pairs \cup {Unlabelled}, managed : BOOLEAN] /\ o.managed = TRUE
      BY <1>2, <1>3 DEF CronJobs
    <2> QED
      BY <2>1, <2>2 DEF Made
  <1>4. Made(p).managed /\ Made(p).pair = p
    BY DEF Made
  <1>5. Held[p] = IF o = Absent THEN "absent" ELSE "managed"
    BY DEF Held
  <1>6. o # Absent => o \notin Foreign /\ o.managed
    BY <1>2 DEF Foreign, NameInv, OwnIsNotTaken
  <1> HIDE DEF o
  <1>7. /\ Held[p] = "absent" <=> o = Absent
        /\ Held[p] = "managed" <=> o = Made(p)
        /\ Held[p] = "managed" <=> (o # Absent /\ o \notin Foreign)
        /\ Held[p] = "managed" <=> IsShown(o, p)
        /\ Held[p] = "managed" <=> IsDeletable(o, p)
        /\ Held[p] \in {"absent", "managed"}
    <2>1. CASE o = Absent
      BY <1>2, <1>5, <2>1 DEF IsShown, IsDeletable
    <2>2. CASE o # Absent /\ o.managed
      BY <1>2, <1>3, <1>4, <1>5, <1>6, <2>2 DEF IsShown, IsDeletable
    <2> QED
      BY <1>6, <2>1, <2>2
  <1> QED
    BY <1>7 DEF o

LEMMA HeldSame == ASSUME UNCHANGED cronJobs PROVE UNCHANGED Held
  BY DEF Held

(* A CronJob of the name of pair p is written: another pair's place stays. *)
LEMMA HeldElsewhere ==
    ASSUME TypeOK, NEW n, NEW o, cronJobs' = [cronJobs EXCEPT ![n] = o],
           NEW p \in Own, ResourceName[p] # n
    PROVE  Held'[p] = Held[p]
  <1>1. cronJobs'[ResourceName[p]] = cronJobs[ResourceName[p]]
    BY OwnType DEF TypeOK
  <1> QED
    BY <1>1 DEF Held

LEMMA HeldWritten ==
    ASSUME TypeOK, NEW p \in Own, NEW o \in {Absent, Made(p)},
           cronJobs' = [cronJobs EXCEPT ![ResourceName[p]] = o]
    PROVE  Held' = [Held EXCEPT ![p] = IF o = Absent THEN "absent" ELSE "managed"]
  <1> DEFINE v == IF o = Absent THEN "absent" ELSE "managed"
  <1>1. cronJobs'[ResourceName[p]] = o /\ p \in Pairs
    BY OwnType DEF TypeOK
  <1>2. Made(p) # Absent /\ Made(p).managed
    BY <1>1, MadeType, AbsentAssumption DEF Made
  <1>3. Held'[p] = v
    BY <1>1, <1>2 DEF Held
  <1>4. \A q \in Own : q # p => Held'[q] = Held[q]
    <2> SUFFICES ASSUME NEW q \in Own, q # p PROVE Held'[q] = Held[q]
      OBVIOUS
    <2>1. ResourceName[q] # ResourceName[p]
      BY <1>1, OwnName, OwnType
    <2> QED
      BY <2>1, HeldElsewhere
  <1>5. Held = [q \in Own |-> Held[q]] /\ Held' = [q \in Own |-> Held'[q]]
    BY DEF Held
  <1> HIDE DEF v
  <1>6. Held' = [Held EXCEPT ![p] = v]
    BY <1>3, <1>4, <1>5
  <1> QED
    BY <1>6 DEF v

(* A pair that shares its name has no place in the registry.               *)
LEMMA HeldUntouched ==
    ASSUME TypeOK, NEW n, NEW o, cronJobs' = [cronJobs EXCEPT ![n] = o],
           \A p \in Own : ResourceName[p] # n
    PROVE  UNCHANGED Held
  <1>1. \A p \in Own : Held'[p] = Held[p]
    BY HeldElsewhere
  <1>2. Held = [q \in Own |-> Held[q]] /\ Held' = [q \in Own |-> Held'[q]]
    BY DEF Held
  <1> QED
    BY <1>1, <1>2

-----------------------------------------------------------------------------
(* The requests of the registry.                                           *)

LEMMA RequestSame ==
    ASSUME NEW q \in Requests,
           pc'[q] = pc[q], call'[q] = call[q], answer'[q] = answer[q], read'[q] = read[q]
    PROVE  /\ RegistryCall'[q] = RegistryCall[q] /\ RegistryResult'[q] = RegistryResult[q]
           /\ RegistryListed'[q] = RegistryListed[q]
  BY DEF RegistryCall, RegistryResult, RegistryListed, Result, InRegistry, Pair

LEMMA RegistryFunctions ==
    /\ RegistryCall = [q \in Requests |-> RegistryCall[q]]
    /\ RegistryResult = [q \in Requests |-> RegistryResult[q]]
    /\ RegistryListed = [q \in Requests |-> RegistryListed[q]]
  BY DEF RegistryCall, RegistryResult, RegistryListed

LEMMA RegistryFunctionsNext ==
    /\ RegistryCall' = [q \in Requests |-> RegistryCall'[q]]
    /\ RegistryResult' = [q \in Requests |-> RegistryResult'[q]]
    /\ RegistryListed' = [q \in Requests |-> RegistryListed'[q]]
  BY DEF RegistryCall, RegistryResult, RegistryListed

OnlyRequest(r) == \A q \in Requests : q # r =>
    pc'[q] = pc[q] /\ call'[q] = call[q] /\ answer'[q] = answer[q] /\ read'[q] = read[q]

LEMMA RegistryMoves ==
    ASSUME NEW r \in Requests, OnlyRequest(r)
    PROVE  /\ \A v : RegistryCall'[r] = v => RegistryCall' = [RegistryCall EXCEPT ![r] = v]
           /\ \A v : RegistryResult'[r] = v => RegistryResult' = [RegistryResult EXCEPT ![r] = v]
           /\ \A v : RegistryListed'[r] = v => RegistryListed' = [RegistryListed EXCEPT ![r] = v]
           /\ RegistryCall'[r] = RegistryCall[r] => UNCHANGED RegistryCall
           /\ RegistryResult'[r] = RegistryResult[r] => UNCHANGED RegistryResult
           /\ RegistryListed'[r] = RegistryListed[r] => UNCHANGED RegistryListed
  <1>1. \A q \in Requests : q # r =>
          /\ RegistryCall'[q] = RegistryCall[q] /\ RegistryResult'[q] = RegistryResult[q]
          /\ RegistryListed'[q] = RegistryListed[q]
    BY RequestSame DEF OnlyRequest
  <1> QED
    BY <1>1, RegistryFunctions, RegistryFunctionsNext

Open == {"cluster", "create", "list", "get", "delete"}
ResultOfAnswer(a) ==
    IF a = "BACKUP_SCHEDULE_ALREADY_EXISTS" THEN "EXISTS"
    ELSE IF a = "BACKUP_SCHEDULE_NOT_FOUND" THEN "NOT_FOUND"
    ELSE IF a \in {"ACCEPTED", "LISTED", "SHOWN", "DELETED"} THEN a ELSE "ERROR"

LEMMA ResultNow ==
    ASSUME NEW r \in Requests
    PROVE  /\ ~InRegistry(r) => RegistryResult[r] = "idle"
           /\ InRegistry(r) /\ pc[r] \in Open => RegistryResult[r] = "open"
           /\ InRegistry(r) /\ pc[r] = "status" => RegistryResult[r] = ResultOf(call[r].op)
           /\ InRegistry(r) /\ pc[r] = "over" => RegistryResult[r] = ResultOfAnswer(answer[r])
  BY DEF RegistryResult, Result, Open, ResultOfAnswer

LEMMA ResultNext ==
    ASSUME NEW r \in Requests
    PROVE  /\ ~InRegistry(r)' => RegistryResult'[r] = "idle"
           /\ InRegistry(r)' /\ pc'[r] \in Open => RegistryResult'[r] = "open"
           /\ InRegistry(r)' /\ pc'[r] = "status" => RegistryResult'[r] = ResultOf(call'[r].op)
           /\ InRegistry(r)' /\ pc'[r] = "over" => RegistryResult'[r] = ResultOfAnswer(answer'[r])
  BY DEF RegistryResult, Result, Open, ResultOfAnswer

(* A handler goes on with its request: what the registry sees of it.       *)
Working(r) == /\ OnlyRequest(r) /\ pc[r] # "idle" /\ pc'[r] # "idle"
              /\ UNCHANGED call

LEMMA WorkingMoves ==
    ASSUME TypeOK, NEW r \in Requests, Working(r)
    PROVE  /\ UNCHANGED RegistryCall /\ (InRegistry(r)' <=> InRegistry(r))
           /\ ~InRegistry(r) => UNCHANGED <<RegistryResult, RegistryListed>>
           /\ call[r].op # "list" => UNCHANGED RegistryListed
           /\ UNCHANGED read => UNCHANGED RegistryListed
           /\ InRegistry(r) => RegistryCall[r] = call[r] /\ RegistryCall[r] # NoCall
           /\ InRegistry(r) /\ call[r].op # "list" => Pair(r) \in Own
  <1>1. (InRegistry(r)' <=> InRegistry(r)) /\ call[r] # NoCall
    BY DEF Working, InRegistry, Pair, TypeOK
  <1>2. UNCHANGED RegistryCall
    <2>1. RegistryCall'[r] = RegistryCall[r]
      BY <1>1 DEF RegistryCall, Working
    <2> QED
      BY <2>1, RegistryMoves DEF Working
  <1>3. ~InRegistry(r) => UNCHANGED RegistryResult
    BY <1>1, ResultNow, ResultNext, RegistryMoves DEF Working
  <1>4. (~InRegistry(r) \/ call[r].op # "list" \/ UNCHANGED read) => UNCHANGED RegistryListed
    <2>1. (~InRegistry(r) \/ call[r].op # "list" \/ UNCHANGED read)
             => RegistryListed'[r] = RegistryListed[r]
      BY <1>1 DEF RegistryListed, Working
    <2> QED
      BY <2>1, RegistryMoves DEF Working
  <1>5. InRegistry(r) => RegistryCall[r] = call[r]
    BY DEF RegistryCall
  <1> QED
    BY <1>1, <1>2, <1>3, <1>4, <1>5 DEF InRegistry

LEMMA HandleWorks ==
    ASSUME TypeOK, NEW r \in Requests, Handle(r)
    PROVE  Working(r)
  <1>1. pc[r] # "idle" /\ UNCHANGED call
    BY DEF Handle, GetCluster, Create, List, Get, CheckBeforeDelete, Delete, Status, Fail
  <1>2. \E step : step # "idle" /\ pc' = [pc EXCEPT ![r] = step]
    <2>1. CASE GetCluster(r)
      <3>1. call[r].op # "idle"
        BY <1>1, CallType
      <3> QED
        BY <2>1, <3>1 DEF GetCluster, Goto, Answer
    <2> QED
      BY <2>1 DEF Handle, Create, List, Get, CheckBeforeDelete, Delete, Status, Fail, Goto, Answer
  <1>3. \A q \in Requests : q # r => answer'[q] = answer[q] /\ read'[q] = read[q]
    BY DEF Handle, GetCluster, Create, List, Get, CheckBeforeDelete, Delete, Status, Fail,
           Goto, Answer, TypeOK
  <1> QED
    BY <1>1, <1>2, <1>3 DEF Working, OnlyRequest, TypeOK

Loose == UNCHANGED RegistryLoose
LEMMA LooseSame == ASSUME UNCHANGED late PROVE Loose
  BY DEF RegistryLoose, Loose

RegistryStep == Registry!Next \/ UNCHANGED Registry!vars

(* A request that the registry does not see, or nothing that it sees.      *)
LEMMA WorkingUnseen ==
    ASSUME TypeOK, NEW r \in Requests, Working(r), UNCHANGED Held, UNCHANGED RegistryLoose,
           ~InRegistry(r) \/ (UNCHANGED RegistryListed /\ RegistryResult'[r] = RegistryResult[r])
    PROVE  RegistryStep
  <1>1. UNCHANGED RegistryResult
    BY WorkingMoves, RegistryMoves DEF Working
  <1> QED
    BY <1>1, WorkingMoves DEF RegistryStep, Registry!vars

LEMMA RefineGetCluster ==
    ASSUME TypeOK, NEW r \in Requests, GetCluster(r)
    PROVE  RegistryStep
  <1>1. Working(r) /\ UNCHANGED Held /\ UNCHANGED RegistryLoose /\ UNCHANGED RegistryListed
    BY HandleWorks, HeldSame, LooseSame, WorkingMoves DEF Handle, GetCluster, Loose
  <1>2. CASE ~InRegistry(r)
    BY <1>1, <1>2, WorkingUnseen
  <1>3. ASSUME InRegistry(r), NEW step \in {"create", "list", "get"}, Goto(r, step)
        PROVE  RegistryStep
    <2>1. pc[r] \in Open /\ pc'[r] \in Open
      BY <1>3 DEF GetCluster, Goto, Open, TypeOK
    <2>2. RegistryResult'[r] = RegistryResult[r]
      BY <1>1, <1>3, <2>1, WorkingMoves, ResultNow, ResultNext
    <2> QED
      BY <1>1, <2>2, WorkingUnseen
  <1>4. ASSUME InRegistry(r),
               NEW a \in {"REJECTED", "KUBERNETES_API_ERROR", "VALIDATION_ERROR"}, Answer(r, a)
        PROVE  RegistryStep
    <2>1. pc'[r] = "over" /\ answer'[r] = a
      BY <1>4 DEF Answer, TypeOK
    <2>2. RegistryResult'[r] = "ERROR"
      BY <1>1, <1>4, <2>1, WorkingMoves, ResultNext DEF ResultOfAnswer
    <2>3. RegistryResult' = [RegistryResult EXCEPT ![r] = "ERROR"]
      BY <1>1, <2>2, RegistryMoves DEF Working
    <2>4. Registry!Fail(r)
      BY <1>1, <1>4, <2>3, WorkingMoves DEF Registry!Fail
    <2> QED
      BY <2>4 DEF RegistryStep, Registry!Next
  <1>5. call[r].op \in {"create", "list", "get", "delete"}
    BY CallType DEF GetCluster
  <1>6. \/ \E step \in {"create", "list", "get"} : Goto(r, step)
        \/ \E a \in {"REJECTED", "KUBERNETES_API_ERROR", "VALIDATION_ERROR"} : Answer(r, a)
    BY <1>5 DEF GetCluster
  <1> QED
    BY <1>2, <1>3, <1>4, <1>6

(* A request that is open in the registry takes effect: its result is v.   *)
LEMMA Decides ==
    ASSUME TypeOK, NEW r \in Requests, Working(r), InRegistry(r), pc[r] \in Open,
           UNCHANGED RegistryLoose, NEW v, RegistryResult'[r] = v
    PROVE  Registry!Open(r, call[r].op) /\ Registry!Decide(r, v)
           /\ RegistryCall[r] = call[r]
  <1>1. RegistryResult' = [RegistryResult EXCEPT ![r] = v]
    BY RegistryMoves DEF Working
  <1>2. RegistryResult[r] = "open"
    BY ResultNow
  <1> QED
    BY <1>1, <1>2, WorkingMoves DEF Registry!Open, Registry!Decide

LEMMA RefineCreate ==
    ASSUME TypeOK, AtItsCall, NameInv, NEW r \in Requests, Create(r)
    PROVE  RegistryStep
  <1>1. Working(r) /\ call[r].op = "create" /\ pc[r] \in Open /\ UNCHANGED RegistryLoose
    BY HandleWorks, LooseSame DEF Handle, Create, AtItsCall, Open, Loose
  <1>2. UNCHANGED RegistryListed
    BY <1>1, WorkingMoves
  <1>3. Pair(r) \in Pairs /\ Name(r) = ResourceName[Pair(r)] /\ Name(r) \in Names
    BY CallType DEF Create, Name
  <1>4. CASE ~InRegistry(r)
    <2>1. Pair(r) \notin Own
      BY <1>4 DEF InRegistry, Create
    <2>2. \A p \in Own : ResourceName[p] # Name(r)
      BY <1>3, <2>1, OwnName
    <2>3. UNCHANGED Held
      BY <2>2, HeldSame, HeldUntouched DEF Create
    <2> QED
      BY <1>1, <1>4, <2>3, WorkingUnseen
  <1>5. ASSUME InRegistry(r), cronJobs[Name(r)] = Absent,
               cronJobs' = [cronJobs EXCEPT ![Name(r)] = Made(Pair(r))], Goto(r, "status")
        PROVE  RegistryStep
    <2>1. Pair(r) \in Own
      BY <1>1, <1>5, WorkingMoves
    <2>2. pc'[r] = "status" /\ call'[r] = call[r]
      BY <1>1, <1>5 DEF Goto, TypeOK, Working
    <2>3. RegistryResult'[r] = "ACCEPTED"
      BY <1>1, <1>5, <2>2, WorkingMoves, ResultNext DEF ResultOf
    <2>4. Registry!Open(r, "create") /\ Registry!Decide(r, "ACCEPTED") /\ RegistryCall[r] = call[r]
      BY <1>1, <1>5, <2>3, Decides
    <2>5. Held[Pair(r)] = "absent"
      BY <1>3, <1>5, <2>1, HeldSays
    <2>6. Made(Pair(r)) # Absent
      BY <1>3, MadeType, AbsentAssumption
    <2>7. Held' = [Held EXCEPT ![Pair(r)] = "managed"]
      BY <1>3, <1>5, <2>1, <2>6, HeldWritten
    <2>8. Registry!Create(r)
      BY <1>2, <2>4, <2>5, <2>7 DEF Registry!Create, Pair
    <2> QED
      BY <2>8 DEF RegistryStep, Registry!Next
  <1>6. ASSUME InRegistry(r), cronJobs[Name(r)] # Absent,
               Answer(r, "BACKUP_SCHEDULE_ALREADY_EXISTS"), UNCHANGED cronJobs
        PROVE  RegistryStep
    <2>1. Pair(r) \in Own
      BY <1>1, <1>6, WorkingMoves
    <2>2. pc'[r] = "over" /\ answer'[r] = "BACKUP_SCHEDULE_ALREADY_EXISTS"
      BY <1>6 DEF Answer, TypeOK
    <2>3. RegistryResult'[r] = "EXISTS"
      BY <1>1, <1>6, <2>2, WorkingMoves, ResultNext DEF ResultOfAnswer
    <2>4. Registry!Open(r, "create") /\ Registry!Decide(r, "EXISTS") /\ RegistryCall[r] = call[r]
      BY <1>1, <1>6, <2>3, Decides
    <2>5. Held[Pair(r)] # "absent" /\ UNCHANGED Held
      BY <1>3, <1>6, <2>1, HeldSays, HeldSame
    <2>6. Registry!Create(r)
      BY <1>2, <2>4, <2>5 DEF Registry!Create, Pair
    <2> QED
      BY <2>6 DEF RegistryStep, Registry!Next
  <1> QED
    BY <1>4, <1>5, <1>6 DEF Create

(* The list of a cluster has the private pairs whose place is managed.     *)
LEMMA ListedIsHeld ==
    ASSUME TypeOK, NameInv, NEW c
    PROVE  {o.pair : o \in Listed(c)} \cap Own
             = {p \in Own : p[1] = c /\ Held[p] = "managed"}
  <1>1. ASSUME NEW o \in Listed(c), o.pair \in Own
        PROVE  o.pair[1] = c /\ Held[o.pair] = "managed"
    <2>1. PICK n \in Names : o = cronJobs[n]
      BY DEF Listed
    <2>2. o # Absent /\ o.managed /\ o.pair[1] = c
      BY DEF Listed
    <2>3. ResourceName[o.pair] = n
      BY <2>1, <2>2 DEF NameInv, ManagedHasItsName
    <2>4. o \notin Foreign
      BY <2>2 DEF Foreign
    <2> QED
      BY <1>1, <2>1, <2>2, <2>3, <2>4, HeldSays
  <1>2. ASSUME NEW p \in Own, p[1] = c, Held[p] = "managed"
        PROVE  \E o \in Listed(c) : p = o.pair
    <2>1. cronJobs[ResourceName[p]] = Made(p) /\ p \in Pairs /\ ResourceName[p] \in Names
      BY <1>2, HeldSays, OwnType
    <2>2. Made(p) # Absent /\ Made(p).managed /\ Made(p).pair = p
      BY <2>1, MadeType, AbsentAssumption DEF Made
    <2>3. Made(p) \in Listed(c)
      BY <1>2, <2>1, <2>2 DEF Listed
    <2> QED
      BY <2>2, <2>3
  <1> QED
    BY <1>1, <1>2

LEMMA RefineList ==
    ASSUME TypeOK, AtItsCall, NameInv, NEW r \in Requests, List(r)
    PROVE  RegistryStep
  <1> DEFINE found == {p \in Own : p[1] = call[r].pair[1] /\ Held[p] = "managed"}
  <1>1. Working(r) /\ call[r].op = "list" /\ pc[r] \in Open
        /\ UNCHANGED RegistryLoose /\ UNCHANGED Held
    BY HandleWorks, LooseSame, HeldSame DEF Handle, List, AtItsCall, Open, Loose
  <1>2. InRegistry(r)
    BY <1>1 DEF InRegistry, Working
  <1>3. pc'[r] = "status" /\ call'[r] = call[r] /\ read'[r] = Listed(call[r].pair[1])
    BY <1>1 DEF List, Goto, TypeOK, Working, Pair
  <1>4. RegistryResult'[r] = "LISTED"
    BY <1>1, <1>2, <1>3, WorkingMoves, ResultNext DEF ResultOf
  <1>5. Registry!Open(r, "list") /\ Registry!Decide(r, "LISTED") /\ RegistryCall[r] = call[r]
    BY <1>1, <1>2, <1>4, Decides
  <1>6. InRegistry(r)'
    BY <1>1, <1>2, WorkingMoves
  <1>7. RegistryListed'[r] = {o.pair : o \in Listed(call[r].pair[1])} \cap Own
    BY <1>1, <1>3, <1>6 DEF RegistryListed
  <1>8. RegistryListed'[r] = found
    BY <1>7, ListedIsHeld
  <1> HIDE DEF found
  <1>9. RegistryListed' = [RegistryListed EXCEPT ![r] = found]
    BY <1>1, <1>8, RegistryMoves DEF Working
  <1>10. Registry!List(r)
    BY <1>1, <1>5, <1>9 DEF Registry!List, found
  <1> QED
    BY <1>10 DEF RegistryStep, Registry!Next

LEMMA RefineGet ==
    ASSUME TypeOK, AtItsCall, NameInv, NEW r \in Requests, Get(r)
    PROVE  RegistryStep
  <1>1. Working(r) /\ call[r].op = "get" /\ pc[r] \in Open
        /\ UNCHANGED RegistryLoose /\ UNCHANGED Held
    BY HandleWorks, LooseSame, HeldSame DEF Handle, Get, Open, Loose
  <1>2. UNCHANGED RegistryListed
    BY <1>1, WorkingMoves
  <1>3. CASE ~InRegistry(r)
    BY <1>1, <1>3, WorkingUnseen
  <1>4. ASSUME InRegistry(r) PROVE Pair(r) \in Own /\ Name(r) = ResourceName[Pair(r)]
    BY <1>1, <1>4, WorkingMoves DEF Name
  <1>5. ASSUME InRegistry(r), IsShown(cronJobs[Name(r)], Pair(r)), Goto(r, "status")
        PROVE  RegistryStep
    <2>1. pc'[r] = "status" /\ call'[r] = call[r]
      BY <1>1, <1>5 DEF Goto, TypeOK, Working
    <2>2. RegistryResult'[r] = "SHOWN"
      BY <1>1, <1>5, <2>1, WorkingMoves, ResultNext DEF ResultOf
    <2>3. Registry!Open(r, "get") /\ Registry!Decide(r, "SHOWN") /\ RegistryCall[r] = call[r]
      BY <1>1, <1>5, <2>2, Decides
    <2>4. Held[Pair(r)] \in {"managed"}
      BY <1>4, <1>5, HeldSays
    <2>5. Registry!Get(r)
      BY <1>1, <1>2, <2>3, <2>4 DEF Registry!Get, Pair
    <2> QED
      BY <2>5 DEF RegistryStep, Registry!Next
  <1>6. ASSUME InRegistry(r), ~IsShown(cronJobs[Name(r)], Pair(r)),
               Answer(r, "BACKUP_SCHEDULE_NOT_FOUND")
        PROVE  RegistryStep
    <2>1. pc'[r] = "over" /\ answer'[r] = "BACKUP_SCHEDULE_NOT_FOUND"
      BY <1>6 DEF Answer, TypeOK
    <2>2. RegistryResult'[r] = "NOT_FOUND"
      BY <1>1, <1>6, <2>1, WorkingMoves, ResultNext DEF ResultOfAnswer
    <2>3. Registry!Open(r, "get") /\ Registry!Decide(r, "NOT_FOUND") /\ RegistryCall[r] = call[r]
      BY <1>1, <1>6, <2>2, Decides
    <2>4. Held[Pair(r)] \in {"absent"}
      BY <1>4, <1>6, HeldSays
    <2>5. Registry!Get(r)
      BY <1>1, <1>2, <2>3, <2>4 DEF Registry!Get, Pair
    <2> QED
      BY <2>5 DEF RegistryStep, Registry!Next
  <1> QED
    BY <1>3, <1>5, <1>6 DEF Get

(* A delete that finds nothing takes effect where it finds it.             *)
LEMMA NotFound ==
    ASSUME TypeOK, NEW r \in Requests, Working(r), InRegistry(r), pc[r] \in Open,
           call[r].op = "delete", UNCHANGED <<RegistryLoose, Held>>,
           Held[Pair(r)] # "managed", Answer(r, "BACKUP_SCHEDULE_NOT_FOUND")
    PROVE  RegistryStep
  <1>1. pc'[r] = "over" /\ answer'[r] = "BACKUP_SCHEDULE_NOT_FOUND"
    BY DEF Answer, TypeOK
  <1>2. RegistryResult'[r] = "NOT_FOUND"
    BY <1>1, WorkingMoves, ResultNext DEF ResultOfAnswer
  <1>3. Registry!Open(r, "delete") /\ Registry!Decide(r, "NOT_FOUND") /\ RegistryCall[r] = call[r]
    BY <1>2, Decides
  <1>4. UNCHANGED RegistryListed
    BY WorkingMoves
  <1>5. Registry!Delete(r)
    BY <1>3, <1>4 DEF Registry!Delete, Pair
  <1> QED
    BY <1>5 DEF RegistryStep, Registry!Next

LEMMA RefineCheck ==
    ASSUME TypeOK, NameInv, NEW r \in Requests, CheckBeforeDelete(r)
    PROVE  RegistryStep
  <1>1. Working(r) /\ call[r].op = "delete" /\ pc[r] \in Open
        /\ UNCHANGED <<RegistryLoose, Held>>
    BY HandleWorks, LooseSame, HeldSame DEF Handle, CheckBeforeDelete, Open, Loose
  <1>2. CASE ~InRegistry(r)
    BY <1>1, <1>2, WorkingUnseen
  <1>3. ASSUME InRegistry(r), Goto(r, "delete") PROVE RegistryStep
    <2>1. pc'[r] \in Open
      BY <1>3 DEF Goto, Open, TypeOK
    <2>2. RegistryResult'[r] = RegistryResult[r] /\ UNCHANGED RegistryListed
      BY <1>1, <1>3, <2>1, WorkingMoves, ResultNow, ResultNext
    <2> QED
      BY <1>1, <2>2, WorkingUnseen
  <1>4. ASSUME InRegistry(r), ~IsDeletable(cronJobs[Name(r)], Pair(r)),
               Answer(r, "BACKUP_SCHEDULE_NOT_FOUND")
        PROVE  RegistryStep
    <2>1. Pair(r) \in Own /\ Name(r) = ResourceName[Pair(r)]
      BY <1>1, <1>4, WorkingMoves DEF Name
    <2>2. Held[Pair(r)] # "managed"
      BY <1>4, <2>1, HeldSays
    <2> QED
      BY <1>1, <1>4, <2>2, NotFound
  <1> QED
    BY <1>2, <1>3, <1>4 DEF CheckBeforeDelete

LEMMA RefineDelete ==
    ASSUME TypeOK, AtItsCall, NameInv, NEW r \in Requests, Delete(r)
    PROVE  RegistryStep
  <1>1. Working(r) /\ call[r].op = "delete" /\ pc[r] \in Open /\ UNCHANGED RegistryLoose
    BY HandleWorks, LooseSame DEF Handle, Delete, AtItsCall, Open, Loose
  <1>2. UNCHANGED RegistryListed
    BY <1>1, WorkingMoves
  <1>3. /\ Pair(r) \in Pairs /\ Name(r) = ResourceName[Pair(r)]
        /\ cronJobs[Name(r)] \notin Foreign
    BY CallType DEF Delete, Name, NameInv, DeletesMeetNoForeign
  <1>4. CASE ~InRegistry(r)
    <2>1. Pair(r) \notin Own
      BY <1>4 DEF InRegistry, Delete
    <2>2. \A p \in Own : ResourceName[p] # Name(r)
      BY <1>3, <2>1, OwnName
    <2>3. UNCHANGED Held
      BY <2>2, HeldSame, HeldUntouched DEF Delete
    <2> QED
      BY <1>1, <1>4, <2>3, WorkingUnseen
  <1>5. ASSUME InRegistry(r), cronJobs[Name(r)] # Absent,
               cronJobs' = [cronJobs EXCEPT ![Name(r)] = Absent], Answer(r, "DELETED")
        PROVE  RegistryStep
    <2>1. Pair(r) \in Own
      BY <1>1, <1>5, WorkingMoves
    <2>2. pc'[r] = "over" /\ answer'[r] = "DELETED"
      BY <1>5 DEF Answer, TypeOK
    <2>3. RegistryResult'[r] = "DELETED"
      BY <1>1, <1>5, <2>2, WorkingMoves, ResultNext DEF ResultOfAnswer
    <2>4. Registry!Open(r, "delete") /\ Registry!Decide(r, "DELETED") /\ RegistryCall[r] = call[r]
      BY <1>1, <1>5, <2>3, Decides
    <2>5. Held[Pair(r)] = "managed"
      BY <1>3, <1>5, <2>1, HeldSays DEF NameInv
    <2>6. Held' = [Held EXCEPT ![Pair(r)] = "absent"]
      BY <1>3, <1>5, <2>1, HeldWritten
    <2>7. Registry!Delete(r)
      BY <1>2, <2>4, <2>5, <2>6 DEF Registry!Delete, Pair
    <2> QED
      BY <2>7 DEF RegistryStep, Registry!Next
  <1>6. ASSUME InRegistry(r), cronJobs[Name(r)] = Absent, UNCHANGED cronJobs,
               Answer(r, "BACKUP_SCHEDULE_NOT_FOUND")
        PROVE  RegistryStep
    <2>1. Pair(r) \in Own /\ UNCHANGED Held
      BY <1>1, <1>6, WorkingMoves, HeldSame
    <2>2. Held[Pair(r)] # "managed"
      BY <1>3, <1>6, <2>1, HeldSays DEF NameInv
    <2> QED
      BY <1>1, <1>6, <2>1, <2>2, NotFound
  <1> QED
    BY <1>4, <1>5, <1>6 DEF Delete

LEMMA RefineStatus ==
    ASSUME TypeOK, AtItsCall, NEW r \in Requests, Status(r)
    PROVE  RegistryStep
  <1>1. Working(r) /\ UNCHANGED RegistryLoose /\ UNCHANGED Held /\ UNCHANGED RegistryListed
    BY HandleWorks, LooseSame, HeldSame, WorkingMoves DEF Handle, Status, Loose
  <1>2. CASE ~InRegistry(r)
    BY <1>1, <1>2, WorkingUnseen
  <1>3. CASE InRegistry(r)
    <2>1. pc[r] = "status" /\ call[r].op \in {"create", "list", "get"}
          /\ pc'[r] = "over" /\ answer'[r] = ResultOf(call[r].op)
      BY DEF Status, AtItsCall, Answer, TypeOK, ResultOf
    <2>2. RegistryResult'[r] = ResultOfAnswer(ResultOf(call[r].op))
          /\ RegistryResult[r] = ResultOf(call[r].op)
      BY <1>1, <1>3, <2>1, WorkingMoves, ResultNow, ResultNext
    <2>3. RegistryResult'[r] = RegistryResult[r]
      BY <2>2 DEF ResultOf, ResultOfAnswer
    <2> QED
      BY <1>1, <2>3, WorkingUnseen
  <1> QED
    BY <1>2, <1>3

(* Whatever had been decided: the client is told of an error.              *)
LEMMA RefineFail ==
    ASSUME TypeOK, AtItsCall, NEW r \in Requests, Fail(r)
    PROVE  RegistryStep
  <1>1. Working(r) /\ UNCHANGED Held /\ UNCHANGED RegistryListed
    BY HandleWorks, HeldSame, WorkingMoves DEF Handle, Fail
  <1>2. RegistryLoose' = RegistryLoose
        \/ (pc[r] \in {"create", "delete"} /\ late' = late \cup {call[r]})
    BY LooseSame DEF Fail, Loose
  <1>3. ASSUME pc[r] \in {"create", "delete"}, late' = late \cup {call[r]}
        PROVE  IF InRegistry(r) THEN RegistryLoose' = RegistryLoose \cup {call[r]}
               ELSE UNCHANGED RegistryLoose
    <2>1. call[r].op # "list" /\ (InRegistry(r) <=> call[r].pair \in Own)
      BY <1>3 DEF AtItsCall, InRegistry, Pair
    <2> QED
      BY <1>3, <2>1 DEF RegistryLoose
  <1>4. CASE ~InRegistry(r)
    BY <1>1, <1>2, <1>3, <1>4, WorkingUnseen
  <1>5. CASE InRegistry(r)
    <2>1. pc'[r] = "over" /\ answer'[r] = "KUBERNETES_API_ERROR"
      BY DEF Fail, Answer, TypeOK
    <2>2. RegistryResult'[r] = "ERROR"
      BY <1>1, <1>5, <2>1, WorkingMoves, ResultNext DEF ResultOfAnswer
    <2>3. RegistryResult' = [RegistryResult EXCEPT ![r] = "ERROR"]
      BY <1>1, <2>2, RegistryMoves DEF Working
    <2>4. pc[r] \in {"create", "delete"} =>
              RegistryResult[r] = "open" /\ call[r].op \in {"create", "delete"}
      BY <1>5, ResultNow DEF Open, AtItsCall
    <2>5. Registry!Fail(r)
      BY <1>1, <1>2, <1>3, <1>5, <2>3, <2>4, WorkingMoves DEF Registry!Fail
    <2> QED
      BY <2>5 DEF RegistryStep, Registry!Next
  <1> QED
    BY <1>4, <1>5

-----------------------------------------------------------------------------
IdleHasNotRead == \A r \in Requests : pc[r] = "idle" => read[r] = {}

LEMMA IdleInit == Init => IdleHasNotRead
  BY DEF Init, IdleHasNotRead

LEMMA IdleStep == TypeOK /\ IdleHasNotRead /\ [Next]_vars => IdleHasNotRead'
  <1> SUFFICES ASSUME TypeOK, IdleHasNotRead, [Next]_vars PROVE IdleHasNotRead'
    OBVIOUS
  <1>1. ASSUME NEW r \in Requests, Handle(r) PROVE IdleHasNotRead'
    <2>1. Working(r)
      BY <1>1, HandleWorks
    <2> QED
      BY <2>1 DEF Working, OnlyRequest, IdleHasNotRead
  <1>2. ASSUME NEW r \in Requests, Leave(r) \/ \E c \in Calls : Arrive(r, c)
        PROVE  IdleHasNotRead'
    BY <1>2 DEF Leave, Arrive, Goto, IdleHasNotRead, TypeOK
  <1>3. CASE (\E c \in late : CarryOut(c)) \/ (\E n \in Names : AdminDelete(n)) \/ UNCHANGED vars
    BY <1>3 DEF CarryOut, AdminDelete, vars, IdleHasNotRead
  <1> QED
    BY <1>1, <1>2, <1>3 DEF Next

LEMMA RefineArrive ==
    ASSUME TypeOK, IdleHasNotRead, NEW r \in Requests, NEW c \in Calls, Arrive(r, c)
    PROVE  RegistryStep
  <1>1. /\ OnlyRequest(r) /\ pc[r] = "idle" /\ pc'[r] = "cluster" /\ call'[r] = c
        /\ UNCHANGED <<Held, RegistryLoose>>
    BY HeldSame, LooseSame DEF Arrive, Goto, OnlyRequest, TypeOK, Loose
  <1>2. ~InRegistry(r) /\ (InRegistry(r)' <=> c.op = "list" \/ c.pair \in Own)
    BY <1>1 DEF InRegistry, Pair
  <1>3. read' = read /\ RegistryCall[r] = NoCall /\ RegistryResult[r] = "idle"
        /\ RegistryListed[r] = {}
    BY <1>2, ResultNow DEF Arrive, RegistryCall, RegistryListed
  <1>4. CASE ~InRegistry(r)'
    <2>1. RegistryCall'[r] = NoCall /\ RegistryResult'[r] = "idle" /\ RegistryListed'[r] = {}
      BY <1>4, ResultNext DEF RegistryCall, RegistryListed
    <2> QED
      BY <1>1, <1>3, <2>1, RegistryMoves DEF RegistryStep, Registry!vars
  <1>5. CASE InRegistry(r)'
    <2>1. RegistryCall'[r] = c /\ RegistryResult'[r] = "open"
      BY <1>1, <1>5, ResultNext DEF RegistryCall, Open
    <2>2. RegistryListed'[r] = {}
      <3>1. read[r] = {}
        BY <1>1 DEF IdleHasNotRead
      <3> QED
        BY <1>3, <3>1 DEF RegistryListed
    <2>3. c \in RegistryCalls
      BY <1>2, <1>5 DEF RegistryCalls
    <2>4. Registry!Call(r)
      BY <1>1, <1>3, <2>1, <2>2, <2>3, RegistryMoves DEF Registry!Call
    <2> QED
      BY <2>4 DEF RegistryStep, Registry!Next
  <1> QED
    BY <1>4, <1>5

LEMMA RefineLeave ==
    ASSUME TypeOK, NEW r \in Requests, Leave(r)
    PROVE  RegistryStep
  <1>1. /\ OnlyRequest(r) /\ pc[r] = "over" /\ pc'[r] = "idle"
        /\ UNCHANGED <<Held, RegistryLoose>>
    BY HeldSame, LooseSame DEF Leave, OnlyRequest, TypeOK, Loose
  <1>2. ~InRegistry(r)'
    BY <1>1 DEF InRegistry
  <1>3. RegistryCall'[r] = NoCall /\ RegistryResult'[r] = "idle" /\ RegistryListed'[r] = {}
    BY <1>2, ResultNext DEF RegistryCall, RegistryListed
  <1>4. CASE ~InRegistry(r)
    <2>1. RegistryCall[r] = NoCall /\ RegistryResult[r] = "idle" /\ RegistryListed[r] = {}
      BY <1>4, ResultNow DEF RegistryCall, RegistryListed
    <2> QED
      BY <1>1, <1>3, <2>1, RegistryMoves DEF RegistryStep, Registry!vars
  <1>5. CASE InRegistry(r)
    <2>1. RegistryCall[r] # NoCall /\ RegistryResult[r] # "open"
      BY <1>1, <1>5, ResultNow DEF RegistryCall, TypeOK, ResultOfAnswer
    <2>2. Registry!Return(r)
      BY <1>1, <1>3, <2>1, RegistryMoves DEF Registry!Return
    <2> QED
      BY <2>2 DEF RegistryStep, Registry!Next
  <1> QED
    BY <1>4, <1>5

(* The handlers do not move: a call without a caller, an administrator.    *)
LEMMA RequestsStill ==
    ASSUME UNCHANGED <<pc, call, read, answer>>
    PROVE  UNCHANGED <<RegistryCall, RegistryResult, RegistryListed>>
  BY DEF RegistryCall, RegistryResult, RegistryListed, Result, InRegistry, Pair

LEMMA RefineCarryOut ==
    ASSUME TypeOK, NameInv, NEW c \in late, CarryOut(c)
    PROVE  RegistryStep
  <1>1. /\ c.pair \in Pairs /\ c.op \in {"create", "delete"}
        /\ UNCHANGED <<RegistryCall, RegistryResult, RegistryListed>>
    BY WriteType, RequestsStill DEF TypeOK, CarryOut
  <1> DEFINE n == ResourceName[c.pair]
  <1>2. \/ c.op = "delete" /\ cronJobs' = [cronJobs EXCEPT ![n] = Absent]
        \/ c.op = "create" /\ cronJobs[n] = Absent
             /\ cronJobs' = [cronJobs EXCEPT ![n] = Made(c.pair)]
        \/ c.op = "create" /\ cronJobs[n] # Absent /\ UNCHANGED cronJobs
    BY <1>1 DEF CarryOut, TypeOK
  <1>3. late' = late \ {c}
    BY DEF CarryOut
  <1>4. CASE c.pair \notin Own
    <2>1. \A p \in Own : ResourceName[p] # n
      BY <1>1, <1>4, OwnName
    <2>2. UNCHANGED Held
      BY <1>2, <2>1, HeldSame, HeldUntouched
    <2>3. UNCHANGED RegistryLoose
      BY <1>3, <1>4 DEF RegistryLoose
    <2> QED
      BY <1>1, <2>2, <2>3 DEF RegistryStep, Registry!vars
  <1>5. CASE c.pair \in Own
    <2>1. RegistryLoose' = RegistryLoose \ {c} /\ c \in RegistryLoose
      BY <1>3, <1>5 DEF RegistryLoose
    <2>2. /\ Held[c.pair] = "absent" <=> cronJobs[n] = Absent
          /\ Held[c.pair] = "managed" <=> (cronJobs[n] # Absent /\ cronJobs[n] \notin Foreign)
      BY <1>5, HeldSays DEF NameInv
    <2>3. CASE c.op = "delete" /\ cronJobs' = [cronJobs EXCEPT ![n] = Absent]
      <3>1. Held[c.pair] \in {"absent", "managed"}
        BY <2>2, <2>3 DEF NameInv, DeletesMeetNoForeign
      <3>2. Held' = [Held EXCEPT ![c.pair] = "absent"]
        BY <1>5, <2>3, HeldWritten
      <3>3. Held[c.pair] = "absent" => UNCHANGED Held
        <4>1. Held = [q \in Own |-> Held[q]]
          BY DEF Held
        <4> QED
          BY <3>2, <4>1
      <3> QED
        BY <1>1, <2>1, <2>3, <3>1, <3>2, <3>3 DEF Registry!Settle, RegistryStep, Registry!Next
    <2>4. CASE c.op = "create" /\ cronJobs[n] = Absent
               /\ cronJobs' = [cronJobs EXCEPT ![n] = Made(c.pair)]
      <3>1. Held[c.pair] = "absent" /\ Made(c.pair) # Absent
        BY <1>1, <2>2, <2>4, MadeType, AbsentAssumption
      <3>2. Held' = [Held EXCEPT ![c.pair] = "managed"]
        BY <1>5, <2>4, <3>1, HeldWritten
      <3> QED
        BY <1>1, <2>1, <2>4, <3>1, <3>2 DEF Registry!Settle, RegistryStep, Registry!Next
    <2>5. CASE c.op = "create" /\ UNCHANGED cronJobs
      BY <1>1, <2>1, <2>5, HeldSame DEF Registry!Settle, RegistryStep, Registry!Next
    <2> QED
      BY <1>2, <2>3, <2>4, <2>5
  <1> QED
    BY <1>4, <1>5

LEMMA RefineAdminDelete ==
    ASSUME TypeOK, NameInv, NEW n \in Names, AdminDelete(n)
    PROVE  RegistryStep
  <1>1. UNCHANGED <<RegistryCall, RegistryResult, RegistryListed, RegistryLoose>>
    BY RequestsStill, LooseSame DEF AdminDelete, Loose
  <1>2. CASE \A p \in Own : ResourceName[p] # n
    <2>1. UNCHANGED Held
      BY <1>2, HeldUntouched DEF AdminDelete
    <2> QED
      BY <1>1, <2>1 DEF RegistryStep, Registry!vars
  <1>3. ASSUME NEW p \in Own, ResourceName[p] = n PROVE RegistryStep
    <2>1. Held[p] = "managed"
      BY <1>3, HeldSays DEF AdminDelete, NameInv, Foreign
    <2>2. Held' = [Held EXCEPT ![p] = "absent"]
      BY <1>3, HeldWritten DEF AdminDelete
    <2>3. Registry!Withdraw(p)
      BY <1>1, <2>1, <2>2 DEF Registry!Withdraw
    <2> QED
      BY <2>3 DEF RegistryStep, Registry!Next
  <1> QED
    BY <1>2, <1>3

LEMMA RefineInit == Init => Registry!Init
  <1> SUFFICES ASSUME Init PROVE Registry!Init
    OBVIOUS
  <1>1. TypeOK /\ NameInv
    BY TypeInit, NameInit
  <1>2. \A n \in Names : cronJobs[n] \in Foreign \cup {Absent}
    BY InitialAssumption DEF Init
  <1>3. \A p \in Own : Held[p] = "absent"
    BY <1>1, <1>2, HeldSays, OwnType DEF NameInv, OwnIsNotTaken
  <1>4. Held = [p \in Own |-> Held[p]]
    BY DEF Held
  <1>5. Held = [p \in Own |-> "absent"]
    BY <1>3, <1>4
  <1>6. \A r \in Requests : ~InRegistry(r)
    BY DEF Init, InRegistry
  <1>7. /\ RegistryCall = [r \in Requests |-> NoCall]
        /\ RegistryListed = [r \in Requests |-> {}]
    BY <1>6 DEF RegistryCall, RegistryListed
  <1>8. RegistryResult = [r \in Requests |-> "idle"]
    BY <1>6 DEF RegistryResult, Result
  <1>9. RegistryLoose = {}
    BY DEF Init, RegistryLoose
  <1> QED
    BY <1>5, <1>7, <1>8, <1>9 DEF Registry!Init

RegistryInv == TypeOK /\ AtItsCall /\ NameInv /\ IdleHasNotRead

LEMMA RefineStep == RegistryInv /\ [Next]_vars => [Registry!Next]_(Registry!vars)
  <1> SUFFICES ASSUME RegistryInv, [Next]_vars PROVE RegistryStep
    BY DEF RegistryStep
  <1> USE DEF RegistryInv
  <1>1. ASSUME NEW r \in Requests, Handle(r) PROVE RegistryStep
    BY <1>1, RefineGetCluster, RefineCreate, RefineList, RefineGet, RefineCheck,
       RefineDelete, RefineStatus, RefineFail DEF Handle, NameInv
  <1>2. CASE UNCHANGED vars
    BY <1>2, RequestsStill, HeldSame, LooseSame DEF vars, RegistryStep, Registry!vars, Loose
  <1> QED
    BY <1>1, <1>2, RefineArrive, RefineLeave, RefineCarryOut, RefineAdminDelete DEF Next

(* SchedulesAreARegistry: each request on a pair with a name of its own is *)
(* one atomic operation, whatever pairs with shared names, foreign         *)
(* CronJobs, late calls and administrators there are.                      *)
THEOREM Refinement == Spec => SchedulesAreARegistry
  <1>1. Init => RegistryInv
    BY TypeInit, AtItsCallInit, NameInit, IdleInit DEF RegistryInv
  <1>2. RegistryInv /\ [Next]_vars => RegistryInv'
    BY TypeStep, AtItsCallStep, NameStep, IdleStep DEF RegistryInv
  <1> QED
    BY <1>1, <1>2, RefineInit, RefineStep, PTL
       DEF Spec, SchedulesAreARegistry, Registry!Spec

=============================================================================
