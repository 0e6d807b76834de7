---------------------- MODULE HealthcheckServer_proofs ----------------------
(***************************************************************************)
(* Theorems about HealthcheckServer for every set of requests, processes   *)
(* and clusters, every number of pods and every bound.                     *)
(*                                                                         *)
(* The argument rests on two inductive invariants: a request past the      *)
(* mutex is the one the mutex names (HolderInv), and the run it is making  *)
(* is the newest under its key, newer than the stored report until it is   *)
(* stored itself (RunInv). The dozen steps between GetCluster and Store    *)
(* only move such a request on; MutexStep says so once for all of them.    *)
(*                                                                         *)
(* What the probe leaves in ClickHouse follows the steps of each request   *)
(* (ProbeInv): the rows of its cluster are halfway, fresh, synced on the   *)
(* replicas before at[r], or equal on all, unless a script left behind by  *)
(* another request came between. It needs one process for each cluster:    *)
(* the mutex excludes only the requests of its own. That a table of        *)
(* somebody else's keeps its rows (QuietStep) does not.                    *)
(***************************************************************************)
EXTENDS HealthcheckServer, TLAPS

HolderInv ==
    \A r \in Requests : pc[r] \in LockedSteps => lock[Key(r)] = r

RunInv ==
    /\ \A k \in Keys : seen[k] <= latest[k].run /\ latest[k].run <= runs[k]
    /\ \A r \in Requests : pc[r] \in LockedSteps =>
         /\ run[r] = runs[Key(r)]
         /\ run[r] # 0
         /\ IF pc[r] = "respond" THEN latest[Key(r)].run = run[r]
            ELSE latest[Key(r)].run < run[r]

IInv == TypeOK /\ HolderInv /\ RunInv

(* What the properties are about, and everything else. *)
mutexVars == <<lock, latest, runs, run, seen, crashes>>

(* Steps of a handler that keeps the mutex and has not stored its report.  *)
Unstored == LockedSteps \ {"respond"}

Inside(r) ==
    \/ Inspect(r) \/ CtxStopsProbe(r) \/ CreateDatabase(r)
    \/ ValidateBefore(r) \/ CreateTables(r) \/ ValidateAfter(r)
    \/ StartWrite(r) \/ WriteReturns(r) \/ SyncReplica(r)
    \/ CheckAssertion(r) \/ Conclude(r) \/ ExecFault(r)

(* Steps that no handler takes. *)
Outside ==
    \/ \E r \in Requests : RunScript(r) \/ Expire(r)
    \/ \E c \in Clusters, p \in Pods : Replicate(c, p) \/ Drift(c, p)
    \/ Rest
    \/ UNCHANGED vars

LEMMA KeyType == \A r \in Requests : Key(r) \in Keys
  BY RequestsAssumption DEF Key, Keys

LEMMA ReportRun ==
  /\ NoReport \in Reports
  /\ NoReport.run = 0
  /\ \A report \in Reports : report.run \in Nat
  BY DEF NoReport, Reports, Register!NoReport, Register!Reports

LEMMA PodShards == \A p \in Pods : ShardOf[p] \in Shards
  BY DEF Shards
-----------------------------------------------------------------------------
(* Types. *)

(* Every step keeps every variable in its type.                            *)
LEMMA TypeInit == Init => TypeOK
  <1> SUFFICES ASSUME Init PROVE TypeOK
    OBVIOUS
  <1>1. latest \in [Keys -> Reports]
    BY ReportRun DEF Init
  <1>2. tables \in [Clusters -> [Pods -> {"absent", "owned", "drifted"}]]
    BY DEF Init
  <1> QED
    BY <1>1, <1>2 DEF Init, TypeOK, Steps, Statuses

LEMMA TypeInside == ASSUME TypeOK, NEW r \in Requests, Inside(r) PROVE TypeOK'
  <1> USE DEF TypeOK, GoTo, Record, clickHouseVars, historyVars
  <1>1. \A old, status \in Statuses : AddCheck(old, status) \in Statuses
    BY DEF AddCheck, Statuses
  <1>2. CASE Inspect(r)
    BY <1>1, <1>2 DEF Inspect, Steps, LockedSteps, ProbeSteps, Statuses
  <1>3. ASSUME ProbeFails(r) PROVE /\ pc' \in [Requests -> Steps]
                                  /\ verdict' \in [Requests -> Statuses]
                                  /\ faulted' \in [Requests -> BOOLEAN]
    BY <1>1, <1>3 DEF ProbeFails, Steps, LockedSteps, Statuses
  <1>4. ASSUME NEW next \in Steps, NextPod(r, next)
        PROVE pc' \in [Requests -> Steps] /\ at' \in [Requests -> Nat]
    BY <1>4 DEF NextPod
  <1>5. TablesCreated(ClusterOf[r]) \in
          [Clusters -> [Pods -> {"absent", "owned", "drifted"}]]
    BY RequestsAssumption DEF TablesCreated
  <1>6. CASE CtxStopsProbe(r) \/ ExecFault(r)
    BY <1>3, <1>5, <1>6 DEF CtxStopsProbe, ExecFault, ExecStops
  <1>7. CASE CreateDatabase(r)
    BY <1>7 DEF CreateDatabase, Steps, LockedSteps, ProbeSteps, handlerVars
  <1>8. CASE ValidateBefore(r) \/ ValidateAfter(r)
    <2>1. "createTables" \in Steps /\ "startWrite" \in Steps
      BY DEF Steps, LockedSteps, ProbeSteps
    <2>2. /\ pc' \in [Requests -> Steps]
          /\ at' \in [Requests -> Nat]
          /\ verdict' \in [Requests -> Statuses]
          /\ faulted' \in [Requests -> BOOLEAN]
      BY <1>3, <1>4, <1>8, <2>1
      DEF ValidateBefore, ValidateAfter, ValidatePod
    <2> QED
      BY <1>8, <2>2 DEF ValidateBefore, ValidateAfter
  <1>9. CASE CreateTables(r)
    BY <1>5, <1>9 DEF CreateTables, Steps, LockedSteps, ProbeSteps
  <1>10. CASE StartWrite(r)
    BY <1>10 DEF StartWrite, Steps, LockedSteps, ProbeSteps
  <1>11. CASE WriteReturns(r)
    <2>1. /\ pc' \in [Requests -> Steps]
          /\ verdict' \in [Requests -> Statuses]
          /\ faulted' \in [Requests -> BOOLEAN]
      BY <1>3, <1>11 DEF WriteReturns, Steps, LockedSteps, ProbeSteps
    <2> QED
      BY <1>11, <2>1 DEF WriteReturns
  <1>12. CASE SyncReplica(r)
    <2>1. "assert" \in Steps
      BY DEF Steps, LockedSteps, ProbeSteps
    <2> QED
      BY <1>4, <1>12, <2>1 DEF SyncReplica
  <1>13. CASE CheckAssertion(r)
    <2>1. /\ \E n \in Nat : at' = [at EXCEPT ![r] = n]
          /\ \E step \in Steps : pc' = [pc EXCEPT ![r] = step]
      <3>1. at[r] + 1 \in Nat /\ at = [at EXCEPT ![r] = at[r]]
        OBVIOUS
      <3> QED
        BY <1>13, <3>1 DEF CheckAssertion, Steps, LockedSteps, ProbeSteps
    <2>2. verdict' = verdict \/ Record(r, "FAIL")
      BY <1>13 DEF CheckAssertion
    <2>3. pc' \in [Requests -> Steps] /\ at' \in [Requests -> Nat]
      BY <2>1
    <2>4. verdict' \in [Requests -> Statuses]
      BY <1>1, <2>2 DEF Statuses
    <2> QED
      BY <1>13, <2>3, <2>4 DEF CheckAssertion
  <1>14. CASE Conclude(r)
    <2>1. /\ pc' \in [Requests -> Steps]
          /\ faulted' \in [Requests -> BOOLEAN]
          /\ UNCHANGED listed
      BY <1>14 DEF Conclude, Steps, LockedSteps
    <2>2. verdict' \in [Requests -> Statuses]
      BY <1>1, <1>14 DEF Conclude, Statuses
    <2> QED
      BY <1>14, <2>1, <2>2 DEF Conclude
  <1> QED
    BY <1>2, <1>6, <1>7, <1>8, <1>9, <1>10, <1>11, <1>12, <1>13, <1>14
    DEF Inside

LEMMA TypeOutside == ASSUME TypeOK, Outside PROVE TypeOK'
  <1> USE DEF TypeOK, handlerVars, clickHouseVars, historyVars
  <1>1. ASSUME NEW r \in Requests, RunScript(r) PROVE TypeOK'
    <2>1. CASE ScriptTruncate(r)
      BY RequestsAssumption, <2>1 DEF ScriptTruncate, Disturbs
    <2>2. CASE ScriptFails(r)
      BY <2>2 DEF ScriptFails
    <2>3. ASSUME NEW s \in Shards, ScriptInsert(r, s) PROVE TypeOK'
      <3> DEFINE c == ClusterOf[r]
      <3>1. /\ c \in Clusters
            /\ committed[c] \in [Shards -> Nat] /\ applied[c] \in [Pods -> Nat]
        BY RequestsAssumption
      <3>2. PICK p \in Replicas(s),
                 batches \in {committed[c][s] + 1}
                                \cup ({committed[c][s]} \ {0}) :
              /\ committed' = [committed EXCEPT ![c][s] = batches]
              /\ applied' = [applied EXCEPT ![c][p] = batches]
        BY <2>3 DEF ScriptInsert
      <3>3. batches \in Nat /\ p \in Pods
        BY <3>1, <3>2 DEF Replicas
      <3>4. /\ committed' \in [Clusters -> [Shards -> Nat]]
            /\ applied' \in [Clusters -> [Pods -> Nat]]
        BY <3>1, <3>2, <3>3
      <3>5. /\ script' \in [Requests ->
                    {"none", "truncate", "insert", "finished", "failed"}]
            /\ toInsert' \in [Requests -> SUBSET Shards]
        BY <2>3 DEF ScriptInsert
      <3>6. disturbed' \in [Requests -> BOOLEAN]
        BY <2>3 DEF ScriptInsert, Disturbs
      <3> QED
        BY <2>3, <3>4, <3>5, <3>6 DEF ScriptInsert
    <2> QED
      BY <1>1, <2>1, <2>2, <2>3 DEF RunScript
  <1>2. ASSUME NEW r \in Requests, Expire(r) PROVE TypeOK'
    BY <1>2 DEF Expire
  <1>3. ASSUME NEW c \in Clusters, NEW p \in Pods, Replicate(c, p)
        PROVE TypeOK'
    BY <1>3, PodShards DEF Replicate
  <1>4. ASSUME NEW c \in Clusters, NEW p \in Pods, Drift(c, p) PROVE TypeOK'
    BY <1>4 DEF Drift
  <1>5. CASE Rest \/ UNCHANGED vars
    BY <1>5 DEF Rest, vars
  <1> QED
    BY <1>1, <1>2, <1>3, <1>4, <1>5 DEF Outside

LEMMA TypeStep == TypeOK /\ [Next]_vars => TypeOK'
  <1> SUFFICES ASSUME TypeOK, [Next]_vars PROVE TypeOK'
    OBVIOUS
  <1> USE DEF TypeOK, GoTo, Unlock, clickHouseVars, handlerVars, historyVars
  <1>1. ASSUME NEW r \in Requests, Arrive(r) PROVE TypeOK'
    BY <1>1 DEF Arrive, Steps
  <1>2. ASSUME NEW r \in Requests, Acquire(r) PROVE TypeOK'
    BY <1>2, KeyType DEF Acquire, Steps, LockedSteps
  <1>3. ASSUME NEW r \in Requests, GetCluster(r) PROVE TypeOK'
    BY <1>3, KeyType DEF GetCluster, Steps, LockedSteps, EndSteps
  <1>4. ASSUME NEW r \in Requests, Store(r) PROVE TypeOK'
    <2>1. [run |-> run[r], status |-> verdict[r]] \in Reports
      BY DEF Reports, Register!Reports, Statuses, Register!Statuses
    <2> QED
      BY <1>4, <2>1, KeyType DEF Store, Steps, LockedSteps
  <1>5. ASSUME NEW r \in Requests, Respond(r) PROVE TypeOK'
    BY <1>5, KeyType DEF Respond, Steps, EndSteps
  <1>6. ASSUME NEW k \in Keys, GetLatest(k) PROVE TypeOK'
    BY <1>6, ReportRun DEF GetLatest
  <1>7. ASSUME NEW s \in Servers, Crash(s) PROVE TypeOK'
    BY <1>7, ReportRun DEF Crash, Steps, EndSteps
  <1> QED
    BY <1>1, <1>2, <1>3, <1>4, <1>5, <1>6, <1>7, TypeInside, TypeOutside
    DEF Next, Handle, Inside, Outside

(* Every variable keeps its type, whatever the requests, the processes,    *)
(* the deadlines and ClickHouse do.                                        *)
THEOREM TypeCorrect == Spec => []TypeOK
  BY TypeInit, TypeStep, PTL DEF Spec

-----------------------------------------------------------------------------
(* The mutex and the runs. *)

(* What the steps between GetCluster and Store do to the mutex: nothing.   *)
LEMMA MutexStep ==
  ASSUME TypeOK, NEW r \in Requests, Inside(r)
  PROVE  /\ pc[r] \in Unstored
         /\ \E step \in Unstored : pc' = [pc EXCEPT ![r] = step]
         /\ UNCHANGED mutexVars
  <1> USE DEF mutexVars, clickHouseVars, historyVars, GoTo, Unstored,
              LockedSteps, ProbeSteps
  <1>1. pc = [pc EXCEPT ![r] = pc[r]]
    BY DEF TypeOK
  <1>2. ASSUME NEW next \in Unstored, pc[r] \in Unstored, NextPod(r, next)
        PROVE \E step \in Unstored : pc' = [pc EXCEPT ![r] = step]
    BY <1>1, <1>2 DEF NextPod
  <1>3. CASE Inspect(r) \/ CreateDatabase(r) \/ CreateTables(r)
             \/ StartWrite(r) \/ Conclude(r)
    BY <1>3 DEF Inspect, CreateDatabase, CreateTables, StartWrite, Conclude
  <1>4. CASE CtxStopsProbe(r) \/ ExecFault(r)
    BY <1>4 DEF CtxStopsProbe, ExecFault, ExecStops, ProbeFails
  <1>5. CASE ValidateBefore(r) \/ ValidateAfter(r)
    BY <1>2, <1>5 DEF ValidateBefore, ValidateAfter, ValidatePod, ProbeFails
  <1>6. CASE WriteReturns(r)
    BY <1>6 DEF WriteReturns, ProbeFails
  <1>7. CASE SyncReplica(r)
    BY <1>2, <1>7 DEF SyncReplica
  <1>8. CASE CheckAssertion(r)
    BY <1>8 DEF CheckAssertion
  <1> QED
    BY <1>3, <1>4, <1>5, <1>6, <1>7, <1>8 DEF Inside

LEMMA OutsideStep ==
  ASSUME Outside PROVE UNCHANGED <<pc, mutexVars>>
  BY DEF Outside, mutexVars, vars, handlerVars, clickHouseVars, historyVars,
         RunScript, ScriptTruncate, ScriptInsert, ScriptFails, Expire,
         Replicate, Drift, Rest, Disturbs

LEMMA InvInit == Init => HolderInv /\ RunInv
  BY ReportRun, KeyType DEF Init, HolderInv, RunInv, LockedSteps, ProbeSteps

LEMMA HolderStep == TypeOK /\ HolderInv /\ [Next]_vars => HolderInv'
  <1> SUFFICES ASSUME TypeOK, HolderInv, [Next]_vars PROVE HolderInv'
    OBVIOUS
  <1> USE KeyType, RequestsAssumption DEF TypeOK, HolderInv, GoTo, Unlock
  <1>1. ASSUME NEW r \in Requests, Arrive(r) PROVE HolderInv'
    BY <1>1 DEF Arrive, LockedSteps, ProbeSteps
  <1>2. ASSUME NEW r \in Requests, Acquire(r) PROVE HolderInv'
    BY <1>2 DEF Acquire, MutexFree
  <1>3. ASSUME NEW r \in Requests, GetCluster(r) PROVE HolderInv'
    BY <1>3 DEF GetCluster, LockedSteps, ProbeSteps
  <1>4. ASSUME NEW r \in Requests, Inside(r) PROVE HolderInv'
    BY <1>4, MutexStep DEF mutexVars, Unstored
  <1>5. ASSUME NEW r \in Requests, Store(r) PROVE HolderInv'
    BY <1>5 DEF Store, LockedSteps, ProbeSteps
  <1>6. ASSUME NEW r \in Requests, Respond(r) PROVE HolderInv'
    BY <1>6 DEF Respond, LockedSteps, ProbeSteps
  <1>7. ASSUME NEW k \in Keys, GetLatest(k) PROVE HolderInv'
    BY <1>7 DEF GetLatest, handlerVars
  <1>8. ASSUME NEW s \in Servers, Crash(s) PROVE HolderInv'
    BY <1>8 DEF Crash, Key, Keys, LockedSteps, ProbeSteps
  <1>9. CASE Outside
    BY <1>9, OutsideStep DEF mutexVars
  <1> QED
    BY <1>1, <1>2, <1>3, <1>4, <1>5, <1>6, <1>7, <1>8, <1>9
    DEF Next, Handle, Inside, Outside

LEMMA FreeStep == TypeOK /\ NoMutexIsLeft /\ [Next]_vars => NoMutexIsLeft'
  <1> SUFFICES ASSUME TypeOK, NoMutexIsLeft, [Next]_vars, NEW k \in Keys, lock'[k] # NoRequest
               PROVE  pc'[lock'[k]] \in LockedSteps /\ Key(lock'[k]) = k
    BY DEF NoMutexIsLeft
  <1> USE KeyType, RequestsAssumption DEF TypeOK, GoTo, Unlock
  <1>1. ASSUME lock'[k] = lock[k],
               lock[k] \in Requests /\ pc[lock[k]] \in LockedSteps => pc'[lock[k]] \in LockedSteps
        PROVE  pc'[lock'[k]] \in LockedSteps /\ Key(lock'[k]) = k
    BY <1>1 DEF NoMutexIsLeft
  <1>2. lock[k] # NoRequest => lock[k] \in Requests /\ pc[lock[k]] \in LockedSteps /\ Key(lock[k]) = k
    BY DEF NoMutexIsLeft
  <1>3. ASSUME NEW r \in Requests, Arrive(r) PROVE pc'[lock'[k]] \in LockedSteps /\ Key(lock'[k]) = k
    BY <1>1, <1>3 DEF Arrive, LockedSteps, ProbeSteps
  <1>4. ASSUME NEW r \in Requests, Acquire(r) PROVE pc'[lock'[k]] \in LockedSteps /\ Key(lock'[k]) = k
    <2>1. CASE k = Key(r)
      BY <1>4, <2>1 DEF Acquire, LockedSteps
    <2>2. CASE k # Key(r)
      BY <1>1, <1>4, <2>2 DEF Acquire, LockedSteps, ProbeSteps
    <2> QED
      BY <2>1, <2>2
  <1>5. ASSUME NEW r \in Requests, NEW step, pc' = [pc EXCEPT ![r] = step], Unlock(r)
        PROVE  pc'[lock'[k]] \in LockedSteps /\ Key(lock'[k]) = k
    <2>1. k # Key(r) /\ lock'[k] = lock[k]
      BY <1>5
    <2> QED
      BY <1>2, <1>5, <2>1
  <1>6. ASSUME NEW r \in Requests, NEW step \in LockedSteps, pc' = [pc EXCEPT ![r] = step],
               UNCHANGED lock
        PROVE  pc'[lock'[k]] \in LockedSteps /\ Key(lock'[k]) = k
    BY <1>1, <1>6
  <1>7. ASSUME NEW r \in Requests, GetCluster(r) PROVE pc'[lock'[k]] \in LockedSteps /\ Key(lock'[k]) = k
    BY <1>5, <1>6, <1>7 DEF GetCluster, LockedSteps
  <1>8. ASSUME NEW r \in Requests, Inside(r) PROVE pc'[lock'[k]] \in LockedSteps /\ Key(lock'[k]) = k
    BY <1>6, <1>8, MutexStep DEF mutexVars, Unstored
  <1>9. ASSUME NEW r \in Requests, Store(r) \/ Respond(r)
        PROVE  pc'[lock'[k]] \in LockedSteps /\ Key(lock'[k]) = k
    BY <1>5, <1>6, <1>9 DEF Store, Respond, LockedSteps
  <1>10. ASSUME NEW s \in Servers, Crash(s) PROVE pc'[lock'[k]] \in LockedSteps /\ Key(lock'[k]) = k
    <2>1. k[1] # s /\ lock'[k] = lock[k]
      BY <1>10 DEF Crash
    <2>2. ServerOf[lock[k]] # s
      BY <1>2, <2>1 DEF Key
    <2> QED
      BY <1>2, <1>10, <2>1, <2>2 DEF Crash
  <1>11. ASSUME \/ \E j \in Keys : GetLatest(j)
                \/ Outside \/ UNCHANGED vars
         PROVE  pc'[lock'[k]] \in LockedSteps /\ Key(lock'[k]) = k
    <2>1. UNCHANGED <<pc, lock>>
      BY <1>11, OutsideStep DEF GetLatest, handlerVars, mutexVars, vars
    <2> QED
      BY <1>2, <2>1
  <1> QED
    BY <1>3, <1>4, <1>7, <1>8, <1>9, <1>10, <1>11 DEF Next, Handle, Inside, Outside

LEMMA HolderUnique ==
  ASSUME HolderInv,
         NEW q \in Requests, pc[q] \in LockedSteps,
         NEW r \in Requests, pc[r] \in LockedSteps, Key(q) = Key(r)
  PROVE  q = r
  BY DEF HolderInv

(* Mutual exclusion of the runs of one process for one cluster, whatever   *)
(* the number of requests and however runs end.                            *)
THEOREM MutualExclusion == Spec => []OneRunPerKey
  <1>1. HolderInv => OneRunPerKey
    BY HolderUnique DEF OneRunPerKey
  <1> QED
    BY <1>1, TypeInit, TypeStep, InvInit, HolderStep, PTL DEF Spec

(* And none is left behind by a run that is over, in whatever way it ended.*)
THEOREM MutexesAreReturned == Spec => []NoMutexIsLeft
  <1>1. Init => NoMutexIsLeft
    BY DEF Init, NoMutexIsLeft
  <1> QED
    BY <1>1, TypeInit, TypeStep, FreeStep, PTL DEF Spec

LEMMA RunTypes ==
  ASSUME TypeOK
  PROVE  /\ \A k \in Keys : latest[k].run \in Nat /\ runs[k] \in Nat
                            /\ seen[k] \in Nat
         /\ \A r \in Requests : run[r] \in Nat
  BY ReportRun DEF TypeOK

LEMMA RunStep == IInv /\ [Next]_vars => RunInv'
  <1> SUFFICES ASSUME TypeOK, HolderInv, RunInv, [Next]_vars PROVE RunInv'
    BY DEF IInv
  <1> USE KeyType, RunTypes, ReportRun DEF TypeOK, GoTo, Unlock
  <1>1. ASSUME NEW r \in Requests, Arrive(r) PROVE RunInv'
    BY <1>1 DEF Arrive, RunInv, LockedSteps, ProbeSteps, historyVars
  <1>2. ASSUME NEW r \in Requests, Acquire(r) PROVE RunInv'
    <2>1. \A q \in Requests : pc[q] \in LockedSteps => Key(q) # Key(r)
      BY <1>2, RequestsAssumption DEF Acquire, MutexFree, HolderInv
    <2>2. pc' = [pc EXCEPT ![r] = "getCluster"] /\ UNCHANGED <<latest, seen>>
          /\ runs' = [runs EXCEPT ![Key(r)] = runs[Key(r)] + 1]
          /\ run' = [run EXCEPT ![r] = runs[Key(r)] + 1]
      BY <1>2 DEF Acquire
    <2>3. \A k \in Keys : seen'[k] <= latest'[k].run /\ latest'[k].run <= runs'[k]
      BY <2>2 DEF RunInv
    <2>4. ASSUME NEW q \in Requests, pc'[q] \in LockedSteps, q # r
          PROVE  pc'[q] = pc[q] /\ run'[q] = run[q] /\ Key(q) # Key(r)
                 /\ runs'[Key(q)] = runs[Key(q)]
      BY <2>1, <2>2, <2>4
    <2>5. /\ run'[r] = runs'[Key(r)] /\ run'[r] # 0
          /\ latest'[Key(r)].run < run'[r] /\ pc'[r] # "respond"
      BY <2>2 DEF RunInv
    <2> QED
      BY <2>2, <2>3, <2>4, <2>5 DEF RunInv
  <1>3. ASSUME NEW r \in Requests, GetCluster(r) PROVE RunInv'
    BY <1>3 DEF GetCluster, RunInv, LockedSteps, ProbeSteps, historyVars
  <1>4. ASSUME NEW r \in Requests, Inside(r) PROVE RunInv'
    BY <1>4, MutexStep DEF mutexVars, Unstored, RunInv
  <1>5. ASSUME NEW r \in Requests, Store(r) PROVE RunInv'
    <2>1. /\ pc[r] = "store" /\ pc' = [pc EXCEPT ![r] = "respond"]
          /\ latest' = [latest EXCEPT ![Key(r)] =
                           [run |-> run[r], status |-> verdict[r]]]
          /\ UNCHANGED <<runs, run, seen>>
      BY <1>5 DEF Store, historyVars
    <2>2. pc[r] \in LockedSteps
      BY <2>1 DEF LockedSteps
    <2>3. \A q \in Requests : pc'[q] \in LockedSteps /\ q # r
                              => pc'[q] = pc[q] /\ Key(q) # Key(r)
      BY <2>1, <2>2, HolderUnique
    <2>4. latest'[Key(r)].run = run[r]
      BY <2>1
    <2>5. \A k \in Keys : k # Key(r) => latest'[k] = latest[k]
      BY <2>1
    <2>6. latest[Key(r)].run < run[r] /\ run[r] = runs[Key(r)] /\ run[r] # 0
      BY <2>1, <2>2 DEF RunInv
    <2> QED
      BY <2>1, <2>3, <2>4, <2>5, <2>6 DEF RunInv
  <1>6. ASSUME NEW r \in Requests, Respond(r) PROVE RunInv'
    BY <1>6 DEF Respond, RunInv, LockedSteps, ProbeSteps
  <1>7. ASSUME NEW k \in Keys, GetLatest(k) PROVE RunInv'
    BY <1>7 DEF GetLatest, RunInv, handlerVars
  <1>8. ASSUME NEW s \in Servers, Crash(s) PROVE RunInv'
    <2>1. \A k \in Keys : IF k[1] = s THEN latest'[k] = NoReport /\ seen'[k] = 0
                          ELSE latest'[k] = latest[k] /\ seen'[k] = seen[k]
      BY <1>8 DEF Crash
    <2>2. \A q \in Requests : pc'[q] \in LockedSteps =>
             pc'[q] = pc[q] /\ Key(q)[1] # s
      BY <1>8 DEF Crash, Key, LockedSteps, ProbeSteps
    <2>3. UNCHANGED <<runs, run>>
      BY <1>8 DEF Crash
    <2>4. \A k \in Keys : seen'[k] <= latest'[k].run /\ latest'[k].run <= runs'[k]
      <3> SUFFICES ASSUME NEW k \in Keys
                   PROVE  seen'[k] <= latest'[k].run /\ latest'[k].run <= runs'[k]
        OBVIOUS
      <3>1. CASE k[1] = s
        BY <2>1, <2>3, <3>1
      <3>2. CASE k[1] # s
        BY <2>1, <2>3, <3>2 DEF RunInv
      <3> QED
        BY <3>1, <3>2
    <2>5. \A q \in Requests : pc'[q] \in LockedSteps =>
             pc'[q] = pc[q] /\ latest'[Key(q)] = latest[Key(q)]
      BY <2>1, <2>2
    <2> QED
      BY <2>3, <2>4, <2>5 DEF RunInv
  <1>9. CASE Outside
    BY <1>9, OutsideStep DEF mutexVars, RunInv
  <1> QED
    BY <1>1, <1>2, <1>3, <1>4, <1>5, <1>6, <1>7, <1>8, <1>9
    DEF Next, Handle, Inside, Outside

LEMMA Invariance == Spec => []IInv
  <1>1. Init => IInv
    BY TypeInit, InvInit DEF IInv
  <1>2. IInv /\ [Next]_vars => IInv'
    BY TypeStep, HolderStep, RunStep DEF IInv
  <1> QED
    BY <1>1, <1>2, PTL DEF Spec

(* No client is ever shown a run newer than the one GET latest returns.    *)
THEOREM ShownIsStored == Spec => []ReadYourWrites
  <1>1. IInv => ReadYourWrites
    BY DEF IInv, RunInv, ReadYourWrites
  <1> QED
    BY <1>1, Invariance, PTL

-----------------------------------------------------------------------------
(* The register. *)

LEMMA RegisterInit == Init => Register!Init
  BY DEF Init, Register!Init, Keys, Register!Keys, NoReport

LEMMA RegisterStep ==
  IInv /\ [Next]_vars => [Register!Next]_(Register!registerVars)
  <1> SUFFICES ASSUME IInv, [Next]_vars
               PROVE  [Register!Next]_(Register!registerVars)
    OBVIOUS
  <1> DEFINE Same == UNCHANGED <<latest, seen, crashes>>
  <1> USE KeyType DEF IInv, Keys, Register!Keys, NoReport
  <1>1. Same => UNCHANGED Register!registerVars
    BY DEF Register!registerVars
  <1>2. ASSUME NEW r \in Requests, Arrive(r) \/ Acquire(r) \/ GetCluster(r)
        PROVE Same
    BY <1>2 DEF Arrive, Acquire, GetCluster, historyVars
  <1>3. ASSUME NEW r \in Requests, Inside(r) PROVE Same
    BY <1>3, MutexStep DEF mutexVars
  <1>4. ASSUME NEW r \in Requests, Store(r) PROVE Register!Publish(Key(r))
    <2>1. /\ pc[r] = "store"
          /\ latest' = [latest EXCEPT ![Key(r)] =
                           [run |-> run[r], status |-> verdict[r]]]
          /\ UNCHANGED <<seen, crashes>>
      BY <1>4 DEF Store, historyVars
    <2>2. latest'[Key(r)] = [run |-> run[r], status |-> verdict[r]]
      BY <2>1 DEF TypeOK
    <2>3. latest[Key(r)].run < run[r]
      BY <2>1 DEF RunInv, LockedSteps
    <2>4. latest'[Key(r)] \in Register!Reports
      BY <2>2 DEF TypeOK, Register!Reports, Register!Statuses, Statuses
    <2> QED
      <3>1. latest'[Key(r)].run = run[r]
        BY <2>2
      <3>2. latest' = [latest EXCEPT ![Key(r)] = latest'[Key(r)]]
        BY <2>1, <2>2
      <3> QED
        BY <2>1, <2>3, <2>4, <3>1, <3>2 DEF Register!Publish
  <1>5. ASSUME NEW r \in Requests, Respond(r) PROVE Register!Show(Key(r))
    <2>1. latest[Key(r)].run = run[r] /\ run[r] # 0
      BY <1>5 DEF Respond, RunInv, LockedSteps
    <2>2. latest[Key(r)] # Register!NoReport
      BY <2>1, ReportRun
    <2> QED
      BY <1>5, <2>1, <2>2 DEF Respond, Register!Show
  <1>6. ASSUME NEW k \in Keys, GetLatest(k) PROVE Register!Show(k)
    BY <1>6 DEF GetLatest, handlerVars, Register!Show
  <1>7. ASSUME NEW s \in Servers, Crash(s) PROVE Register!Restart(s)
    BY <1>7 DEF Crash, Register!Restart
  <1>8. ASSUME Outside PROVE Same
    BY <1>8, OutsideStep DEF mutexVars
  <1> QED
    BY <1>1, <1>2, <1>3, <1>4, <1>5, <1>6, <1>7, <1>8
    DEF Next, Handle, Inside, Outside, Register!Next

(* The two handlers implement the register of LatestReport.                *)
THEOREM Refinement == Spec => LatestIsRegister
  BY RegisterInit, RegisterStep, Invariance, PTL
  DEF Spec, LatestIsRegister, Register!Spec

(* Within the life of a process, the latest report only moves to newer     *)
(* runs.                                                                   *)
THEOREM LatestForward == Spec => LatestMovesForward
  <1>1. ASSUME IInv, [Next]_vars, NEW k \in Keys, crashes'[k[1]] = crashes[k[1]]
        PROVE  latest[k].run <= latest'[k].run
    <2> USE DEF Register!Keys, Keys
    <2>1. \A j \in Keys : latest[j].run \in Nat
      BY <1>1, RunTypes DEF IInv
    <2>2. CASE UNCHANGED Register!registerVars
      BY <2>1, <2>2 DEF Register!registerVars
    <2>3. ASSUME NEW j \in Keys, Register!Publish(j)
          PROVE  latest[k].run <= latest'[k].run
      <3>1. latest[j].run < latest'[j].run /\ latest'[j].run \in Nat
        BY <2>3, ReportRun DEF Register!Publish, Reports
      <3>2. k # j => latest'[k] = latest[k]
        BY <1>1, <2>3 DEF Register!Publish, IInv, TypeOK
      <3> QED
        BY <1>1, <2>1, <3>1, <3>2
    <2>4. ASSUME NEW j \in Keys, Register!Show(j)
          PROVE  latest[k].run <= latest'[k].run
      BY <2>1, <2>4 DEF Register!Show
    <2>5. ASSUME NEW s \in Servers, Register!Restart(s)
          PROVE  latest[k].run <= latest'[k].run
      <3>1. crashes[s] \in Nat /\ crashes' = [crashes EXCEPT ![s] = crashes[s] + 1]
            /\ crashes \in [Servers -> Nat]
        BY <1>1, <2>5 DEF IInv, TypeOK, Register!Restart
      <3>2. k[1] # s
        BY <1>1, <3>1
      <3> QED
        BY <2>1, <2>5, <3>2 DEF Register!Restart
    <2> QED
      BY <1>1, RegisterStep, <2>2, <2>3, <2>4, <2>5 DEF Register!Next
  <1>2. IInv /\ [Next]_vars =>
          [\A k \in Keys : crashes'[k[1]] = crashes[k[1]]
                            => latest[k].run <= latest'[k].run]_vars
    BY <1>1
  <1> QED
    BY <1>2, Invariance, PTL DEF Spec, LatestMovesForward

-----------------------------------------------------------------------------
(* The end of a run whose context is done. *)

LEMMA StepsLeft ==
  /\ \A step \in ProbeSteps \cup {"getCluster", "inspect"} : Remaining(step) = 4
  /\ Remaining("conclude") = 3 /\ Remaining("store") = 2 /\ Remaining("respond") = 1
  /\ \A step \in EndSteps : Remaining(step) = 0
  /\ \A step \in LockedSteps : Remaining(step) > 0
  BY DEF Remaining, ProbeSteps, EndSteps, LockedSteps

LEMMA DoneStep ==
  ASSUME TypeOK, [Next]_vars, NEW q \in Requests, ctxDone[q], pc[q] \in LockedSteps
  PROVE  /\ ctxDone'[q]
         /\ pc'[q] = pc[q] \/ Remaining(pc'[q]) < Remaining(pc[q])
  <1> USE DEF TypeOK, GoTo
  <1> DEFINE Goal == /\ ctxDone'[q]
                     /\ pc'[q] = pc[q] \/ Remaining(pc'[q]) < Remaining(pc[q])
  <1>1. ASSUME UNCHANGED <<pc, ctxDone>> PROVE Goal
    BY <1>1
  <1>2. ASSUME NEW r \in Requests, UNCHANGED ctxDone, NEW step,
               pc' = [pc EXCEPT ![r] = step], r = q => Remaining(step) < Remaining(pc[r])
        PROVE  Goal
    BY <1>2
  <1>3. ASSUME NEW r \in Requests, Arrive(r) \/ Acquire(r) PROVE Goal
    <2>1. UNCHANGED ctxDone /\ pc[r] \in {"idle", "locking"}
          /\ \E step : pc' = [pc EXCEPT ![r] = step]
      BY <1>3 DEF Arrive, Acquire
    <2>2. r # q
      BY <2>1 DEF LockedSteps, ProbeSteps
    <2> QED
      BY <1>2, <2>1, <2>2
  <1>4. ASSUME NEW r \in Requests, GetCluster(r) PROVE Goal
    <2>1. UNCHANGED ctxDone /\ pc[r] = "getCluster"
          /\ \E step : pc' = [pc EXCEPT ![r] = step] /\ (r = q => step = "failed")
      BY <1>4 DEF GetCluster
    <2> QED
      BY <1>2, <2>1, StepsLeft DEF EndSteps
  <1>5. ASSUME NEW r \in Requests, Inspect(r) PROVE Goal
    <2>1. UNCHANGED ctxDone /\ pc[r] = "inspect"
          /\ \E step : pc' = [pc EXCEPT ![r] = step] /\ (r = q => step = "conclude")
      BY <1>5 DEF Inspect
    <2> QED
      BY <1>2, <2>1, StepsLeft
  <1>6. ASSUME NEW r \in Requests, CtxStopsProbe(r) \/ ExecFault(r) PROVE Goal
    <2>1. UNCHANGED ctxDone /\ pc[r] \in ProbeSteps /\ pc' = [pc EXCEPT ![r] = "conclude"]
      BY <1>6 DEF CtxStopsProbe, ExecFault, ExecStops, ProbeFails
    <2> QED
      BY <1>2, <2>1, StepsLeft
  <1>7. ASSUME NEW r \in Requests,
               CreateDatabase(r) \/ ValidateBefore(r) \/ CreateTables(r) \/ ValidateAfter(r)
               \/ StartWrite(r) \/ WriteReturns(r) \/ SyncReplica(r) \/ CheckAssertion(r)
        PROVE  Goal
    <2>1. UNCHANGED ctxDone /\ ~ctxDone[r] /\ \E step : pc' = [pc EXCEPT ![r] = step]
      <3>1. pc = [pc EXCEPT ![r] = pc[r]]
        OBVIOUS
      <3> QED
        BY <1>7, <3>1
        DEF CreateDatabase, ValidateBefore, CreateTables, ValidateAfter, StartWrite,
            WriteReturns, SyncReplica, CheckAssertion, ValidatePod, NextPod, ProbeFails
    <2> QED
      BY <1>2, <2>1
  <1>8. ASSUME NEW r \in Requests, Conclude(r) \/ Store(r) \/ Respond(r) PROVE Goal
    <2>1. /\ UNCHANGED ctxDone
          /\ \/ pc[r] = "conclude" /\ pc' = [pc EXCEPT ![r] = "store"]
             \/ pc[r] = "store" /\ pc' = [pc EXCEPT ![r] = "respond"]
             \/ pc[r] = "respond" /\ pc' = [pc EXCEPT ![r] = "answered"]
      BY <1>8 DEF Conclude, Store, Respond
    <2> QED
      BY <1>2, <2>1, StepsLeft DEF EndSteps
  <1>9. ASSUME NEW r \in Requests, Expire(r) PROVE Goal
    BY <1>9 DEF Expire
  <1>10. ASSUME NEW s \in Servers, Crash(s) PROVE Goal
    <2>1. UNCHANGED ctxDone /\ (pc'[q] = pc[q] \/ pc'[q] = "lost")
      BY <1>10 DEF Crash
    <2> QED
      BY <2>1, StepsLeft DEF EndSteps
  <1>11. ASSUME \/ \E r \in Requests : RunScript(r)
                \/ \E k \in Keys : GetLatest(k)
                \/ \E c \in Clusters, p \in Pods : Replicate(c, p) \/ Drift(c, p)
                \/ Rest \/ UNCHANGED vars
         PROVE  Goal
    BY <1>1, <1>11 DEF RunScript, ScriptTruncate, ScriptInsert, ScriptFails, GetLatest,
                       Replicate, Drift, Rest, vars, handlerVars
  <1> QED
    BY <1>3, <1>4, <1>5, <1>6, <1>7, <1>8, <1>9, <1>10, <1>11 DEF Next, Handle

(* With MutexesAreReturned, what EveryRequestEnds rests on besides fairness*)
(* for any number of requests and pods: after its deadline a run takes at  *)
(* most four steps, whatever ClickHouse does, and then the mutex is free.  *)
THEOREM DoneRunsEnd == Spec => DoneRunWindsDown
  <1>1. TypeOK /\ [Next]_vars =>
          [\A r \in Requests :
              ctxDone[r] /\ pc[r] \in LockedSteps =>
                  /\ ctxDone'[r]
                  /\ pc'[r] = pc[r] \/ Remaining(pc'[r]) < Remaining(pc[r])]_vars
    BY DoneStep
  <1> QED
    BY <1>1, TypeInit, TypeStep, PTL DEF Spec, DoneRunWindsDown

-----------------------------------------------------------------------------
(* What the probe leaves in ClickHouse.                                    *)

(* The requests for one cluster are served by one process.                 *)
OneProcessEach ==
    \A q, r \in Requests : ClusterOf[q] = ClusterOf[r] => ServerOf[q] = ServerOf[r]

BeforeWrite == {"idle", "locking", "getCluster", "inspect", "createDatabase",
                "validateBefore", "createTables", "validateAfter", "startWrite"}
Afterwards == {"conclude", "store", "respond"}

(* Between TRUNCATE and the last INSERT, after it, and after the sync.     *)
Half(c, left) ==
    \A s \in Shards :
        IF s \in left THEN committed[c][s] = 0 /\ \A p \in Replicas(s) : applied[c][p] = 0
        ELSE committed[c][s] = 1 /\ \A p \in Replicas(s) : applied[c][p] \in {0, 1}
Fresh(c) ==
    /\ \A s \in Shards : committed[c][s] = 1
    /\ \A p \in Pods : applied[c][p] \in {0, 1}
Synced(c, n) == Fresh(c) /\ \A p \in Pods : p < n => applied[c][p] = 1
AllOne(c) == Fresh(c) /\ \A p \in Pods : applied[c][p] = 1

(* Where the loops and the script of a request are.                        *)
PlaceInv(r) ==
    /\ faulted[r] => verdict[r] = "FAIL"
    /\ ~faulted[r] => listed[r] = Pods
    /\ pc[r] \in {"startWrite", "writing"} => at[r] = 1
    /\ pc[r] = "sync" => at[r] \in Pods
    /\ pc[r] = "assert" => at[r] \in 1 .. 3
    /\ pc[r] \in BeforeWrite => script[r] = "none"
    /\ pc[r] \in {"sync", "assert"} => script[r] = "finished"
    /\ pc[r] \in Afterwards /\ ~faulted[r] => script[r] = "finished"
RowsInv(r) ==
    ~disturbed[r] /\ ~faulted[r] =>
        /\ verdict[r] # "FAIL"
        /\ pc[r] = "writing" /\ script[r] = "insert" => Half(ClusterOf[r], toInsert[r])
        /\ pc[r] = "writing" /\ script[r] = "finished" => Fresh(ClusterOf[r])
        /\ pc[r] = "sync" => Synced(ClusterOf[r], at[r])
        /\ pc[r] \in {"assert"} \cup Afterwards => AllOne(ClusterOf[r])
ProbeInv == \A r \in Requests : PlaceInv(r) /\ RowsInv(r)

LEMMA PodsOfShards ==
    /\ \A p \in Pods : p \in Nat /\ ShardOf[p] \in Shards /\ p \in Replicas(ShardOf[p])
    /\ \A s \in Shards : \A p \in Replicas(s) : p \in Pods /\ ShardOf[p] = s
    /\ NumPods \in Pods /\ 1 \in Pods
BY PodsAssumption DEF Pods, Shards, Replicas

LEMMA StepsApart ==
    /\ \A x \in BeforeWrite : x \notin {"writing", "sync", "assert"} \cup Afterwards \cup EndSteps
    /\ \A x \in Afterwards : x \notin {"writing", "sync", "assert"} \cup EndSteps
BY DEF BeforeWrite, Afterwards, EndSteps

(* A request none of whose variables a step changes, nor what is stored.   *)
SameRequest(q) ==
    /\ pc'[q] = pc[q] /\ at'[q] = at[q] /\ verdict'[q] = verdict[q]
    /\ faulted'[q] = faulted[q] /\ disturbed'[q] = disturbed[q] /\ script'[q] = script[q]
    /\ listed'[q] = listed[q]
LEMMA Untouched ==
    ASSUME NEW q \in Requests, PlaceInv(q) /\ RowsInv(q), SameRequest(q),
           toInsert'[q] = toInsert[q], UNCHANGED <<committed, applied>>
    PROVE  (PlaceInv(q) /\ RowsInv(q))'
BY DEF SameRequest, PlaceInv, RowsInv, Half, Fresh, Synced, AllOne

(* A request that gets on and leaves the rest as it is.                    *)
LEMMA GetsOn ==
    ASSUME NEW q \in Requests, PlaceInv(q) /\ RowsInv(q),
           at'[q] = at[q], verdict'[q] = verdict[q], faulted'[q] = faulted[q],
           disturbed'[q] = disturbed[q], script'[q] = script[q], toInsert'[q] = toInsert[q],
           listed'[q] = listed[q],
           UNCHANGED <<committed, applied>>,
           \/ pc[q] \in BeforeWrite /\ pc'[q] \in BeforeWrite \ {"startWrite"}
           \/ pc[q] \in Afterwards /\ pc'[q] \in Afterwards
           \/ pc'[q] \in EndSteps
    PROVE  (PlaceInv(q) /\ RowsInv(q))'
<1>1. PlaceInv(q)'
  BY StepsApart DEF PlaceInv, EndSteps, BeforeWrite, Afterwards
<1>2. RowsInv(q)'
  BY StepsApart DEF RowsInv, EndSteps, BeforeWrite, Afterwards, AllOne, Fresh
<1> QED
  BY <1>1, <1>2

Handler(r) ==
    Arrive(r) \/ Acquire(r) \/ GetCluster(r) \/ Inside(r) \/ Store(r)
    \/ Respond(r) \/ Expire(r)

(* A handler changes its own request only, and no rows.                    *)
LEMMA HandlerFrame ==
    ASSUME TypeOK, NEW r \in Requests, Handler(r)
    PROVE  /\ UNCHANGED <<toInsert, committed, applied, disturbed>>
           /\ \A q \in Requests : q # r => SameRequest(q)
<1> USE DEF SameRequest, GoTo, Record, TypeOK, clickHouseVars, historyVars
<1>1. CASE Arrive(r) \/ Acquire(r) \/ GetCluster(r) \/ Store(r) \/ Respond(r) \/ Expire(r)
  BY <1>1 DEF Arrive, Acquire, GetCluster, Store, Respond, Expire
<1>2. CASE Inspect(r) \/ CreateDatabase(r) \/ CreateTables(r) \/ StartWrite(r) \/ Conclude(r)
  BY <1>2 DEF Inspect, CreateDatabase, CreateTables, StartWrite, Conclude
<1>3. CASE CtxStopsProbe(r) \/ ExecFault(r) \/ WriteReturns(r)
  BY <1>3 DEF CtxStopsProbe, ExecFault, ExecStops, WriteReturns, ProbeFails
<1>4. CASE ValidateBefore(r) \/ ValidateAfter(r) \/ SyncReplica(r)
  BY <1>4 DEF ValidateBefore, ValidateAfter, SyncReplica, ValidatePod, NextPod, ProbeFails
<1>5. CASE CheckAssertion(r)
  BY <1>5 DEF CheckAssertion
<1> QED
  BY <1>1, <1>2, <1>3, <1>4, <1>5 DEF Handler, Inside

(* A probe that stops with a failed check has a fault to explain it.       *)
LEMMA FailedProbe ==
    ASSUME TypeOK, NEW r \in Requests, PlaceInv(r), ProbeFails(r),
           UNCHANGED <<script>>
    PROVE  (PlaceInv(r) /\ RowsInv(r))'
<1>1. verdict'[r] = "FAIL" /\ faulted'[r] = TRUE /\ pc'[r] = "conclude"
  BY DEF ProbeFails, Record, AddCheck, GoTo, TypeOK
<1> QED
  BY <1>1, StepsApart DEF PlaceInv, RowsInv, BeforeWrite, Afterwards

LEMMA Checks ==
    /\ \A old \in Statuses : AddCheck(old, "FAIL") = "FAIL"
    /\ \A status \in Statuses : AddCheck("FAIL", status) = "FAIL"
    /\ \A old, status \in Statuses \ {"FAIL"} : AddCheck(old, status) \in Statuses \ {"FAIL"}
BY DEF AddCheck, Statuses

(* On a cluster whose replicas hold one batch each, every assertion holds, *)
(* whichever replicas the distributed read goes to.                        *)
LEMMA AssertionsHold ==
    ASSUME NEW c \in Clusters, AllOne(c), NEW read \in DistributedReads(c), NEW i \in 1 .. 3
    PROVE  AssertionHolds(i, c, read)
<1>1. \A s \in Shards : read[s] = 1
  BY DEF DistributedReads, AllOne
<1>2. \A s \in Shards : \A p, q \in Replicas(s) : applied[c][p] = applied[c][q] /\ applied[c][p] > 0
  BY PodsOfShards DEF AllOne
<1>3. \A s \in Shards : read[s] > 0
  BY <1>1
<1>4. 1 # 2 /\ 1 # 3 /\ 2 # 3 /\ (i = 1 \/ i = 2 \/ i = 3)
  OBVIOUS
<1>5. CASE i = 1
  BY <1>1, <1>4, <1>5, Zenon DEF AssertionHolds
<1>6. CASE i = 2
  BY <1>3, <1>4, <1>6, Zenon DEF AssertionHolds
<1>7. CASE i = 3
  BY <1>2, <1>4, <1>7, Zenon DEF AssertionHolds
<1> QED
  BY <1>4, <1>5, <1>6, <1>7

(* The steps of the run: each keeps the invariant for its own request.     *)
LEMMA ProbeInside ==
    ASSUME TypeOK, NEW r \in Requests, PlaceInv(r) /\ RowsInv(r), Inside(r)
    PROVE  (PlaceInv(r) /\ RowsInv(r))'
<1> USE RequestsAssumption DEF GoTo, Record, TypeOK, clickHouseVars, historyVars
<1>1. CASE Inspect(r)
  <2>1. /\ pc[r] = "inspect" /\ pc'[r] \in {"conclude", "createDatabase"}
        /\ UNCHANGED <<at, script, toInsert, committed, applied, disturbed>>
    BY <1>1 DEF Inspect
  <2>2. \/ faulted'[r] = TRUE /\ verdict'[r] = "FAIL"
        \/ /\ faulted'[r] = faulted[r] /\ pc'[r] = "createDatabase" /\ listed'[r] = Pods
           /\ verdict'[r] = AddCheck(verdict[r], "PASS")
    <3>1. PICK pods \in SUBSET Pods, healthy \in BOOLEAN :
            /\ healthy => pods = Pods
            /\ listed' = [listed EXCEPT ![r] = pods]
            /\ pc'[r] = IF pods = {} THEN "conclude" ELSE "createDatabase"
            /\ verdict'[r] = AddCheck(verdict[r], IF healthy THEN "PASS" ELSE "FAIL")
            /\ faulted' = [faulted EXCEPT ![r] = faulted[r] \/ ~healthy]
      BY <1>1 DEF Inspect
    <3>2. CASE healthy
      BY <3>1, <3>2, PodsOfShards
    <3>3. CASE ~healthy
      BY <3>1, <3>3, Checks
    <3> QED
      BY <3>2, <3>3
  <2>3. verdict'[r] = AddCheck(verdict[r], "PASS") =>
           (verdict'[r] = "FAIL" <=> verdict[r] = "FAIL")
    BY Checks DEF AddCheck, Statuses
  <2>4. PlaceInv(r)'
    BY <2>1, <2>2, <2>3, StepsApart DEF PlaceInv, BeforeWrite, Afterwards
  <2>5. RowsInv(r)'
    BY <2>1, <2>2, <2>3, StepsApart DEF RowsInv, BeforeWrite, Afterwards
  <2> QED
    BY <2>4, <2>5
<1>2. CASE CtxStopsProbe(r) \/ ExecFault(r)
  BY <1>2, FailedProbe DEF CtxStopsProbe, ExecFault, ExecStops
<1>3. CASE CreateDatabase(r)
  <2>1. /\ pc[r] = "createDatabase" /\ pc'[r] = "validateBefore"
        /\ UNCHANGED <<verdict, faulted, disturbed, script, listed>>
    BY <1>3 DEF CreateDatabase
  <2> QED
    BY <2>1, StepsApart DEF PlaceInv, RowsInv, BeforeWrite, Afterwards
<1>4. CASE CreateTables(r)
  <2>1. /\ pc[r] = "createTables" /\ pc'[r] = "validateAfter"
        /\ UNCHANGED <<at, verdict, faulted, disturbed, script, listed>>
    BY <1>4 DEF CreateTables
  <2> QED
    BY <2>1, StepsApart DEF PlaceInv, RowsInv, BeforeWrite, Afterwards
<1>5. CASE StartWrite(r)
  <2>1. /\ pc[r] = "startWrite" /\ pc'[r] = "writing" /\ script'[r] = "truncate"
        /\ UNCHANGED <<at, verdict, faulted, disturbed, listed>>
    BY <1>5 DEF StartWrite
  <2> QED
    BY <2>1, StepsApart DEF PlaceInv, RowsInv, BeforeWrite, Afterwards
<1>6. CASE ValidateBefore(r) \/ ValidateAfter(r)
  <2>1. CASE ProbeFails(r)
    BY <1>6, <2>1, FailedProbe DEF ValidateBefore, ValidateAfter
  <2>2. CASE ~ProbeFails(r)
    <3>1. /\ pc[r] \in {"validateBefore", "validateAfter"}
          /\ UNCHANGED <<verdict, faulted, disturbed, script, listed>>
          /\ \/ pc' = pc
             \/ at'[r] = 1 /\ pc'[r] \in {"createTables", "startWrite"}
      BY <1>6, <2>2 DEF ValidateBefore, ValidateAfter, ValidatePod, NextPod
    <3> QED
      BY <3>1, StepsApart DEF PlaceInv, RowsInv, BeforeWrite, Afterwards
  <2> QED
    BY <2>1, <2>2
<1>7. CASE WriteReturns(r)
  <2>1. CASE ProbeFails(r)
    BY <1>7, <2>1, FailedProbe DEF WriteReturns
  <2>2. CASE ~ProbeFails(r)
    <3>1. /\ pc[r] = "writing" /\ pc'[r] = "sync" /\ script[r] = "finished"
          /\ UNCHANGED <<at, verdict, faulted, disturbed, script, committed, applied, listed>>
      BY <1>7, <2>2 DEF WriteReturns
    <3>2. PlaceInv(r)'
      BY <3>1, StepsApart, PodsOfShards DEF PlaceInv, BeforeWrite, Afterwards
    <3>3. \A p \in Pods : ~(p < 1)
      BY PodsAssumption DEF Pods
    <3>4. RowsInv(r)'
      BY <3>1, <3>3, StepsApart DEF PlaceInv, RowsInv, BeforeWrite, Afterwards, Synced, Fresh
    <3> QED
      BY <3>2, <3>4
  <2> QED
    BY <2>1, <2>2
<1>8. CASE SyncReplica(r)
  <2> DEFINE c == ClusterOf[r]
  <2>1. /\ pc[r] = "sync" /\ script[r] = "finished"
        /\ UNCHANGED <<verdict, faulted, disturbed, script, committed, applied, listed>>
        /\ ~faulted[r] => applied[c][at[r]] = committed[c][ShardOf[at[r]]]
        /\ at[r] \in Pods /\ c \in Clusters
    BY <1>8 DEF SyncReplica, PlaceInv
  <2>2. \/ at[r] < NumPods /\ at'[r] = at[r] + 1 /\ pc'[r] = "sync"
        \/ ~(at[r] < NumPods) /\ at'[r] = 1 /\ pc'[r] = "assert"
    BY <1>8 DEF SyncReplica, NextPod
  <2>3. PlaceInv(r)'
    <3>1. /\ at[r] < NumPods => at[r] + 1 \in Pods
          /\ 1 \in 1 .. 3
      BY <2>1, PodsAssumption DEF Pods
    <3> QED
      BY <2>1, <2>2, <3>1, StepsApart DEF PlaceInv, BeforeWrite, Afterwards
  <2>4. ASSUME Synced(c, at[r]), ~faulted[r]
        PROVE  Fresh(c) /\ \A p \in Pods : p < at[r] + 1 => applied[c][p] = 1
    <3>1. applied[c][at[r]] = 1
      BY <2>1, <2>4, PodsOfShards DEF Synced, Fresh
    <3>2. \A p \in Pods : p < at[r] + 1 => p < at[r] \/ p = at[r]
      BY <2>1 DEF Pods
    <3> QED
      BY <2>4, <3>1, <3>2 DEF Synced
  <2>5. ~(at[r] < NumPods) => \A p \in Pods : p < at[r] + 1
    BY <2>1, PodsAssumption DEF Pods
  <2>6. RowsInv(r)'
    BY <2>1, <2>2, <2>4, <2>5, StepsApart
    DEF RowsInv, Synced, AllOne, Fresh, BeforeWrite, Afterwards
  <2> QED
    BY <2>3, <2>6
<1>9. CASE CheckAssertion(r)
  <2> DEFINE c == ClusterOf[r]
  <2>1. /\ pc[r] = "assert" /\ at[r] \in 1 .. 3 /\ c \in Clusters
        /\ UNCHANGED <<faulted, disturbed, script, committed, applied, listed>>
        /\ script[r] = "finished"
    BY <1>9 DEF CheckAssertion, PlaceInv
  <2>2. \/ /\ UNCHANGED verdict
           /\ \/ pc'[r] = "assert" /\ at'[r] = at[r] + 1 /\ at[r] < 3
              \/ pc'[r] = "conclude"
        \/ /\ pc'[r] = "conclude" /\ verdict'[r] = "FAIL" /\ ~AllOne(c)
    BY <1>9, <2>1, AssertionsHold, Checks DEF CheckAssertion, NumAssertions
  <2>3. PlaceInv(r)'
    BY <2>1, <2>2, StepsApart DEF PlaceInv, BeforeWrite, Afterwards
  <2>4. RowsInv(r)'
    BY <2>1, <2>2, StepsApart DEF RowsInv, AllOne, Fresh, BeforeWrite, Afterwards
  <2> QED
    BY <2>3, <2>4
<1>10. CASE Conclude(r)
  <2> DEFINE c == ClusterOf[r]
  <2>1. /\ pc[r] = "conclude" /\ pc'[r] = "store" /\ c \in Clusters
        /\ UNCHANGED <<at, disturbed, script, committed, applied, listed>>
    BY <1>10 DEF Conclude
  <2>2. AllOne(c) => CaughtUp(c)
    BY <2>1, PodsOfShards DEF AllOne, Fresh, CaughtUp
  <2>3. \/ verdict'[r] = "FAIL" /\ (faulted'[r] = TRUE \/ ~CaughtUp(c))
        \/ /\ faulted'[r] = faulted[r]
           /\ \E status \in {"PASS", "WARN"} : verdict'[r] = AddCheck(verdict[r], status)
    BY <1>10, Checks DEF Conclude
  <2>4. \A status \in {"PASS", "WARN"} : AddCheck(verdict[r], status) = "FAIL" <=> verdict[r] = "FAIL"
    BY DEF AddCheck, Statuses
  <2>5. faulted[r] => faulted'[r]
    BY <1>10 DEF Conclude
  <2>6. faulted[r] => verdict[r] = "FAIL"
    BY DEF PlaceInv
  <2>7. PlaceInv(r)'
    BY <1>10, <2>1, <2>3, <2>4, <2>5, <2>6, Checks, StepsApart DEF PlaceInv, BeforeWrite, Afterwards
  <2>8. RowsInv(r)'
    BY <2>1, <2>2, <2>3, <2>4, <2>5, StepsApart
    DEF RowsInv, AllOne, Fresh, BeforeWrite, Afterwards
  <2> QED
    BY <2>7, <2>8
<1> QED
  BY <1>1, <1>2, <1>3, <1>4, <1>5, <1>6, <1>7, <1>8, <1>9, <1>10 DEF Inside

(* The script of a request changes rows under the requests of its cluster  *)
(* only. Those that rely on the rows are noted as disturbed; when the      *)
(* handler still waits for its script there are none, by the mutex.        *)
LEMMA ScriptFrame ==
    ASSUME TypeOK, HolderInv, OneProcessEach, NEW r \in Requests,
           NEW q \in Requests, q # r, PlaceInv(q) /\ RowsInv(q),
           UNCHANGED <<handlerVars, listed, faulted>>, Disturbs(r),
           script'[q] = script[q], toInsert'[q] = toInsert[q],
           \A c \in Clusters : c # ClusterOf[r] =>
               committed'[c] = committed[c] /\ applied'[c] = applied[c]
    PROVE  (PlaceInv(q) /\ RowsInv(q))'
<1> USE RequestsAssumption
<1>1. PlaceInv(q)'
  BY DEF PlaceInv, handlerVars
<1>2. disturbed[q] => disturbed'[q]
  BY DEF Disturbs, TypeOK
<1>3. CASE ClusterOf[q] # ClusterOf[r]
  BY <1>1, <1>2, <1>3 DEF RowsInv, Half, Fresh, Synced, AllOne, handlerVars
<1>4. CASE ClusterOf[q] = ClusterOf[r] /\ pc[q] \in {"writing", "sync", "assert"} \cup Afterwards
  <2>1. pc[q] \in LockedSteps
    BY <1>4 DEF LockedSteps, ProbeSteps, Afterwards
  <2>2. pc[r] # "writing"
    <3> SUFFICES ASSUME pc[r] = "writing" PROVE FALSE
      OBVIOUS
    <3>1. pc[r] \in LockedSteps
      BY DEF LockedSteps, ProbeSteps
    <3>2. Key(q) = Key(r)
      BY <1>4 DEF Key, OneProcessEach
    <3> QED
      BY <2>1, <3>1, <3>2, HolderUnique
  <2>3. disturbed'[q]
    BY <1>4, <2>2 DEF Disturbs, Afterwards
  <2> QED
    BY <1>1, <2>3 DEF RowsInv
<1>5. CASE pc[q] \notin {"writing", "sync", "assert"} \cup Afterwards
  BY <1>1, <1>2, <1>5 DEF RowsInv, handlerVars
<1> QED
  BY <1>3, <1>4, <1>5

(* A request whose script is running either waits for it or has failed.    *)
LEMMA Waiting ==
    ASSUME NEW r \in Requests, PlaceInv(r), Running(r), ~faulted[r]
    PROVE  /\ pc[r] \notin BeforeWrite \cup {"sync", "assert"} \cup Afterwards
BY DEF PlaceInv, Running

LEMMA ProbeTruncate ==
    ASSUME TypeOK, HolderInv, OneProcessEach, ProbeInv, NEW r \in Requests, ScriptTruncate(r)
    PROVE  ProbeInv'
<1> USE RequestsAssumption DEF TypeOK
<1>1. /\ script[r] = "truncate" /\ UNCHANGED <<handlerVars, listed, faulted>> /\ Disturbs(r)
      /\ script' = [script EXCEPT ![r] = "insert"]
      /\ toInsert' = [toInsert EXCEPT ![r] = Shards]
      /\ committed' = [committed EXCEPT ![ClusterOf[r]] = [s \in Shards |-> 0]]
      /\ applied' = [applied EXCEPT ![ClusterOf[r]] = [p \in Pods |-> 0]]
  BY DEF ScriptTruncate
<1>2. ASSUME NEW q \in Requests, q # r PROVE (PlaceInv(q) /\ RowsInv(q))'
  <2>1. /\ script'[q] = script[q] /\ toInsert'[q] = toInsert[q]
        /\ \A c \in Clusters : c # ClusterOf[r] =>
               committed'[c] = committed[c] /\ applied'[c] = applied[c]
    BY <1>1, <1>2
  <2>2. PlaceInv(q) /\ RowsInv(q)
    BY DEF ProbeInv
  <2> QED
    BY <1>1, <1>2, <2>1, <2>2, ScriptFrame
<1>3. PlaceInv(r) /\ RowsInv(r) /\ Running(r)
  BY <1>1 DEF ProbeInv, Running
<1>4. script'[r] = "insert" /\ toInsert'[r] = Shards /\ ClusterOf[r] \in Clusters
      /\ committed'[ClusterOf[r]] = [s \in Shards |-> 0]
      /\ applied'[ClusterOf[r]] = [p \in Pods |-> 0]
  BY <1>1
<1>5. PlaceInv(r)'
  BY <1>1, <1>3, <1>4 DEF PlaceInv, handlerVars
<1>6. Half(ClusterOf[r], toInsert[r])'
  BY <1>4, PodsOfShards DEF Half
<1>7. disturbed[r] => disturbed'[r]
  BY <1>1 DEF Disturbs
<1>8. RowsInv(r)'
  BY <1>1, <1>3, <1>4, <1>6, <1>7, Waiting DEF RowsInv, handlerVars
<1> QED
  BY <1>2, <1>5, <1>8 DEF ProbeInv

LEMMA ProbeInsert ==
    ASSUME TypeOK, HolderInv, OneProcessEach, ProbeInv, NEW r \in Requests, NEW s \in Shards,
           ScriptInsert(r, s)
    PROVE  ProbeInv'
<1> USE RequestsAssumption DEF TypeOK
<1> DEFINE c == ClusterOf[r]
<1>1. /\ script[r] = "insert" /\ UNCHANGED <<handlerVars, listed, faulted>> /\ Disturbs(r)
      /\ s \in toInsert[r] /\ c \in Clusters
      /\ toInsert' = [toInsert EXCEPT ![r] = toInsert[r] \ {s}]
      /\ script' = [script EXCEPT ![r] = IF toInsert[r] = {s} THEN "finished" ELSE "insert"]
  BY DEF ScriptInsert
<1>2. PICK p \in Replicas(s),
           batches \in {committed[c][s] + 1} \cup ({committed[c][s]} \ {0}) :
        /\ committed' = [committed EXCEPT ![c][s] = batches]
        /\ applied' = [applied EXCEPT ![c][p] = batches]
  BY DEF ScriptInsert
<1>3. p \in Pods /\ ShardOf[p] = s
  BY PodsOfShards
<1>4. /\ \A k \in Clusters : k # c => committed'[k] = committed[k] /\ applied'[k] = applied[k]
      /\ \A t \in Shards : committed'[c][t] = IF t = s THEN batches ELSE committed[c][t]
      /\ \A n \in Pods : applied'[c][n] = IF n = p THEN batches ELSE applied[c][n]
  BY <1>1, <1>2, <1>3
<1>5. ASSUME NEW q \in Requests, q # r PROVE (PlaceInv(q) /\ RowsInv(q))'
  <2>1. script'[q] = script[q] /\ toInsert'[q] = toInsert[q]
    BY <1>1, <1>5
  <2>2. PlaceInv(q) /\ RowsInv(q)
    BY DEF ProbeInv
  <2> QED
    BY <1>1, <1>4, <1>5, <2>1, <2>2, ScriptFrame
<1>6. PlaceInv(r) /\ RowsInv(r) /\ Running(r)
  BY <1>1 DEF ProbeInv, Running
<1>7. /\ script'[r] = IF toInsert[r] = {s} THEN "finished" ELSE "insert"
      /\ toInsert'[r] = toInsert[r] \ {s}
      /\ toInsert[r] \subseteq Shards
  BY <1>1
<1>8. PlaceInv(r)'
  BY <1>1, <1>6, <1>7 DEF PlaceInv, handlerVars
<1>9. disturbed[r] => disturbed'[r]
  BY <1>1 DEF Disturbs
<1>10. ASSUME Half(c, toInsert[r]) PROVE Half(c, toInsert[r])'
  <2>1. committed[c][s] = 0 /\ batches = 1
    BY <1>1, <1>2, <1>10 DEF Half
  <2> SUFFICES ASSUME NEW t \in Shards
               PROVE  IF t \in toInsert[r] \ {s}
                      THEN committed'[c][t] = 0 /\ \A n \in Replicas(t) : applied'[c][n] = 0
                      ELSE committed'[c][t] = 1 /\ \A n \in Replicas(t) : applied'[c][n] \in {0, 1}
    BY <1>7 DEF Half
  <2>2. CASE t = s
    <3>1. \A n \in Replicas(t) : applied[c][n] = 0
      BY <1>1, <1>10, <2>2 DEF Half
    <3> QED
      BY <1>4, <2>1, <2>2, <3>1, PodsOfShards
  <2>3. CASE t # s
    <3>1. p \notin Replicas(t)
      BY <1>3, <2>3 DEF Replicas
    <3> QED
      BY <1>4, <1>10, <2>3, <3>1, PodsOfShards DEF Half
  <2> QED
    BY <2>2, <2>3
<1>11. ASSUME Half(c, toInsert[r]), toInsert[r] = {s} PROVE Fresh(c)'
  <2>1. Half(c, {})'
    BY <1>7, <1>10, <1>11 DEF Half
  <2> QED
    BY <2>1, PodsOfShards DEF Half, Fresh
<1>12. RowsInv(r)'
  BY <1>1, <1>6, <1>7, <1>9, <1>10, <1>11, Waiting DEF RowsInv, handlerVars
<1> QED
  BY <1>5, <1>8, <1>12 DEF ProbeInv

(* A script that stops, and a replica that catches up.                     *)
LEMMA ProbeScriptFails ==
    ASSUME TypeOK, ProbeInv, NEW r \in Requests, ScriptFails(r)
    PROVE  ProbeInv'
<1>1. /\ Running(r) /\ script' = [script EXCEPT ![r] = "failed"]
      /\ UNCHANGED <<handlerVars, listed, faulted, disturbed, toInsert, committed, applied>>
  BY DEF ScriptFails, historyVars
<1>2. ASSUME NEW q \in Requests, q # r PROVE (PlaceInv(q) /\ RowsInv(q))'
  <2>1. SameRequest(q) /\ toInsert'[q] = toInsert[q]
    BY <1>1, <1>2 DEF SameRequest, handlerVars, TypeOK
  <2>2. PlaceInv(q) /\ RowsInv(q)
    BY DEF ProbeInv
  <2> QED
    BY <1>1, <2>1, <2>2, Untouched
<1>3. PlaceInv(r) /\ RowsInv(r) /\ script'[r] = "failed"
  BY <1>1 DEF ProbeInv, TypeOK
<1>4. PlaceInv(r)'
  BY <1>1, <1>3 DEF PlaceInv, Running, handlerVars
<1>5. RowsInv(r)'
  BY <1>1, <1>3, Waiting DEF RowsInv, handlerVars
<1> QED
  BY <1>2, <1>4, <1>5 DEF ProbeInv

LEMMA ProbeReplicate ==
    ASSUME TypeOK, ProbeInv, NEW c \in Clusters, NEW p \in Pods, Replicate(c, p)
    PROVE  ProbeInv'
<1> USE RequestsAssumption DEF TypeOK
<1> SUFFICES ASSUME NEW q \in Requests PROVE (PlaceInv(q) /\ RowsInv(q))'
  BY DEF ProbeInv
<1>1. PlaceInv(q) /\ RowsInv(q)
  BY DEF ProbeInv
<1>2. /\ UNCHANGED <<handlerVars, listed, faulted, disturbed, script, toInsert, committed>>
      /\ applied' = [applied EXCEPT ![c][p] = committed[c][ShardOf[p]]]
  BY DEF Replicate, historyVars
<1>3. /\ \A k \in Clusters : k # c => applied'[k] = applied[k]
      /\ \A n \in Pods : applied'[c][n] = IF n = p THEN committed[c][ShardOf[p]] ELSE applied[c][n]
  BY <1>2
<1>4. PlaceInv(q)'
  BY <1>1, <1>2 DEF PlaceInv, handlerVars
<1>5. CASE ClusterOf[q] # c
  BY <1>1, <1>2, <1>3, <1>4, <1>5 DEF RowsInv, Half, Fresh, Synced, AllOne, handlerVars
<1>6. CASE ClusterOf[q] = c
  <2>1. Half(c, toInsert[q]) => Half(c, toInsert[q])'
    <3> SUFFICES ASSUME Half(c, toInsert[q]), NEW t \in Shards
                 PROVE  IF t \in toInsert[q]
                        THEN committed[c][t] = 0 /\ \A n \in Replicas(t) : applied'[c][n] = 0
                        ELSE committed[c][t] = 1 /\ \A n \in Replicas(t) : applied'[c][n] \in {0, 1}
      BY <1>2 DEF Half
    <3>1. \A n \in Replicas(t) : n \in Pods /\ (n = p => ShardOf[p] = t)
      BY PodsOfShards
    <3> QED
      BY <1>3, <3>1 DEF Half
  <2>2. Fresh(c) => Fresh(c)'
    BY <1>2, <1>3, PodsOfShards DEF Fresh
  <2>3. \A n : Synced(c, n) => Synced(c, n)'
    BY <1>2, <1>3, <2>2, PodsOfShards DEF Synced, Fresh
  <2>4. AllOne(c) => AllOne(c)'
    BY <1>2, <1>3, <2>2, PodsOfShards DEF AllOne, Fresh
  <2>5. Synced(c, at[q]) => Synced(c, at[q])'
    BY <1>2, <2>3 DEF handlerVars
  <2>6. RowsInv(q)'
    BY <1>1, <1>2, <1>6, <2>1, <2>2, <2>4, <2>5 DEF RowsInv, handlerVars
  <2> QED
    BY <1>4, <2>6
<1> QED
  BY <1>5, <1>6

LEMMA ProbeHandler ==
    ASSUME TypeOK, ProbeInv, NEW r \in Requests, Handler(r)
    PROVE  ProbeInv'
<1>1. ASSUME NEW q \in Requests, q # r PROVE (PlaceInv(q) /\ RowsInv(q))'
  <2>1. SameRequest(q) /\ UNCHANGED <<committed, applied>> /\ toInsert'[q] = toInsert[q]
    BY <1>1, HandlerFrame
  <2>2. PlaceInv(q) /\ RowsInv(q)
    BY DEF ProbeInv
  <2> QED
    BY <2>1, <2>2, Untouched
<1>2. PlaceInv(r) /\ RowsInv(r)
  BY DEF ProbeInv
<1>3. CASE Inside(r)
  BY <1>1, <1>2, <1>3, ProbeInside DEF ProbeInv
<1>4. CASE Arrive(r) \/ Acquire(r) \/ GetCluster(r) \/ Store(r) \/ Respond(r)
  <2>1. /\ at'[r] = at[r] /\ verdict'[r] = verdict[r] /\ faulted'[r] = faulted[r]
        /\ disturbed'[r] = disturbed[r] /\ script'[r] = script[r] /\ toInsert'[r] = toInsert[r]
        /\ listed'[r] = listed[r] /\ UNCHANGED <<committed, applied>>
    BY <1>4 DEF Arrive, Acquire, GetCluster, Store, Respond, clickHouseVars, historyVars
  <2>2. \/ pc[r] \in BeforeWrite /\ pc'[r] \in BeforeWrite \ {"startWrite"}
        \/ pc[r] \in Afterwards /\ pc'[r] \in Afterwards
        \/ pc'[r] \in EndSteps
    BY <1>4 DEF Arrive, Acquire, GetCluster, Store, Respond, GoTo, TypeOK,
                BeforeWrite, Afterwards, EndSteps
  <2>3. (PlaceInv(r) /\ RowsInv(r))'
    BY <1>2, <2>1, <2>2, GetsOn
  <2> QED
    BY <1>1, <2>3 DEF ProbeInv
<1>5. CASE Expire(r)
  <2>1. SameRequest(r) /\ UNCHANGED <<committed, applied>> /\ toInsert'[r] = toInsert[r]
    BY <1>5 DEF Expire, SameRequest, clickHouseVars, historyVars
  <2>2. (PlaceInv(r) /\ RowsInv(r))'
    BY <1>2, <2>1, Untouched
  <2> QED
    BY <1>1, <2>2 DEF ProbeInv
<1> QED
  BY <1>3, <1>4, <1>5 DEF Handler

LEMMA ProbeCrash ==
    ASSUME TypeOK, ProbeInv, NEW s \in Servers, Crash(s)
    PROVE  ProbeInv'
<1> SUFFICES ASSUME NEW q \in Requests PROVE (PlaceInv(q) /\ RowsInv(q))'
  BY DEF ProbeInv
<1>1. PlaceInv(q) /\ RowsInv(q)
  BY DEF ProbeInv
<1>2. /\ UNCHANGED <<at, verdict, listed, faulted, disturbed, script, toInsert, committed, applied>>
      /\ pc'[q] = pc[q] \/ pc'[q] = "lost"
  BY DEF Crash, clickHouseVars
<1>3. CASE pc'[q] = pc[q]
  BY <1>1, <1>2, <1>3, Untouched DEF SameRequest
<1>4. CASE pc'[q] = "lost"
  BY <1>1, <1>2, <1>4, GetsOn DEF EndSteps
<1> QED
  BY <1>2, <1>3, <1>4

LEMMA ProbeInit == Init => ProbeInv
<1> SUFFICES ASSUME Init, NEW q \in Requests PROVE PlaceInv(q) /\ RowsInv(q)
  BY DEF ProbeInv
<1>1. /\ pc[q] = "idle" /\ verdict[q] = "PASS" /\ listed[q] = Pods /\ script[q] = "none" /\ faulted[q] = FALSE
      /\ "idle" \in BeforeWrite
  BY DEF Init, BeforeWrite
<1> QED
  BY <1>1, StepsApart DEF PlaceInv, RowsInv

LEMMA ProbeStep ==
    ASSUME OneProcessEach PROVE IInv /\ ProbeInv /\ [Next]_vars => ProbeInv'
<1> SUFFICES ASSUME TypeOK, HolderInv, ProbeInv, [Next]_vars PROVE ProbeInv'
  BY DEF IInv
<1>1. ASSUME NEW r \in Requests, Handler(r) PROVE ProbeInv'
  BY <1>1, ProbeHandler
<1>2. ASSUME NEW r \in Requests, RunScript(r) PROVE ProbeInv'
  BY <1>2, ProbeTruncate, ProbeInsert, ProbeScriptFails DEF RunScript
<1>3. ASSUME NEW c \in Clusters, NEW p \in Pods, Replicate(c, p) PROVE ProbeInv'
  BY <1>3, ProbeReplicate
<1>4. ASSUME NEW s \in Servers, Crash(s) PROVE ProbeInv'
  BY <1>4, ProbeCrash
<1>5. ASSUME UNCHANGED <<handlerVars, listed, script, toInsert, committed, applied, faulted, disturbed>>
      PROVE  ProbeInv'
  <2> SUFFICES ASSUME NEW q \in Requests PROVE (PlaceInv(q) /\ RowsInv(q))'
    BY DEF ProbeInv
  <2>1. PlaceInv(q) /\ RowsInv(q) /\ SameRequest(q) /\ toInsert'[q] = toInsert[q]
        /\ UNCHANGED <<committed, applied>>
    BY <1>5 DEF ProbeInv, SameRequest, handlerVars
  <2> QED
    BY <2>1, Untouched
<1>6. ASSUME \/ \E k \in Keys : GetLatest(k)
             \/ \E c \in Clusters, p \in Pods : Drift(c, p)
             \/ Rest \/ UNCHANGED vars
      PROVE  ProbeInv'
  BY <1>5, <1>6 DEF GetLatest, Drift, Rest, vars, clickHouseVars, historyVars
<1> QED
  BY <1>1, <1>2, <1>3, <1>4, <1>6 DEF Next, Handle, Handler, Inside

LEMMA ProbeInvariance == ASSUME OneProcessEach PROVE Spec => [](IInv /\ ProbeInv)
<1>1. Init => ProbeInv
  BY ProbeInit
<1>2. IInv /\ ProbeInv /\ [Next]_vars => ProbeInv'
  BY ProbeStep
<1> QED
  BY <1>1, <1>2, Invariance, PTL DEF Spec

(* A healthcheck that FAILs always has a reason other than the probe       *)
(* itself, whatever the replication lag, the restarts and the drifts: when *)
(* one process serves a cluster, the mutex keeps the rows of a run from    *)
(* every other request that is still served.                               *)
THEOREM FailHasAReason == ASSUME OneProcessEach PROVE Spec => []FailIsExplained
<1>1. IInv /\ ProbeInv => FailIsExplained
  BY DEF ProbeInv, RowsInv, FailIsExplained
<1> QED
  BY <1>1, ProbeInvariance, PTL

(* And one that does not FAIL proves the replicas equal.                   *)
THEOREM PassProvesReplication == ASSUME OneProcessEach PROVE Spec => []PassMeansReplicated
<1>1. IInv /\ ProbeInv => PassMeansReplicated
  BY DEF ProbeInv, PlaceInv, RowsInv, AllOne, Afterwards, PassMeansReplicated
<1> QED
  BY <1>1, ProbeInvariance, PTL

-----------------------------------------------------------------------------
(* Tables that are not the probe's. *)

(* As long as no run of the cluster has missed a pod, a table of somebody  *)
(* else's that was there from the start is quiet.                          *)
AllList(c, p) == \A r \in Requests : ClusterOf[r] = c => p \in listed[r]
DriftInv ==
    \A c \in Clusters, p \in Pods :
        tables[c][p] = "drifted" /\ AllList(c, p) => Quiet(c, p)

(* A request lists its pods once.                                          *)
NotListed == {"idle", "locking", "getCluster", "inspect"}
ListInv == \A r \in Requests : pc[r] \in NotListed => listed[r] = Pods

LEMMA ListStep ==
    ASSUME TypeOK, ListInv, [Next]_vars
    PROVE  ListInv' /\ \A q \in Requests : listed'[q] \subseteq listed[q]
<1> USE DEF ListInv, GoTo, TypeOK, NotListed
<1>1. ASSUME NEW r \in Requests, Inspect(r)
      PROVE  ListInv' /\ \A q \in Requests : listed'[q] \subseteq listed[q]
  <2>1. PICK pods \in SUBSET Pods : listed' = [listed EXCEPT ![r] = pods]
    BY <1>1 DEF Inspect
  <2>2. pc[r] = "inspect" /\ pc'[r] \in {"conclude", "createDatabase"}
        /\ \A q \in Requests : q # r => pc'[q] = pc[q]
    BY <1>1 DEF Inspect
  <2> QED
    BY <2>1, <2>2
<1>2. ASSUME UNCHANGED listed, \A q \in Requests : pc'[q] \in NotListed => pc[q] \in NotListed
      PROVE  ListInv' /\ \A q \in Requests : listed'[q] \subseteq listed[q]
  BY <1>2
<1>3. ASSUME NEW r \in Requests,
             Arrive(r) \/ Acquire(r) \/ GetCluster(r) \/ Store(r) \/ Respond(r) \/ Expire(r)
      PROVE  UNCHANGED listed /\ \A q \in Requests : pc'[q] \in NotListed => pc[q] \in NotListed
  BY <1>3 DEF Arrive, Acquire, GetCluster, Store, Respond, Expire
<1>4. ASSUME NEW r \in Requests,
             CreateDatabase(r) \/ CreateTables(r) \/ StartWrite(r) \/ Conclude(r)
             \/ CtxStopsProbe(r) \/ ExecFault(r) \/ WriteReturns(r)
      PROVE  UNCHANGED listed /\ \A q \in Requests : pc'[q] \in NotListed => pc[q] \in NotListed
  BY <1>4 DEF CreateDatabase, CreateTables, StartWrite, Conclude, CtxStopsProbe, ExecFault,
              ExecStops, ProbeFails, WriteReturns
<1>5. ASSUME NEW r \in Requests,
             ValidateBefore(r) \/ ValidateAfter(r) \/ SyncReplica(r) \/ CheckAssertion(r)
      PROVE  UNCHANGED listed /\ \A q \in Requests : pc'[q] \in NotListed => pc[q] \in NotListed
  BY <1>5 DEF ValidateBefore, ValidateAfter, SyncReplica, CheckAssertion, ValidatePod, NextPod, ProbeFails
<1>6. ASSUME NEW s \in Servers, Crash(s)
      PROVE  UNCHANGED listed /\ \A q \in Requests : pc'[q] \in NotListed => pc[q] \in NotListed
  BY <1>6 DEF Crash
<1>7. ASSUME \/ \E r \in Requests : RunScript(r)
             \/ \E k \in Keys : GetLatest(k)
             \/ \E c \in Clusters, p \in Pods : Replicate(c, p) \/ Drift(c, p)
             \/ Rest \/ UNCHANGED vars
      PROVE  UNCHANGED <<listed, pc>>
  BY <1>7 DEF RunScript, ScriptTruncate, ScriptInsert, ScriptFails, GetLatest, Replicate, Drift,
              Rest, vars, handlerVars
<1> QED
  BY <1>1, <1>2, <1>3, <1>4, <1>5, <1>6, <1>7 DEF Next, Handle

(* A handler creates missing tables and leaves those of others.            *)
LEMMA TablesFrame ==
    ASSUME TypeOK, NEW r \in Requests, Handler(r), NEW c \in Clusters, NEW p \in Pods
    PROVE  tables'[c][p] = "drifted" <=> tables[c][p] = "drifted"
<1> USE RequestsAssumption DEF TypeOK
<1>1. TablesCreated(ClusterOf[r])[c][p] = "drifted" <=> tables[c][p] = "drifted"
  BY DEF TablesCreated
<1>2. CASE CreateTables(r) \/ CtxStopsProbe(r) \/ ExecFault(r)
  BY <1>1, <1>2 DEF CreateTables, CtxStopsProbe, ExecFault, ExecStops
<1>3. CASE ~(CreateTables(r) \/ CtxStopsProbe(r) \/ ExecFault(r))
  BY <1>3 DEF Handler, Inside, Arrive, Acquire, GetCluster, Store, Respond, Expire, Inspect,
              CreateDatabase, ValidateBefore, ValidateAfter, StartWrite, WriteReturns,
              SyncReplica, CheckAssertion, Conclude, clickHouseVars
<1> QED
  BY <1>2, <1>3

LEMMA BarredStep ==
    ASSUME TypeOK, NEW r \in Requests, Handler(r), NEW p \in Pods, Barred(r, p),
           tables[ClusterOf[r]][p] = "drifted", p \in listed[r]
    PROVE  Barred(r, p)'
<1> USE RequestsAssumption DEF TypeOK, GoTo, PastValidation, Running
<1>1. pc[r] \notin PastValidation /\ ~Running(r)
  BY DEF Barred
<1>2. CASE Arrive(r) \/ Acquire(r) \/ GetCluster(r) \/ Store(r) \/ Respond(r) \/ Expire(r)
  BY <1>1, <1>2 DEF Arrive, Acquire, GetCluster, Store, Respond, Expire, Barred, clickHouseVars
<1>3. CASE Inspect(r) \/ Conclude(r)
  BY <1>1, <1>3 DEF Inspect, Conclude, Barred, clickHouseVars
<1>4. CASE CreateDatabase(r)
  <2>1. /\ pc'[r] = "validateBefore" /\ at'[r] = 1 /\ script' = script /\ 1 <= p
    BY <1>4 DEF CreateDatabase, clickHouseVars, Pods
  <2> QED
    BY <1>1, <2>1 DEF Barred
<1>5. CASE CtxStopsProbe(r) \/ ExecFault(r)
  BY <1>1, <1>5 DEF CtxStopsProbe, ExecFault, ExecStops, ProbeFails, Barred
<1>6. CASE ValidateBefore(r)
  <2>1. pc[r] = "validateBefore" /\ script' = script /\ at[r] <= p
    BY <1>6 DEF ValidateBefore, clickHouseVars, Barred
  <2>2. CASE ProbeFails(r)
    BY <1>1, <2>1, <2>2 DEF ProbeFails, Barred
  <2>3. CASE ~ProbeFails(r)
    <3>1. ValidDefinition(r, TRUE) /\ NextPod(r, "createTables")
      BY <1>6, <2>3 DEF ValidateBefore, ValidatePod
    <3>2. at[r] # p
      BY <3>1 DEF ValidDefinition
    <3>3. at[r] < NumPods /\ at[r] + 1 <= p
      BY <2>1, <3>2, PodsAssumption DEF Pods
    <3>4. at'[r] = at[r] + 1 /\ pc' = pc
      BY <3>1, <3>3 DEF NextPod
    <3> QED
      BY <2>1, <3>3, <3>4 DEF Barred
  <2> QED
    BY <2>2, <2>3
<1>7. CASE CreateTables(r) \/ ValidateAfter(r) \/ StartWrite(r) \/ WriteReturns(r)
           \/ SyncReplica(r) \/ CheckAssertion(r)
  BY <1>1, <1>7 DEF CreateTables, ValidateAfter, StartWrite, WriteReturns, SyncReplica, CheckAssertion
<1> QED
  BY <1>2, <1>3, <1>4, <1>5, <1>6, <1>7 DEF Handler, Inside

LEMMA DriftInit == Init => DriftInv /\ ListInv
<1> SUFFICES ASSUME Init, NEW c \in Clusters, NEW p \in Pods, tables[c][p] = "drifted"
             PROVE  Quiet(c, p)
  BY DEF DriftInv, ListInv, Init
<1>1. committed = [k \in Clusters |-> [s \in Shards |-> 1]]
      /\ applied = [k \in Clusters |-> [n \in Pods |-> 1]]
  BY DEF Init
<1>2. CaughtUp(c)
  BY <1>1, PodsOfShards DEF CaughtUp
<1>3. \A r \in Requests : Barred(r, p)
  BY DEF Init, Barred, PastValidation, Running
<1> QED
  BY <1>2, <1>3 DEF Quiet

(* What is quiet stays so and is not touched, as long as the runs list the *)
(* pod: handlers are stopped by its validation, there is no script, and    *)
(* nothing to replicate.                                                   *)
LEMMA QuietStep ==
    ASSUME TypeOK, ListInv, [Next]_vars, NEW c \in Clusters, NEW p \in Pods, Quiet(c, p)
    PROVE  /\ UNCHANGED <<committed[c], applied[c]>>
           /\ tables'[c][p] = "drifted"
           /\ AllList(c, p)' => Quiet(c, p)'
<1> USE RequestsAssumption DEF TypeOK
<1>1. /\ tables[c][p] = "drifted" /\ CaughtUp(c)
      /\ \A q \in Requests : ClusterOf[q] = c => Barred(q, p)
  BY DEF Quiet
<1>2. ASSUME UNCHANGED <<committed[c], applied[c]>>, tables'[c][p] = "drifted",
             AllList(c, p)' => \A q \in Requests : ClusterOf[q] = c => Barred(q, p)'
      PROVE  AllList(c, p)' => Quiet(c, p)'
  BY <1>1, <1>2 DEF Quiet, CaughtUp
<1>3. ASSUME NEW r \in Requests, Handler(r)
      PROVE  /\ UNCHANGED <<committed[c], applied[c]>> /\ tables'[c][p] = "drifted"
             /\ AllList(c, p)' => Quiet(c, p)'
  <2>1. UNCHANGED <<committed, applied>> /\ tables'[c][p] = "drifted"
    BY <1>1, <1>3, HandlerFrame, TablesFrame
  <2>2. ASSUME AllList(c, p)', NEW q \in Requests, ClusterOf[q] = c PROVE Barred(q, p)'
    <3>1. p \in listed[q]
      BY <2>2, ListStep DEF AllList
    <3>2. CASE q = r
      BY <1>1, <1>3, <2>2, <3>1, <3>2, BarredStep
    <3>3. CASE q # r
      <4>1. SameRequest(q)
        BY <1>3, <3>3, HandlerFrame
      <4> QED
        BY <1>1, <2>2, <4>1 DEF SameRequest, Barred, Running
    <3> QED
      BY <3>2, <3>3
  <2> QED
    BY <1>2, <2>1, <2>2
<1>4. ASSUME NEW r \in Requests, RunScript(r)
      PROVE  /\ UNCHANGED <<committed[c], applied[c]>> /\ tables'[c][p] = "drifted"
             /\ AllList(c, p)' => Quiet(c, p)'
  <2>1. UNCHANGED <<tables, handlerVars>> /\ Running(r)
    BY <1>4 DEF RunScript, ScriptTruncate, ScriptInsert, ScriptFails, Running
  <2>2. ClusterOf[r] # c
    BY <1>1, <2>1 DEF Barred
  <2>3. UNCHANGED <<committed[c], applied[c]>>
    BY <1>4, <2>2 DEF RunScript, ScriptTruncate, ScriptInsert, ScriptFails
  <2>4. \A q \in Requests : q # r => script'[q] = script[q]
    BY <1>4 DEF RunScript, ScriptTruncate, ScriptInsert, ScriptFails
  <2>5. \A q \in Requests : ClusterOf[q] = c => Barred(q, p)'
    BY <1>1, <2>1, <2>2, <2>4 DEF Barred, Running, handlerVars
  <2> QED
    BY <1>1, <1>2, <2>1, <2>3, <2>5
<1>5. ASSUME NEW d \in Clusters, NEW n \in Pods, Replicate(d, n)
      PROVE  /\ UNCHANGED <<committed[c], applied[c]>> /\ tables'[c][p] = "drifted"
             /\ AllList(c, p)' => Quiet(c, p)'
  <2>1. UNCHANGED <<handlerVars, tables, script, committed>> /\ c # d
    BY <1>1, <1>5 DEF Replicate, CaughtUp
  <2>2. UNCHANGED applied[c]
    BY <1>5, <2>1 DEF Replicate
  <2> QED
    BY <1>1, <1>2, <2>1, <2>2 DEF Barred, Running, handlerVars
<1>6. ASSUME NEW s \in Servers, Crash(s)
      PROVE  /\ UNCHANGED <<committed[c], applied[c]>> /\ tables'[c][p] = "drifted"
             /\ AllList(c, p)' => Quiet(c, p)'
  <2>1. UNCHANGED <<at, script, tables, committed, applied>>
        /\ \A q \in Requests : pc'[q] = pc[q] \/ pc'[q] = "lost"
    BY <1>6 DEF Crash, clickHouseVars
  <2>2. \A q \in Requests : Barred(q, p) => Barred(q, p)'
    BY <2>1 DEF Barred, PastValidation, Running
  <2> QED
    BY <1>1, <1>2, <2>1, <2>2
<1>7. ASSUME \/ \E k \in Keys : GetLatest(k)
             \/ \E d \in Clusters, n \in Pods : Drift(d, n)
             \/ Rest \/ UNCHANGED vars
      PROVE  /\ UNCHANGED <<committed[c], applied[c]>> /\ tables'[c][p] = "drifted"
             /\ AllList(c, p)' => Quiet(c, p)'
  <2>1. UNCHANGED <<handlerVars, script, committed, applied>>
    BY <1>7 DEF GetLatest, Drift, Rest, vars, clickHouseVars
  <2>2. ASSUME NEW d \in Clusters, NEW n \in Pods, Drift(d, n) PROVE tables'[c][p] = "drifted"
    <3>1. tables' = [tables EXCEPT ![d] = [tables[d] EXCEPT ![n] = "drifted"]]
      BY <2>2 DEF Drift
    <3> QED
      BY <1>1, <3>1
  <2>3. tables'[c][p] = "drifted"
    BY <1>1, <1>7, <2>2 DEF GetLatest, Rest, vars, clickHouseVars
  <2> QED
    BY <1>1, <1>2, <2>1, <2>3 DEF Barred, Running, handlerVars
<1> QED
  BY <1>3, <1>4, <1>5, <1>6, <1>7 DEF Next, Handle, Handler, Inside

(* Without drifts during runs a table that is somebody else's was so.      *)
LEMMA DriftStep ==
    ASSUME MaxDrifts = 0 PROVE IInv /\ DriftInv /\ ListInv /\ [Next]_vars => DriftInv' /\ ListInv'
<1> SUFFICES ASSUME TypeOK, DriftInv, ListInv, [Next]_vars, NEW c \in Clusters, NEW p \in Pods,
                    tables'[c][p] = "drifted", AllList(c, p)'
             PROVE  Quiet(c, p)'
  BY ListStep DEF IInv, DriftInv
<1>1. ASSUME NEW r \in Requests, Handler(r) PROVE tables[c][p] = "drifted"
  BY <1>1, TablesFrame
<1>2. ASSUME NEW d \in Clusters, NEW n \in Pods, Drift(d, n) PROVE FALSE
  BY <1>2 DEF Drift, TypeOK
<1>3. ASSUME \/ \E r \in Requests : RunScript(r)
             \/ \E k \in Keys : GetLatest(k)
             \/ \E s \in Servers : Crash(s)
             \/ \E d \in Clusters, n \in Pods : Replicate(d, n)
             \/ Rest \/ UNCHANGED vars
      PROVE  tables[c][p] = "drifted"
  BY <1>3 DEF RunScript, ScriptTruncate, ScriptInsert, ScriptFails, GetLatest, Crash, Replicate,
              Rest, vars, clickHouseVars
<1>4. tables[c][p] = "drifted"
  BY <1>1, <1>2, <1>3 DEF Next, Handle, Handler, Inside
<1>5. AllList(c, p)
  BY ListStep DEF AllList
<1>6. Quiet(c, p)
  BY <1>4, <1>5 DEF DriftInv
<1> QED
  BY <1>6, QuietStep

LEMMA ListInvariance == Spec => [](TypeOK /\ ListInv)
<1>1. Init => ListInv
  BY DriftInit
<1>2. TypeOK /\ ListInv /\ [Next]_vars => ListInv'
  BY ListStep
<1> QED
  BY <1>1, <1>2, TypeInit, TypeStep, PTL DEF Spec

(* A table of somebody else's that is quiet stays as it is, whenever it    *)
(* became somebody else's, for any number of processes, runs and drifts,   *)
(* until a run misses its pod: every way to a write goes by its validation.*)
THEOREM QuietDriftKept == Spec => QuietDriftIsKept
<1>1. TypeOK /\ ListInv /\ [Next]_vars =>
        [\A c \in Clusters, p \in Pods :
            Quiet(c, p) =>
                /\ applied'[c][p] = applied[c][p]
                /\ tables'[c][p] = "drifted"
                /\ (\A r \in Requests : ClusterOf[r] = c => p \in listed[r])' => Quiet(c, p)']_vars
  <2> SUFFICES ASSUME TypeOK, ListInv, [Next]_vars, NEW c \in Clusters, NEW p \in Pods, Quiet(c, p)
               PROVE  /\ applied'[c][p] = applied[c][p]
                      /\ tables'[c][p] = "drifted"
                      /\ (\A r \in Requests : ClusterOf[r] = c => p \in listed[r])' => Quiet(c, p)'
    OBVIOUS
  <2> QED
    BY QuietStep DEF AllList
<1> QED
  BY <1>1, ListInvariance, PTL DEF Spec, QuietDriftIsKept

(* Somebody else's rows stay what they are, for any number of processes    *)
(* and however requests end: the definitions of all pods are validated     *)
(* before the first statement that could change one. Only the tables of a  *)
(* pod that a run did not list are not looked at.                          *)
THEOREM DriftedRowsKept == ASSUME MaxDrifts = 0 PROVE Spec => DriftedTableUntouched
<1>1. Init => DriftInv /\ ListInv
  BY DriftInit
<1>2. IInv /\ DriftInv /\ ListInv /\ [Next]_vars => DriftInv' /\ ListInv'
  BY DriftStep
<1>3. ASSUME IInv, DriftInv, ListInv, [Next]_vars, NEW c \in Clusters, NEW p \in Pods,
             tables[c][p] = "drifted", AllList(c, p)
      PROVE  applied'[c][p] = applied[c][p]
  <2>1. Quiet(c, p)
    BY <1>3 DEF DriftInv
  <2> QED
    BY <1>3, <2>1, QuietStep DEF IInv
<1>4. IInv /\ DriftInv /\ ListInv /\ [Next]_vars =>
        [\A c \in Clusters, p \in Pods :
            /\ tables[c][p] = "drifted"
            /\ \A r \in Requests : ClusterOf[r] = c => p \in listed[r]
            => applied'[c][p] = applied[c][p]]_vars
  BY <1>3 DEF AllList
<1> QED
  BY <1>1, <1>2, <1>4, Invariance, PTL DEF Spec, DriftedTableUntouched

=============================================================================
