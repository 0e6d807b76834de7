------------------------- MODULE ClusterView_proofs -------------------------
(* Theorems about ClusterView, for clusters of any size, any number of     *)
(* tasks, of pods of neighbours and of faults, and any order of the names. *)
EXTENDS ClusterView, FiniteSetTheorems, TLAPS

-----------------------------------------------------------------------------
(* The order of the checks.                                                *)

LEMMA Names ==
    /\ Len(HealthChecks) = 14 /\ DOMAIN HealthChecks = 1 .. 14
    /\ Len(MetricsChecks) = 7 /\ DOMAIN MetricsChecks = 1 .. 7
    /\ HealthNames = {"project", "keeperUnitSet", "serverUnitSet", "pods", "pvcs",
                      "services", "ruok", "roles", "select", "clusters", "probe",
                      "replicas", "metricsPort", "secrets"}
    /\ MetricsNames = {"list", "podMonitor", "targets", "cpu", "memory",
                       "clickhouse", "storage"}
<1>1. /\ Len(HealthChecks) = 14 /\ DOMAIN HealthChecks = 1 .. 14
      /\ Len(MetricsChecks) = 7 /\ DOMAIN MetricsChecks = 1 .. 7
  BY DEF HealthChecks, MetricsChecks
<1>2. HealthNames = {HealthChecks[i] : i \in {1, 2, 3, 4, 5, 6, 7, 8, 9, 10, 11, 12, 13, 14}}
  BY <1>1 DEF HealthNames
<1>3. MetricsNames = {MetricsChecks[i] : i \in {1, 2, 3, 4, 5, 6, 7}}
  BY <1>1 DEF MetricsNames
<1>4. HealthNames = {"project", "keeperUnitSet", "serverUnitSet", "pods", "pvcs",
                      "services", "ruok", "roles", "select", "clusters", "probe",
                      "replicas", "metricsPort", "secrets"}
  BY <1>2 DEF HealthChecks
<1>5. MetricsNames = {"list", "podMonitor", "targets", "cpu", "memory",
                       "clickhouse", "storage"}
  BY <1>3 DEF MetricsChecks
<1> QED
  BY <1>1, <1>4, <1>5

LEMMA NoTwoPlaces ==
    /\ \A i, j \in 1 .. 14 : HealthChecks[i] = HealthChecks[j] => i = j
    /\ \A i, j \in 1 .. 7 : MetricsChecks[i] = MetricsChecks[j] => i = j
<1>1. \A i, j \in 1 .. 14 : HealthChecks[i] = HealthChecks[j] => i = j
  BY DEF HealthChecks
<1>2. \A i, j \in 1 .. 7 : MetricsChecks[i] = MetricsChecks[j] => i = j
  BY DEF MetricsChecks
<1> QED
  BY <1>1, <1>2

LEMMA ChecksOfKind ==
    Checks["health"] = HealthChecks /\ Checks["metrics"] = MetricsChecks
BY DEF Checks

LEMMA PositionOfPlace ==
    /\ kind = "health" => \A i \in 1 .. 14 : Position(HealthChecks[i]) = i
    /\ kind = "metrics" => \A i \in 1 .. 7 : Position(MetricsChecks[i]) = i
<1>1. ASSUME kind = "health", NEW i \in 1 .. 14 PROVE Position(HealthChecks[i]) = i
  <2>1. Position(HealthChecks[i]) = CHOOSE j \in 1 .. 14 : HealthChecks[j] = HealthChecks[i]
    BY <1>1, Names, ChecksOfKind DEF Position
  <2> QED
    BY <2>1, NoTwoPlaces
<1>2. ASSUME kind = "metrics", NEW i \in 1 .. 7 PROVE Position(MetricsChecks[i]) = i
  <2>1. Position(MetricsChecks[i]) = CHOOSE j \in 1 .. 7 : MetricsChecks[j] = MetricsChecks[i]
    BY <1>2, Names, ChecksOfKind DEF Position
  <2> QED
    BY <2>1, NoTwoPlaces
<1> QED
  BY <1>1, <1>2

(* Recording a check: the next one, or the answer.                         *)
LEMMA HealthRecord ==
    ASSUME kind = "health", NEW i \in 1 .. 14, NEW v, Record(HealthChecks[i], v)
    PROVE  /\ verdict' = v /\ kind' = kind /\ seen' = seen
           /\ IF i = 14 THEN step' = "answered" /\ answer' = v
              ELSE step' = HealthChecks[i + 1] /\ answer' = answer
BY PositionOfPlace, ChecksOfKind, Names DEF Record, Final

LEMMA MetricsRecord ==
    ASSUME kind = "metrics", NEW i \in 1 .. 7, NEW v, Record(MetricsChecks[i], v)
    PROVE  /\ verdict' = v /\ kind' = kind /\ seen' = seen
           /\ IF i = 7
              THEN step' = "answered" /\ answer' = IF v = "PASS" THEN "READY" ELSE "DEGRADED"
              ELSE step' = MetricsChecks[i + 1] /\ answer' = answer
BY PositionOfPlace, ChecksOfKind, Names DEF Record, Final

-----------------------------------------------------------------------------
(* Types.  A step belongs to a kind: OfKind is needed to know which list   *)
(* of checks a handler is in.                                              *)

Steps == {"idle", "server", "keeper", "package", "answered"} \cup HealthNames \cup MetricsNames
OfKind ==
    /\ step \in HealthNames => kind = "health"
    /\ step \in MetricsNames => kind = "metrics"

LEMMA Apart ==
    /\ HealthNames \cap MetricsNames = {}
    /\ (HealthNames \cup MetricsNames)
          \cap {"idle", "server", "keeper", "package", "answered"} = {}
    /\ \A s \in HealthNames : \E i \in 1 .. 14 : s = HealthChecks[i]
    /\ \A s \in MetricsNames : \E i \in 1 .. 7 : s = MetricsChecks[i]
    /\ \A i \in 1 .. 14 : HealthChecks[i] \in HealthNames
    /\ \A i \in 1 .. 7 : MetricsChecks[i] \in MetricsNames
<1>1. /\ HealthNames \cap MetricsNames = {}
      /\ (HealthNames \cup MetricsNames)
            \cap {"idle", "server", "keeper", "package", "answered"} = {}
  BY Names
<1>2. /\ \A s \in HealthNames : \E i \in 1 .. 14 : s = HealthChecks[i]
      /\ \A i \in 1 .. 14 : HealthChecks[i] \in HealthNames
  BY Names DEF HealthNames
<1>3. /\ \A s \in MetricsNames : \E i \in 1 .. 7 : s = MetricsChecks[i]
      /\ \A i \in 1 .. 7 : MetricsChecks[i] \in MetricsNames
  BY Names DEF MetricsNames
<1> QED
  BY <1>1, <1>2, <1>3

LEMMA HowManyReady ==
    /\ IsFiniteSet(Servers) /\ Cardinality(Servers) = NumServers
    /\ IsFiniteSet(Keepers) /\ Cardinality(Keepers) = NumKeepers
    /\ \A T \in SUBSET Servers : Cardinality(T) \in 0 .. NumServers
    /\ \A T \in SUBSET Keepers : Cardinality(T) \in 0 .. NumKeepers
<1>1. /\ IsFiniteSet(Servers) /\ Cardinality(Servers) = NumServers
      /\ IsFiniteSet(Keepers) /\ Cardinality(Keepers) = NumKeepers
  BY FS_Interval, TopologyAssumption DEF Servers, Keepers
<1>2. \A T \in SUBSET Servers : Cardinality(T) \in 0 .. NumServers
  <2> SUFFICES ASSUME NEW T \in SUBSET Servers PROVE Cardinality(T) \in 0 .. NumServers
    OBVIOUS
  <2>1. IsFiniteSet(T) /\ Cardinality(T) <= NumServers
    BY <1>1, FS_Subset
  <2>2. Cardinality(T) \in Nat
    BY <2>1, FS_CardinalityType
  <2> QED
    BY <2>1, <2>2, TopologyAssumption
<1>3. \A T \in SUBSET Keepers : Cardinality(T) \in 0 .. NumKeepers
  <2> SUFFICES ASSUME NEW T \in SUBSET Keepers PROVE Cardinality(T) \in 0 .. NumKeepers
    OBVIOUS
  <2>1. IsFiniteSet(T) /\ Cardinality(T) <= NumKeepers
    BY <1>1, FS_Subset
  <2>2. Cardinality(T) \in Nat
    BY <2>1, FS_CardinalityType
  <2> QED
    BY <2>1, <2>2, TopologyAssumption
<1> QED
  BY <1>1, <1>2, <1>3

(* The two halves of TypeOK.                                               *)
Verdicts == {"PASS", "WARN", "FAIL"}
EnvTypes ==
    /\ pod \in [ServerPods -> Phases]
    /\ keeperPod \in [KeeperPods -> Phases]
    /\ neighbour \in BOOLEAN
    /\ reported \in [keeper : 0 .. NumKeepers, server : 0 .. NumServers]
    /\ keeperSet \in BOOLEAN /\ package \in BOOLEAN
    /\ target \in [Servers -> BOOLEAN]
    /\ faults \in 0 .. MaxFaults
RequestTypes ==
    /\ kind \in Kinds
    /\ step \in Steps
    /\ seen \in [server : 0 .. NumServers, keeper : 0 .. NumKeepers, found : BOOLEAN]
    /\ listed \in [server : SUBSET ServerPods, keeper : SUBSET KeeperPods]
    /\ verdict \in Verdicts
    /\ answer \in Answers
HistoryTypes == disturbed \in BOOLEAN /\ tasked \in BOOLEAN /\ allUp \in BOOLEAN

LEMMA TypeHalves == TypeOK <=> EnvTypes /\ RequestTypes /\ HistoryTypes
BY DEF TypeOK, EnvTypes, RequestTypes, HistoryTypes, Steps, Verdicts

LEMMA WitnessTypes == \A f : Witness(f) => HistoryTypes'
BY DEF Witness, HistoryTypes, HasTask, Sound, AllUp

(* The steps of the environment.                                           *)
Outside ==
    \/ \E s \in Servers : ServerUp(s) \/ ServerDown(s) \/ Scrape(s)
    \/ \E k \in Keepers : KeeperUp(k) \/ KeeperDown(k)
    \/ \E t \in Tasks : TaskMoves(t)
    \/ NeighbourMoves \/ Reconcile \/ DeleteKeeper \/ RemovePackage

LEMMA OutsideEffect == Outside => Environment
BY DEF Outside, ServerUp, ServerDown, Scrape, KeeperUp, KeeperDown, TaskMoves,
       NeighbourMoves, Reconcile, DeleteKeeper, RemovePackage

LEMMA OutsideTypes == EnvTypes /\ Outside => EnvTypes'
<1> SUFFICES ASSUME EnvTypes, Outside PROVE EnvTypes'
  OBVIOUS
<1>p. {"absent", "present", "ready"} = Phases
  BY DEF Phases
<1>f. Fault => faults' \in 0 .. MaxFaults
  BY BoundAssumption DEF Fault, EnvTypes
<1>1. ASSUME NEW s \in Servers, ServerUp(s) PROVE EnvTypes'
  BY <1>1, <1>p DEF ServerUp, EnvTypes
<1>2. ASSUME NEW s \in Servers, ServerDown(s) PROVE EnvTypes'
  BY <1>2, <1>p, <1>f DEF ServerDown, EnvTypes
<1>3. ASSUME NEW s \in Servers, Scrape(s) PROVE EnvTypes'
  BY <1>3 DEF Scrape, EnvTypes
<1>4. ASSUME NEW k \in Keepers, KeeperUp(k) PROVE EnvTypes'
  BY <1>4, <1>p DEF KeeperUp, EnvTypes
<1>5. ASSUME NEW k \in Keepers, KeeperDown(k) PROVE EnvTypes'
  BY <1>5, <1>p, <1>f DEF KeeperDown, EnvTypes
<1>6. ASSUME NEW t \in Tasks, TaskMoves(t) PROVE EnvTypes'
  BY <1>6 DEF TaskMoves, EnvTypes
<1>7. CASE Reconcile
  <2>1. Ready(keeperPod, Keepers) \in 0 .. NumKeepers
    BY HowManyReady DEF Ready
  <2>2. Ready(pod, Servers) \in 0 .. NumServers
    BY HowManyReady DEF Ready
  <2> QED
    BY <1>7, <2>1, <2>2 DEF Reconcile, EnvTypes
<1>8. CASE DeleteKeeper
  BY <1>8, <1>p, <1>f DEF DeleteKeeper, EnvTypes
<1>9. CASE RemovePackage
  BY <1>9, <1>f DEF RemovePackage, EnvTypes
<1>10. CASE NeighbourMoves
  <2>1. PICK phase \in [Strangers -> Phases], keeperPhase \in [StrangeKeepers -> Phases] :
          /\ pod' = [p \in ServerPods |-> IF p \in Strangers THEN phase[p] ELSE pod[p]]
          /\ keeperPod' = [k \in KeeperPods |->
                IF k \in StrangeKeepers THEN keeperPhase[k] ELSE keeperPod[k]]
    BY <1>10 DEF NeighbourMoves
  <2>2. pod' \in [ServerPods -> Phases] /\ keeperPod' \in [KeeperPods -> Phases]
    BY <2>1 DEF EnvTypes
  <2> QED
    BY <1>10, <2>2 DEF NeighbourMoves, EnvTypes
<1> QED
  BY <1>1, <1>2, <1>3, <1>4, <1>5, <1>6, <1>7, <1>8, <1>9, <1>10 DEF Outside

(* Without a neighbour there are no pods of one.                           *)
NoStrangers ==
    ~neighbour => /\ \A p \in Strangers : pod[p] = "absent"
                  /\ \A k \in StrangeKeepers : keeperPod[k] = "absent"

LEMMA Disjoint ==
    /\ Servers \cap Strangers = {} /\ Tasks \cap Strangers = {}
    /\ Keepers \cap StrangeKeepers = {}
BY TopologyAssumption DEF Servers, Tasks, Strangers, Keepers, StrangeKeepers

LEMMA OutsideNoStrangers == EnvTypes /\ NoStrangers /\ Outside => NoStrangers'
<1> SUFFICES ASSUME EnvTypes, NoStrangers, Outside PROVE NoStrangers'
  OBVIOUS
<1>1. ASSUME NEW s \in Servers \cup Tasks, NEW v, pod' = [pod EXCEPT ![s] = v],
             UNCHANGED <<keeperPod, neighbour>>
      PROVE  NoStrangers'
  BY <1>1, Disjoint DEF NoStrangers, EnvTypes, ServerPods
<1>2. ASSUME NEW k \in Keepers, NEW v, keeperPod' = [keeperPod EXCEPT ![k] = v],
             UNCHANGED <<pod, neighbour>>
      PROVE  NoStrangers'
  BY <1>2, Disjoint DEF NoStrangers, EnvTypes, KeeperPods
<1>3. ASSUME UNCHANGED <<pod, keeperPod, neighbour>> PROVE NoStrangers'
  BY <1>3 DEF NoStrangers
<1>4. ASSUME NEW s \in Servers, ServerUp(s) \/ ServerDown(s) PROVE NoStrangers'
  BY <1>1, <1>4 DEF ServerUp, ServerDown
<1>5. ASSUME NEW t \in Tasks, TaskMoves(t) PROVE NoStrangers'
  BY <1>1, <1>5 DEF TaskMoves
<1>6. ASSUME NEW k \in Keepers, KeeperUp(k) \/ KeeperDown(k) PROVE NoStrangers'
  BY <1>2, <1>6 DEF KeeperUp, KeeperDown
<1>7. ASSUME (\E s \in Servers : Scrape(s)) \/ Reconcile \/ RemovePackage PROVE NoStrangers'
  BY <1>3, <1>7 DEF Scrape, Reconcile, RemovePackage
<1>8. CASE DeleteKeeper
  BY <1>8, Disjoint DEF DeleteKeeper, NoStrangers, KeeperPods
<1>9. CASE NeighbourMoves
  BY <1>9 DEF NeighbourMoves, NoStrangers, ServerPods, KeeperPods
<1> QED
  BY <1>4, <1>5, <1>6, <1>7, <1>8, <1>9 DEF Outside

(* The steps of the handlers.                                              *)
Inside ==
    \/ Arrive \/ ReadServer \/ ReadKeeper \/ ReadPackage \/ ListPods
    \/ \E s \in HealthNames : Check(s)
    \/ \E s \in MetricsNames : Sample(s)
    \/ Targets

LEMMA NextIsEither == Next => Outside \/ Inside
BY DEF Next, Outside, Inside

LEMMA InsideKeepsEnv == Inside => UNCHANGED envVars
BY DEF Inside, Arrive, ReadServer, ReadKeeper, ReadPackage, ListPods, Check, Sample, Targets

LEMMA ListedTypes ==
    /\ Listed \in [server : SUBSET ServerPods, keeper : SUBSET KeeperPods]
    /\ NoPods \in [server : SUBSET ServerPods, keeper : SUBSET KeeperPods]
BY DEF Listed, NoPods

LEMMA WorseTypes ==
    \A v \in Verdicts : \A s : Worse(v, Failure(s)) \in Verdicts
BY DEF Worse, Failure, Verdicts

LEMMA RecordTypes ==
    ASSUME RequestTypes, OfKind, step \in HealthNames \cup MetricsNames,
           NEW v \in Verdicts, Record(step, v),
           listed' \in [server : SUBSET ServerPods, keeper : SUBSET KeeperPods]
    PROVE  RequestTypes' /\ OfKind'
<1>a. Verdicts \cup {"READY", "DEGRADED"} \subseteq Answers
  BY DEF Verdicts, Answers
<1>1. CASE step \in HealthNames
  <2>1. PICK i \in 1 .. 14 : step = HealthChecks[i]
    BY <1>1, Apart
  <2>2. /\ verdict' = v /\ kind' = kind /\ seen' = seen /\ kind = "health"
        /\ IF i = 14 THEN step' = "answered" /\ answer' = v
           ELSE step' = HealthChecks[i + 1] /\ answer' = answer
    BY <1>1, <2>1, HealthRecord DEF OfKind
  <2>3. CASE i = 14
    BY <2>2, <2>3, <1>a, Apart DEF RequestTypes, OfKind, Steps
  <2>4. CASE i # 14
    <3>1. step' \in HealthNames
      BY <2>2, <2>4, Apart
    <3> QED
      BY <2>2, <2>4, <3>1, Apart DEF RequestTypes, OfKind, Steps
  <2> QED
    BY <2>3, <2>4
<1>2. CASE step \in MetricsNames
  <2>1. PICK i \in 1 .. 7 : step = MetricsChecks[i]
    BY <1>2, Apart
  <2>2. /\ verdict' = v /\ kind' = kind /\ seen' = seen /\ kind = "metrics"
        /\ IF i = 7
           THEN step' = "answered" /\ answer' = IF v = "PASS" THEN "READY" ELSE "DEGRADED"
           ELSE step' = MetricsChecks[i + 1] /\ answer' = answer
    BY <1>2, <2>1, MetricsRecord DEF OfKind
  <2>3. CASE i = 7
    BY <2>2, <2>3, <1>a, Apart DEF RequestTypes, OfKind, Steps
  <2>4. CASE i # 7
    <3>1. step' \in MetricsNames
      BY <2>2, <2>4, Apart
    <3> QED
      BY <2>2, <2>4, <3>1, Apart DEF RequestTypes, OfKind, Steps
  <2> QED
    BY <2>3, <2>4
<1> QED
  BY <1>1, <1>2

LEMMA ReplyTypes ==
    ASSUME RequestTypes, NEW a \in Answers, Reply(a)
    PROVE  RequestTypes' /\ OfKind'
BY Apart, TopologyAssumption DEF Reply, RequestTypes, OfKind, Steps, Unseen

LEMMA InsideTypes ==
    ASSUME EnvTypes, RequestTypes, OfKind, Inside
    PROVE  RequestTypes' /\ OfKind' /\ HistoryTypes'
<1>a. {"ERROR", "PANIC", "Running", "Degraded", "Provisioning",
       "PROMETHEUS_UNAVAILABLE", "NONE"} \subseteq Answers
  BY DEF Answers
<1>s. {"server", "keeper", "package"} \subseteq Steps
  BY DEF Steps
<1>v. "PASS" \in Verdicts /\ "WARN" \in Verdicts /\ verdict \in Verdicts
  BY DEF Verdicts, RequestTypes
<1>l. listed \in [server : SUBSET ServerPods, keeper : SUBSET KeeperPods]
  BY DEF RequestTypes
<1>0. 0 \in 0 .. NumServers /\ 0 \in 0 .. NumKeepers
  BY TopologyAssumption
<1>n. /\ "pods" \in HealthNames /\ "list" \in MetricsNames /\ "targets" \in MetricsNames
      /\ {"server", "keeper", "package"} \cap (HealthNames \cup MetricsNames) = {}
  BY Names
<1>1. CASE Arrive
  <2>1. RequestTypes' /\ OfKind'
    BY <1>1, <1>a, <1>s, <1>v, <1>0, <1>n, ListedTypes
    DEF Arrive, RequestTypes, OfKind, Unseen
  <2>2. HistoryTypes'
    BY <1>1 DEF Arrive, HistoryTypes, Sound, HasTask, AllUp
  <2> QED
    BY <2>1, <2>2
<1>2. CASE ReadServer
  <2>1. CASE Reply("ERROR")
    BY <1>2, <2>1, <1>a, ReplyTypes, WitnessTypes DEF ReadServer
  <2>2. CASE ~Reply("ERROR")
    <3>1. HistoryTypes'
      BY <1>2, WitnessTypes DEF ReadServer
    <3>2. reported.server \in 0 .. NumServers
      BY DEF EnvTypes
    <3>3. /\ seen' = [server |-> reported.server, keeper |-> 0, found |-> FALSE]
          /\ step' = "keeper" /\ UNCHANGED <<kind, listed, verdict, answer>>
      BY <1>2, <2>2 DEF ReadServer
    <3> QED
      BY <3>1, <3>2, <3>3, <1>s, <1>0, <1>n DEF RequestTypes, OfKind
  <2> QED
    BY <2>1, <2>2
<1>3. CASE ReadKeeper
  <2>1. CASE Reply("ERROR")
    BY <1>3, <2>1, <1>a, ReplyTypes, WitnessTypes DEF ReadKeeper
  <2>2. CASE ~Reply("ERROR")
    <3>1. HistoryTypes'
      BY <1>3, WitnessTypes DEF ReadKeeper
    <3>2. keeperSet \in BOOLEAN /\ seen.server \in 0 .. NumServers
          /\ (IF keeperSet THEN reported.keeper ELSE 0) \in 0 .. NumKeepers
      BY <1>0 DEF EnvTypes, RequestTypes
    <3>3. /\ seen' = [server |-> seen.server, found |-> keeperSet,
                      keeper |-> IF keeperSet THEN reported.keeper ELSE 0]
          /\ step' = "package" /\ UNCHANGED <<kind, listed, verdict, answer>>
      BY <1>3, <2>2 DEF ReadKeeper
    <3> QED
      BY <3>1, <3>2, <3>3, <1>s, <1>n DEF RequestTypes, OfKind
  <2> QED
    BY <2>1, <2>2
<1>4. CASE ReadPackage
  <2>h. HistoryTypes'
    BY <1>4, WitnessTypes DEF ReadPackage
  <2>1. ASSUME NEW a \in Answers, Reply(a) PROVE RequestTypes' /\ OfKind'
    BY <2>1, ReplyTypes
  <2>2. \A x, y : ClusterStatus(x, y) \in Answers
    BY <1>a DEF ClusterStatus
  <2>3. CASE kind # "status" /\ step' = Checks[kind][1] /\ seen' = Unseen
               /\ UNCHANGED <<kind, listed, verdict, answer>>
    <3>1. (kind = "health" /\ step' = HealthChecks[1]) \/ (kind = "metrics" /\ step' = MetricsChecks[1])
      BY <2>3, ChecksOfKind DEF RequestTypes, Kinds
    <3>2. (kind = "health" /\ step' \in HealthNames) \/ (kind = "metrics" /\ step' \in MetricsNames)
      BY <3>1, Apart
    <3>3. Unseen \in [server : 0 .. NumServers, keeper : 0 .. NumKeepers, found : BOOLEAN]
      BY <1>0 DEF Unseen
    <3>4. step' \in Steps
      BY <3>2 DEF Steps
    <3>5. RequestTypes'
      BY <2>3, <3>3, <3>4 DEF RequestTypes
    <3> QED
      BY <2>h, <2>3, <3>2, <3>5, Apart DEF OfKind
  <2>4. \/ \E a \in Answers : Reply(a)
        \/ kind # "status" /\ step' = Checks[kind][1] /\ seen' = Unseen
               /\ UNCHANGED <<kind, listed, verdict, answer>>
    BY <1>4, <1>a, <2>2 DEF ReadPackage
  <2> QED
    BY <2>h, <2>1, <2>3, <2>4
<1>5. CASE ListPods
  <2>1. PICK f : Witness(f)
    BY <1>5 DEF ListPods
  <2>2. CASE Reply("ERROR")
    BY <2>1, <2>2, <1>a, ReplyTypes, WitnessTypes
  <2>3. CASE \E v \in Verdicts : Record(step, v) /\ listed' \in {Listed, NoPods}
    BY <1>5, <2>1, <2>3, <1>n, ListedTypes, RecordTypes, WitnessTypes DEF ListPods
  <2> QED
    BY <1>5, <2>2, <2>3, <1>v, WorseTypes DEF ListPods
<1>6. ASSUME NEW s \in HealthNames, Check(s) PROVE RequestTypes' /\ OfKind' /\ HistoryTypes'
  <2>1. PICK v \in Verdicts : Record(step, v)
    BY <1>6, <1>v, WorseTypes DEF Check
  <2> QED
    BY <1>6, <1>l, <2>1, RecordTypes, WitnessTypes DEF Check
<1>7. ASSUME NEW s \in MetricsNames, Sample(s) PROVE RequestTypes' /\ OfKind' /\ HistoryTypes'
  <2>1. PICK v \in Verdicts : Record(step, v)
    BY <1>7, <1>v DEF Sample
  <2> QED
    BY <1>7, <1>l, <2>1, RecordTypes, WitnessTypes DEF Sample
<1>8. CASE Targets
  <2>1. CASE Reply("PROMETHEUS_UNAVAILABLE")
    BY <1>8, <2>1, <1>a, ReplyTypes, WitnessTypes DEF Targets
  <2>2. CASE \E v \in Verdicts : Record(step, v) /\ listed' = listed
    BY <1>8, <2>2, <1>l, <1>n, RecordTypes, WitnessTypes DEF Targets
  <2> QED
    BY <1>8, <2>1, <2>2, <1>v DEF Targets
<1> QED
  BY <1>1, <1>2, <1>3, <1>4, <1>5, <1>6, <1>7, <1>8 DEF Inside

LEMMA TypeInit == Init => EnvTypes /\ RequestTypes /\ HistoryTypes /\ OfKind /\ NoStrangers
<1> SUFFICES ASSUME Init
             PROVE  EnvTypes /\ RequestTypes /\ HistoryTypes /\ OfKind /\ NoStrangers
  OBVIOUS
<1>1. EnvTypes
  <2>1. 0 \in 0 .. NumServers /\ 0 \in 0 .. NumKeepers /\ 0 \in 0 .. MaxFaults
        /\ NumServers \in 0 .. NumServers /\ NumKeepers \in 0 .. NumKeepers
    BY TopologyAssumption, BoundAssumption
  <2>2. keeperSet \in BOOLEAN /\ package \in BOOLEAN /\ faults \in 0 .. MaxFaults
    BY <2>1 DEF Init
  <2>3. /\ pod \in [ServerPods -> Phases]
        /\ keeperPod \in [KeeperPods -> Phases] /\ neighbour \in BOOLEAN
        /\ target \in [Servers -> BOOLEAN]
    BY DEF Init, Phases
  <2>4. reported \in [keeper : 0 .. NumKeepers, server : 0 .. NumServers]
    BY <2>1 DEF Init
  <2> QED
    BY <2>2, <2>3, <2>4 DEF EnvTypes
<1>2. RequestTypes /\ OfKind
  BY TopologyAssumption, ListedTypes, Apart
  DEF Init, RequestTypes, OfKind, Steps, Kinds, Verdicts, Answers, Unseen
<1>3. NoStrangers
  BY Disjoint DEF Init, NoStrangers, ServerPods, KeeperPods
<1> QED
  BY <1>1, <1>2, <1>3 DEF Init, HistoryTypes

Typed == EnvTypes /\ RequestTypes /\ HistoryTypes /\ OfKind /\ NoStrangers
LEMMA TypeStep == Typed /\ [Next]_vars => Typed'
<1> SUFFICES ASSUME Typed, [Next]_vars PROVE Typed'
  OBVIOUS
<1>1. CASE Outside
  BY <1>1, OutsideTypes, OutsideNoStrangers, OutsideEffect, WitnessTypes
  DEF Typed, Environment, requestVars, RequestTypes, OfKind
<1>2. CASE Inside
  BY <1>2, InsideTypes, InsideKeepsEnv DEF Typed, envVars, EnvTypes, NoStrangers
<1>3. CASE UNCHANGED vars
  BY <1>3 DEF vars, envVars, requestVars, Typed, EnvTypes, RequestTypes, HistoryTypes,
              OfKind, NoStrangers
<1> QED
  BY <1>1, <1>2, <1>3, NextIsEither

(* Every variable of the view of a cluster keeps its type.                 *)
THEOREM TypeCorrect == Spec => []TypeOK
<1>1. Init => Typed
  BY TypeInit DEF Typed
<1>2. Typed => TypeOK
  BY TypeHalves DEF Typed
<1> QED
  BY <1>1, <1>2, TypeStep, PTL DEF Spec

LEMMA TypedAlways == Spec => []Typed
<1>1. Init => Typed
  BY TypeInit DEF Typed
<1> QED
  BY <1>1, TypeStep, PTL DEF Spec

-----------------------------------------------------------------------------
(* What the steps do, in the words of the properties.                      *)

LEMMA SameEnv ==
    UNCHANGED envVars =>
        /\ (Sound' <=> Sound) /\ (AllUp' <=> AllUp) /\ (HasTask' <=> HasTask)
        /\ neighbour' = neighbour
BY DEF envVars, Sound, AllUp, HasTask

LEMMA WitnessEffect ==
    ASSUME NEW f, Witness(f)
    PROVE  /\ ~disturbed' => ~disturbed /\ ~f /\ Sound' /\ ~neighbour'
           /\ ~tasked' => ~tasked /\ ~HasTask'
           /\ allUp \/ AllUp' => allUp'
BY DEF Witness

LEMMA HoldsOf ==
    ASSUME NEW o
    PROVE
    /\ Holds("pods", o) = PodsReady(Listed)
    /\ Holds("list", o) = (Listed.server # {})
    /\ Holds("probe", o)
          = (ClusterAnswers(o) /\ \A p \in listed.server : Answering(p, o))
    /\ Holds("replicas", o) = ClusterAnswers(o)
    /\ Holds("keeperUnitSet", o) = (keeperSet /\ reported.keeper = NumKeepers)
    /\ Holds("serverUnitSet", o) = (reported.server = NumServers)
    /\ Holds("ruok", o) = KeepersAnswer(o) /\ Holds("roles", o) = KeepersAnswer(o)
    /\ Holds("select", o) = FirstAnswers(o) /\ Holds("clusters", o) = FirstAnswers(o)
    /\ Holds("metricsPort", o) = FirstAnswers(o)
    /\ Holds("pvcs", o) = (neighbour => o) /\ Holds("services", o) = (neighbour => o)
    /\ Holds("project", o) = TRUE /\ Holds("secrets", o) = TRUE
BY Zenon DEF Holds

LEMMA WorsePasses ==
    \A v, s : Worse(v, Failure(s)) # "PASS"
BY DEF Worse, Failure

(* A check of the inspection other than that of the pods.                  *)
Goes(i, v) == IF i = 14 THEN step' = "answered" /\ answer' = v
              ELSE step' = HealthChecks[i + 1] /\ answer' = answer
LEMMA CheckEffect ==
    ASSUME Typed, NEW i \in 1 .. 14, Check(HealthChecks[i])
    PROVE  /\ step = HealthChecks[i] /\ kind = "health" /\ kind' = kind
           /\ UNCHANGED envVars /\ listed' = listed /\ Goes(i, verdict')
           /\ verdict' = "PASS" => verdict = "PASS" /\ \E o \in BOOLEAN : Holds(HealthChecks[i], o)
           /\ (\A o \in BOOLEAN : Holds(HealthChecks[i], o)) /\ ~disturbed' => verdict' = verdict
           /\ \E f : Witness(f)
<1> DEFINE s == HealthChecks[i]
<1>1. step = s /\ kind = "health"
  BY Apart DEF Check, Typed, OfKind
<1>o. PICK o \in BOOLEAN :
        \/ Holds(s, o) /\ Record(s, verdict) /\ Witness(FALSE)
        \/ Record(s, Worse(verdict, Failure(s))) /\ Witness(Holds(s, o))
  BY DEF Check
<1>2. CASE Holds(s, o) /\ Record(s, verdict) /\ Witness(FALSE)
  BY <1>1, <1>2, HealthRecord DEF Check, Goes
<1>3. CASE Record(s, Worse(verdict, Failure(s))) /\ Witness(Holds(s, o))
  <2>1. verdict' = Worse(verdict, Failure(s)) /\ kind' = kind /\ Goes(i, verdict')
    BY <1>1, <1>3, HealthRecord DEF Goes
  <2>2. verdict' # "PASS"
    BY <2>1, WorsePasses
  <2>3. Holds(s, o) => disturbed'
    BY <1>3, WitnessEffect
  <2> QED
    BY <1>1, <1>3, <2>1, <2>2, <2>3 DEF Check
<1> QED
  BY <1>o, <1>2, <1>3

LEMMA PlacesNamed ==
    /\ HealthChecks[4] = "pods" /\ HealthChecks[11] = "probe" /\ HealthChecks[12] = "replicas"
    /\ MetricsChecks[1] = "list" /\ MetricsChecks[3] = "targets"
BY DEF HealthChecks, MetricsChecks

(* Listing the pods, for the inspection and for the summary.               *)
LEMMA ListEffect ==
    ASSUME Typed, ListPods
    PROVE  /\ UNCHANGED envVars /\ kind' = kind /\ \E f : Witness(f)
           /\ \/ step = "list" /\ Reply("ERROR") /\ disturbed'
              \/ /\ step = "pods" /\ kind = "health" /\ step' = HealthChecks[5] /\ answer' = answer
                 /\ ~disturbed' => listed' = Listed /\ (PodsReady(Listed) => verdict' = verdict)
              \/ /\ step = "list" /\ kind = "metrics" /\ step' = MetricsChecks[2] /\ answer' = answer
                 /\ listed' = Listed
                 /\ IF Listed.server # {} THEN verdict' = verdict ELSE verdict' # "PASS"
<1>1. CASE step = "list" /\ Reply("ERROR") /\ Witness(TRUE)
  BY <1>1, WitnessEffect DEF ListPods, Reply
<1>2. CASE step = "pods" /\ listed' = NoPods /\ Witness(TRUE)
           /\ Record(step, Worse(verdict, Failure(step)))
  <2>1. kind = "health"
    BY <1>2, Names DEF Typed, OfKind
  <2>2. kind' = kind /\ step' = HealthChecks[5] /\ answer' = answer
    BY <1>2, <2>1, PlacesNamed, HealthRecord
  <2> QED
    BY <1>2, <2>1, <2>2, WitnessEffect DEF ListPods
<1>3. CASE step = "pods" /\ listed' = Listed /\ Witness(FALSE)
           /\ Record(step, IF Holds(step, TRUE) THEN verdict ELSE Worse(verdict, Failure(step)))
  <2>1. kind = "health"
    BY <1>3, Names DEF Typed, OfKind
  <2> DEFINE v == IF Holds("pods", TRUE) THEN verdict ELSE Worse(verdict, Failure("pods"))
  <2> HIDE DEF v
  <2>2. Record(HealthChecks[4], v)
    BY <1>3, PlacesNamed DEF v
  <2>3. 4 \in 1 .. 14 /\ 4 # 14 /\ 4 + 1 = 5
    OBVIOUS
  <2>4. kind' = kind /\ step' = HealthChecks[5] /\ answer' = answer /\ verdict' = v
    BY <2>1, <2>2, <2>3, HealthRecord
  <2>5. v = IF PodsReady(Listed) THEN verdict ELSE Worse(verdict, Failure("pods"))
    BY HoldsOf DEF v
  <2> QED
    BY <1>3, <2>1, <2>4, <2>5 DEF ListPods
<1>4. CASE step = "list" /\ listed' = Listed /\ Witness(FALSE)
           /\ Record(step, IF Holds(step, TRUE) THEN verdict ELSE Worse(verdict, Failure(step)))
  <2>1. kind = "metrics"
    BY <1>4, Names DEF Typed, OfKind
  <2> DEFINE v == IF Holds("list", TRUE) THEN verdict ELSE Worse(verdict, Failure("list"))
  <2> HIDE DEF v
  <2>2. Record(MetricsChecks[1], v)
    BY <1>4, PlacesNamed DEF v
  <2>3. 1 \in 1 .. 7 /\ 1 # 7 /\ 1 + 1 = 2
    OBVIOUS
  <2>4. kind' = kind /\ step' = MetricsChecks[2] /\ answer' = answer /\ verdict' = v
    BY <2>1, <2>2, <2>3, MetricsRecord
  <2>5. v = IF Listed.server # {} THEN verdict ELSE Worse(verdict, Failure("list"))
    BY HoldsOf DEF v
  <2> QED
    BY <1>4, <2>1, <2>4, <2>5, WorsePasses DEF ListPods
<1> QED
  BY <1>1, <1>2, <1>3, <1>4 DEF ListPods

(* What Prometheus is asked after the pods are listed.                     *)
MGoes(i, v) == IF i = 7
               THEN step' = "answered" /\ answer' = IF v = "PASS" THEN "READY" ELSE "DEGRADED"
               ELSE step' = MetricsChecks[i + 1] /\ answer' = answer
LEMMA SampleEffect ==
    ASSUME Typed, NEW i \in 1 .. 7, Sample(MetricsChecks[i])
    PROVE  /\ step = MetricsChecks[i] /\ i \notin {1, 3} /\ kind = "metrics" /\ kind' = kind
           /\ UNCHANGED envVars /\ listed' = listed /\ MGoes(i, verdict')
           /\ verdict' \in {verdict, "WARN"} /\ (~disturbed' => verdict' = verdict)
           /\ \E f : Witness(f)
<1>1. step = MetricsChecks[i] /\ kind = "metrics" /\ i \notin {1, 3}
  BY Apart, PlacesNamed DEF Sample, Typed, OfKind
<1>2. CASE Record(MetricsChecks[i], verdict) /\ Witness(FALSE)
  BY <1>1, <1>2, MetricsRecord DEF Sample, MGoes
<1>3. CASE Record(MetricsChecks[i], "WARN") /\ Witness(TRUE)
  BY <1>1, <1>3, MetricsRecord, WitnessEffect DEF Sample, MGoes
<1> QED
  BY <1>2, <1>3 DEF Sample

LEMMA TargetsEffect ==
    ASSUME Typed, Targets
    PROVE  /\ step = "targets" /\ UNCHANGED envVars /\ listed' = listed /\ kind' = kind
           /\ \E f : Witness(f)
           /\ \/ Reply("PROMETHEUS_UNAVAILABLE") /\ disturbed'
              \/ /\ step' = MetricsChecks[4] /\ answer' = answer
                 /\ verdict' = IF TargetsUp(listed.server) THEN verdict ELSE "WARN"
<1>1. step = MetricsChecks[3] /\ kind = "metrics"
  BY PlacesNamed, Names DEF Targets, Typed, OfKind
<1>2. CASE Reply("PROMETHEUS_UNAVAILABLE") /\ Witness(TRUE)
  BY <1>2, WitnessEffect DEF Targets, Reply
<1>3. CASE Record("targets", IF TargetsUp(listed.server) THEN verdict ELSE "WARN")
           /\ listed' = listed /\ Witness(FALSE)
  <2> DEFINE v == IF TargetsUp(listed.server) THEN verdict ELSE "WARN"
  <2> HIDE DEF v
  <2>1. Record(MetricsChecks[3], v)
    BY <1>3, PlacesNamed DEF v
  <2>2. 3 \in 1 .. 7 /\ 3 # 7 /\ 3 + 1 = 4
    OBVIOUS
  <2>3. /\ verdict' = v /\ kind' = kind
        /\ step' = MetricsChecks[4] /\ answer' = answer
    BY <1>1, <2>1, <2>2, MetricsRecord
  <2> QED
    BY <1>3, <2>3 DEF Targets, v
<1> QED
  BY <1>2, <1>3 DEF Targets

(* A step of the environment leaves the request as it is.                  *)
LEMMA OutsideSays ==
    Outside => UNCHANGED requestVars /\ step \notin {"idle", "answered"} /\ Witness(FALSE)
BY OutsideEffect DEF Environment

(* Where the reads of GetCluster lead.                                     *)
LEMMA ReadsEffect ==
    ASSUME Typed, ReadServer \/ ReadKeeper \/ ReadPackage
    PROVE  /\ UNCHANGED envVars /\ kind' = kind /\ listed' = listed /\ verdict' = verdict
           /\ \E f : Witness(f)
           /\ step \in {"server", "keeper", "package"}
           /\ \/ step' \in {"keeper", "package"} /\ answer' = answer
              \/ step' = "answered" /\ answer' \notin {"PASS", "READY"}
              \/ kind = "health" /\ step' = HealthChecks[1] /\ answer' = answer
              \/ kind = "metrics" /\ step' = MetricsChecks[1] /\ answer' = answer
<1>1. CASE ReadServer
  BY <1>1 DEF ReadServer, Reply
<1>2. CASE ReadKeeper
  BY <1>2 DEF ReadKeeper, Reply
<1>3. CASE ReadPackage
  <2>1. \A x, y : ClusterStatus(x, y) \notin {"PASS", "READY"}
    BY DEF ClusterStatus
  <2>2. \E f : Witness(f)
    BY <1>3 DEF ReadPackage
  <2>3. /\ UNCHANGED envVars /\ step = "package"
        /\ \/ \E a : a \notin {"PASS", "READY"} /\ Reply(a)
           \/ kind # "status" /\ step' = Checks[kind][1] /\ UNCHANGED <<kind, listed, verdict, answer>>
    BY <1>3, <2>1 DEF ReadPackage
  <2>4. kind \in {"status", "health", "metrics"}
    BY DEF Typed, RequestTypes, Kinds
  <2> QED
    BY <2>2, <2>3, <2>4, ChecksOfKind DEF Reply
<1> QED
  BY <1>1, <1>2, <1>3

LEMMA Places ==
    /\ \A i, j \in 1 .. 14 : HealthChecks[i] = HealthChecks[j] => i = j
    /\ \A i, j \in 1 .. 7 : MetricsChecks[i] = MetricsChecks[j] => i = j
    /\ \A i \in 1 .. 14, j \in 1 .. 7 : HealthChecks[i] # MetricsChecks[j]
    /\ \A i \in 1 .. 14 : HealthChecks[i] \notin {"idle", "server", "keeper", "package", "answered"}
    /\ \A i \in 1 .. 7 : MetricsChecks[i] \notin {"idle", "server", "keeper", "package", "answered"}
BY NoTwoPlaces, Apart

-----------------------------------------------------------------------------
(* A healthcheck that passes.                                              *)

Seen == allUp \/ First \cap Strangers # {}
PastProbe ==
    /\ answer # "NONE" => step \in {"idle", "answered"}
    /\ answer = "PASS" => Seen
    /\ \A i \in 12 .. 14 : step = HealthChecks[i] /\ verdict = "PASS" => Seen

LEMMA SeenStays == ASSUME NEW f, Witness(f), UNCHANGED listed PROVE Seen => Seen'
BY WitnessEffect DEF Seen, First

(* A probe that held needs all servers of the cluster of the first pod.    *)
LEMMA ProbeSees ==
    ASSUME NEW o, ClusterAnswers(o) PROVE AllUp \/ First \cap Strangers # {}
BY DEF ClusterAnswers, Answering

LEMMA PastProbeInside == Typed /\ PastProbe /\ Inside => PastProbe'
<1> SUFFICES ASSUME Typed, PastProbe, Inside PROVE PastProbe'
  OBVIOUS
<1>1. CASE Arrive
  BY <1>1, Places DEF Arrive, PastProbe
<1>2. CASE ReadServer \/ ReadKeeper \/ ReadPackage
  <2>1. answer = "NONE"
    BY <1>2, ReadsEffect DEF PastProbe
  <2>2. \A i \in 12 .. 14 : step' # HealthChecks[i]
    BY <1>2, ReadsEffect, Places
  <2>3. (answer' # "NONE" => step' = "answered") /\ answer' # "PASS"
    BY <1>2, <2>1, ReadsEffect
  <2> QED
    BY <2>2, <2>3 DEF PastProbe
<1>3. CASE ListPods
  <2>1. answer = "NONE"
    BY <1>3, ListEffect DEF PastProbe
  <2>2. \A i \in 12 .. 14 : step' # HealthChecks[i]
    BY <1>3, ListEffect, Places DEF Reply
  <2>3. (answer' # "NONE" => step' = "answered") /\ answer' # "PASS"
    BY <1>3, <2>1, ListEffect DEF Reply
  <2> QED
    BY <2>2, <2>3 DEF PastProbe
<1>4. ASSUME NEW i \in 1 .. 14, Check(HealthChecks[i]) PROVE PastProbe'
  <2>1. PICK f : Witness(f)
    BY <1>4, CheckEffect
  <2>2. UNCHANGED listed /\ (Seen => Seen')
    BY <1>4, <2>1, CheckEffect, SeenStays
  <2>3. verdict' = "PASS" => verdict = "PASS" /\ \E o \in BOOLEAN : Holds(HealthChecks[i], o)
    BY <1>4, CheckEffect
  <2>4. step = HealthChecks[i] /\ Goes(i, verdict') /\ answer = "NONE"
    BY <1>4, CheckEffect, Places DEF PastProbe
  <2>n. answer' # "NONE" => step' = "answered"
    BY <2>4 DEF Goes
  <2>5. CASE i \in 1 .. 10
    <3>1. step' = HealthChecks[i + 1] /\ answer' = answer /\ i + 1 \in 1 .. 11
      BY <2>4, <2>5 DEF Goes
    <3>2. \A j \in 12 .. 14 : step' # HealthChecks[j]
      BY <3>1, Places
    <3> QED
      BY <2>4, <2>n, <3>1, <3>2 DEF PastProbe
  <2>6. CASE i = 11
    <3>1. ASSUME verdict' = "PASS" PROVE Seen'
      <4>1. PICK o \in BOOLEAN : Holds("probe", o)
        BY <2>3, <2>6, <3>1, PlacesNamed
      <4>2. AllUp \/ First \cap Strangers # {}
        BY <4>1, HoldsOf, ProbeSees
      <4>3. AllUp => allUp'
        BY <1>4, <2>1, CheckEffect, SameEnv, WitnessEffect
      <4>4. First' = First
        BY <2>2 DEF First
      <4> QED
        BY <4>2, <4>3, <4>4 DEF Seen
    <3>2. answer' = answer
      BY <2>4, <2>6 DEF Goes
    <3> QED
      BY <2>4, <2>n, <3>1, <3>2 DEF PastProbe
  <2>7. CASE i \in 12 .. 14
    <3>1. verdict' = "PASS" => Seen'
      BY <2>2, <2>3, <2>4, <2>7 DEF PastProbe
    <3>2. answer' = "PASS" => verdict' = "PASS"
      BY <2>4 DEF Goes
    <3> QED
      BY <2>n, <3>1, <3>2 DEF PastProbe
  <2> QED
    BY <2>5, <2>6, <2>7
<1>5. ASSUME NEW i \in 1 .. 7, Sample(MetricsChecks[i]) PROVE PastProbe'
  <2>1. MGoes(i, verdict') /\ answer = "NONE"
    BY <1>5, SampleEffect, Places DEF PastProbe
  <2>2. /\ (answer' # "NONE" => step' = "answered") /\ answer' # "PASS"
        /\ \A j \in 12 .. 14 : step' # HealthChecks[j]
    BY <2>1, Places DEF MGoes
  <2> QED
    BY <2>2 DEF PastProbe
<1>6. CASE Targets
  <2>1. answer = "NONE"
    BY <1>6, TargetsEffect DEF PastProbe
  <2>2. /\ (answer' # "NONE" => step' = "answered") /\ answer' # "PASS"
        /\ \A j \in 12 .. 14 : step' # HealthChecks[j]
    BY <1>6, <2>1, TargetsEffect, Places DEF Reply
  <2> QED
    BY <2>2 DEF PastProbe
<1>7. \/ \E i \in 1 .. 14 : Check(HealthChecks[i])
      \/ \E i \in 1 .. 7 : Sample(MetricsChecks[i])
      \/ Arrive \/ ReadServer \/ ReadKeeper \/ ReadPackage \/ ListPods \/ Targets
  BY Apart DEF Inside
<1> QED
  BY <1>1, <1>2, <1>3, <1>4, <1>5, <1>6, <1>7

LEMMA PastProbeStep == Typed /\ PastProbe /\ [Next]_vars => PastProbe'
<1> SUFFICES ASSUME Typed, PastProbe, [Next]_vars PROVE PastProbe'
  OBVIOUS
<1>1. CASE Outside
  <2>1. UNCHANGED <<answer, step, verdict, listed>> /\ Witness(FALSE)
    BY <1>1, OutsideSays DEF requestVars
  <2>2. Seen => Seen'
    BY <2>1, SeenStays
  <2> QED
    BY <2>1, <2>2 DEF PastProbe
<1>2. CASE UNCHANGED vars
  BY <1>2 DEF vars, requestVars, PastProbe, Seen, First
<1> QED
  BY <1>1, <1>2, PastProbeInside, NextIsEither

(* A healthcheck that passes was looking at a cluster all of whose servers *)
(* were ready at one time: the probe needs every one of them, and no later *)
(* check and no pod of a task or of a neighbour in the count makes up for  *)
(* it, unless the first pod, which is sent the SQL, is a neighbour's.      *)
THEOREM PassSawAllUp == Spec => []PassMeansAllUp
<1>1. Init => PastProbe
  BY Places DEF Init, PastProbe
<1>2. PastProbe => PassMeansAllUp
  BY DEF PastProbe, PassMeansAllUp, Seen
<1> QED
  BY <1>1, <1>2, TypedAlways, PastProbeStep, PTL DEF Spec

-----------------------------------------------------------------------------
(* A summary that says READY.                                              *)

OfServers == listed.server # {} /\ listed.server \subseteq Servers
Summarised ==
    /\ answer # "NONE" => step \in {"idle", "answered"}
    /\ answer = "READY" => OfServers
    /\ \A i \in 2 .. 7 : step = MetricsChecks[i] /\ verdict = "PASS" => listed.server # {}
    /\ \A i \in 4 .. 7 : step = MetricsChecks[i] /\ verdict = "PASS" => OfServers

LEMMA SummarisedInside == Typed /\ Summarised /\ Inside => Summarised'
<1> SUFFICES ASSUME Typed, Summarised, Inside PROVE Summarised'
  OBVIOUS
<1>1. CASE Arrive
  BY <1>1, Places DEF Arrive, Summarised
<1>2. CASE ReadServer \/ ReadKeeper \/ ReadPackage
  <2>1. answer = "NONE" /\ listed' = listed
    BY <1>2, ReadsEffect DEF Summarised
  <2>2. \A i \in 2 .. 7 : step' # MetricsChecks[i]
    BY <1>2, ReadsEffect, Places
  <2>3. (answer' # "NONE" => step' = "answered") /\ answer' # "READY"
    BY <1>2, <2>1, ReadsEffect
  <2> QED
    BY <2>2, <2>3 DEF Summarised
<1>3. CASE ListPods
  <2>1. answer = "NONE"
    BY <1>3, ListEffect DEF Summarised
  <2>2. CASE step = "list" /\ Reply("ERROR")
    BY <2>2, Places DEF Reply, Summarised
  <2>3. CASE step' = HealthChecks[5] /\ answer' = answer
    BY <2>1, <2>3, Places DEF Summarised
  <2>4. CASE step' = MetricsChecks[2] /\ answer' = answer /\ listed' = Listed
             /\ IF Listed.server # {} THEN verdict' = verdict ELSE verdict' # "PASS"
    BY <2>1, <2>4, Places DEF Summarised
  <2> QED
    BY <1>3, <2>2, <2>3, <2>4, ListEffect
<1>4. ASSUME NEW i \in 1 .. 14, Check(HealthChecks[i]) PROVE Summarised'
  <2>1. answer = "NONE" /\ Goes(i, verdict')
    BY <1>4, CheckEffect, Places DEF Summarised
  <2>2. \A j \in 2 .. 7 : step' # MetricsChecks[j]
    BY <2>1, Places DEF Goes
  <2>3. verdict' # "READY"
    BY InsideTypes DEF Typed, RequestTypes, Verdicts
  <2>4. (answer' # "NONE" => step' = "answered") /\ answer' # "READY"
    BY <2>1, <2>3 DEF Goes
  <2> QED
    BY <2>2, <2>4 DEF Summarised
<1>5. ASSUME NEW i \in 1 .. 7, Sample(MetricsChecks[i]) PROVE Summarised'
  <2>1. /\ answer = "NONE" /\ step = MetricsChecks[i] /\ i \notin {1, 3}
        /\ listed' = listed /\ MGoes(i, verdict') /\ verdict' \in {verdict, "WARN"}
    BY <1>5, SampleEffect, Places DEF Summarised
  <2>2. /\ verdict' = "PASS" => listed.server # {}
        /\ verdict' = "PASS" /\ i >= 4 => OfServers
    BY <2>1 DEF Summarised
  <2>3. OfServers' <=> OfServers
    BY <2>1 DEF OfServers
  <2>4. CASE i = 7
    BY <2>1, <2>2, <2>3, <2>4, Places DEF MGoes, Summarised
  <2>5. CASE i = 2
    BY <2>1, <2>2, <2>5, Places DEF MGoes, Summarised
  <2>6. CASE i \in 4 .. 6
    BY <2>1, <2>2, <2>3, <2>6, Places DEF MGoes, Summarised
  <2> QED
    BY <2>1, <2>4, <2>5, <2>6
<1>6. CASE Targets
  <2>1. answer = "NONE" /\ step = MetricsChecks[3] /\ listed' = listed
    BY <1>6, TargetsEffect, PlacesNamed DEF Summarised
  <2>2. CASE Reply("PROMETHEUS_UNAVAILABLE")
    BY <2>2, Places DEF Reply, Summarised
  <2>3. CASE step' = MetricsChecks[4] /\ answer' = answer
             /\ verdict' = IF TargetsUp(listed.server) THEN verdict ELSE "WARN"
    <3>1. verdict' = "PASS" => verdict = "PASS" /\ TargetsUp(listed.server)
      BY <2>3
    <3>2. verdict' = "PASS" => OfServers'
      BY <2>1, <3>1 DEF TargetsUp, OfServers, Summarised
    <3>3. OfServers' => listed'.server # {}
      BY DEF OfServers
    <3> QED
      BY <2>1, <2>3, <3>2, <3>3, Places DEF Summarised
  <2> QED
    BY <1>6, <2>2, <2>3, TargetsEffect
<1>7. \/ \E i \in 1 .. 14 : Check(HealthChecks[i])
      \/ \E i \in 1 .. 7 : Sample(MetricsChecks[i])
      \/ Arrive \/ ReadServer \/ ReadKeeper \/ ReadPackage \/ ListPods \/ Targets
  BY Apart DEF Inside
<1> QED
  BY <1>1, <1>2, <1>3, <1>4, <1>5, <1>6, <1>7

LEMMA SummarisedStep == Typed /\ Summarised /\ [Next]_vars => Summarised'
<1> SUFFICES ASSUME Typed, Summarised, [Next]_vars PROVE Summarised'
  OBVIOUS
<1>1. CASE Outside
  BY <1>1, OutsideSays DEF Summarised, OfServers, requestVars
<1>2. CASE UNCHANGED vars
  BY <1>2 DEF vars, requestVars, Summarised, OfServers
<1> QED
  BY <1>1, <1>2, SummarisedInside, NextIsEither

(* READY is never said of the pods of a task or of a neighbour, nor of no  *)
(* pods.                                                                   *)
THEOREM ReadyOfServers == Spec => []ReadyIsOfServers
<1>1. Init => Summarised
  BY Places DEF Init, Summarised
<1>2. Summarised => ReadyIsOfServers
  BY DEF Summarised, OfServers, ReadyIsOfServers
<1> QED
  BY <1>1, <1>2, TypedAlways, SummarisedStep, PTL DEF Spec

-----------------------------------------------------------------------------
(* A sound cluster.                                                        *)

Full == [server |-> Servers, keeper |-> Keepers]
Whole == Sound /\ ~HasTask /\ ~neighbour

LEMMA WholeSays ==
    ASSUME EnvTypes, NoStrangers, Whole
    PROVE  /\ AllUp /\ keeperSet /\ package /\ \A s \in Servers : target[s]
           /\ reported.keeper = NumKeepers /\ reported.server = NumServers
           /\ \A s \in Servers : pod[s] = "ready"
           /\ \A k \in Keepers : keeperPod[k] = "ready"
           /\ \A t \in Tasks : pod[t] = "absent"
           /\ Listed = Full /\ ~neighbour
<1>1. /\ \A s \in Servers : pod[s] = "ready"
      /\ \A k \in Keepers : keeperPod[k] = "ready"
      /\ \A t \in Tasks : pod[t] = "absent"
      /\ \A p \in Strangers : pod[p] = "absent"
      /\ \A k \in StrangeKeepers : keeperPod[k] = "absent"
  BY DEF Whole, Sound, AllUp, HasTask, NoStrangers
<1>2. {p \in ServerPods : pod[p] # "absent"} = Servers
  BY <1>1 DEF ServerPods
<1>3. {k \in KeeperPods : keeperPod[k] # "absent"} = Keepers
  BY <1>1 DEF KeeperPods
<1>4. reported.keeper = NumKeepers /\ reported.server = NumServers
  BY DEF Whole, Sound
<1> QED
  BY <1>1, <1>2, <1>3, <1>4 DEF Whole, Sound, Listed, Full

LEMMA WholeHolds ==
    ASSUME EnvTypes, NoStrangers, Whole
    PROVE  /\ PodsReady(Listed) /\ Listed.server # {}
           /\ listed = Full => TargetsUp(listed.server)
           /\ \A i \in 1 .. 3, o \in BOOLEAN : Holds(HealthChecks[i], o)
           /\ \A i \in 5 .. 14, o \in BOOLEAN : listed = Full => Holds(HealthChecks[i], o)
<1>0. 1 \in Servers /\ 1 \in Keepers /\ \A s \in Servers : Place[1] <= Place[s]
  BY TopologyAssumption, PlaceAssumption DEF Servers, Keepers
<1>1. PodsReady(Listed)
  BY WholeSays, HowManyReady DEF PodsReady, Full
<1>2. Listed.server # {}
  BY WholeSays, <1>0 DEF Full
<1>3. ASSUME listed = Full, NEW o \in BOOLEAN
      PROVE  /\ TargetsUp(listed.server) /\ KeepersAnswer(o)
             /\ FirstAnswers(o) /\ ClusterAnswers(o)
             /\ \A p \in listed.server : Answering(p, o)
  <2>1. listed.server = Servers /\ listed.keeper = Keepers
    BY <1>3 DEF Full
  <2>2. \A p \in listed.server : Answering(p, o)
    BY <2>1, WholeSays DEF Answering
  <2>3. FirstAnswers(o) /\ ClusterAnswers(o)
    <3>1. 1 \in First
      BY <1>0, <2>1 DEF First
    <3> QED
      BY <1>0, <2>1, <2>2, <3>1, WholeSays DEF FirstAnswers, ClusterAnswers
  <2>4. TargetsUp(listed.server)
    BY <2>1, WholeSays DEF TargetsUp
  <2>5. KeepersAnswer(o)
    BY <1>0, <2>1, WholeSays DEF KeepersAnswer
  <2> QED
    BY <2>2, <2>3, <2>4, <2>5
<1>4. /\ HealthChecks[1] = "project" /\ HealthChecks[2] = "keeperUnitSet"
      /\ HealthChecks[3] = "serverUnitSet" /\ HealthChecks[5] = "pvcs"
      /\ HealthChecks[6] = "services" /\ HealthChecks[7] = "ruok" /\ HealthChecks[8] = "roles"
      /\ HealthChecks[9] = "select" /\ HealthChecks[10] = "clusters"
      /\ HealthChecks[11] = "probe" /\ HealthChecks[12] = "replicas"
      /\ HealthChecks[13] = "metricsPort" /\ HealthChecks[14] = "secrets"
  BY DEF HealthChecks
<1>5. \A i \in 1 .. 3, o \in BOOLEAN : Holds(HealthChecks[i], o)
  <2>1. ASSUME NEW o \in BOOLEAN
        PROVE  Holds("project", o) /\ Holds("keeperUnitSet", o) /\ Holds("serverUnitSet", o)
    BY HoldsOf, WholeSays
  <2> QED
    BY <1>4, <2>1
<1>6. ASSUME listed = Full, NEW i \in {5, 6, 7, 8, 9, 10, 11, 12, 13, 14}, NEW o \in BOOLEAN
      PROVE  Holds(HealthChecks[i], o)
  <2>1. /\ KeepersAnswer(o) /\ FirstAnswers(o) /\ ClusterAnswers(o) /\ ~neighbour
        /\ \A p \in listed.server : Answering(p, o)
    BY <1>3, <1>6, WholeSays
  <2> QED
    BY <1>4, <1>6, <2>1, HoldsOf
<1>7. listed = Full => TargetsUp(listed.server)
  BY <1>3
<1>8. ASSUME listed = Full, NEW i \in 5 .. 14, NEW o \in BOOLEAN
      PROVE  Holds(HealthChecks[i], o)
  <2>1. i \in {5, 6, 7, 8, 9, 10, 11, 12, 13, 14}
    OBVIOUS
  <2> QED
    BY <1>6, <1>8, <2>1
<1> QED
  BY <1>1, <1>2, <1>5, <1>7, <1>8

SoundSoFar ==
    ~disturbed /\ ~tasked =>
        /\ step # "idle" => Whole
        /\ step \notin {"idle", "answered"} => verdict = "PASS"
        /\ step \in {"keeper", "package"} => seen.server = NumServers
        /\ step = "package" => seen.found /\ seen.keeper = NumKeepers
        /\ \A i \in 5 .. 14 : step = HealthChecks[i] => listed = Full
        /\ \A i \in 2 .. 7 : step = MetricsChecks[i] => listed = Full
        /\ step = "answered" => answer \in Good

(* What a step that leaves the request unharmed tells of before and after. *)
LEMMA Unharmed ==
    ASSUME NEW f, Witness(f), ~disturbed', ~tasked'
    PROVE  ~disturbed /\ ~tasked /\ ~f /\ Whole'
BY WitnessEffect DEF Whole

(* One of the reads of GetCluster, of a sound cluster.                     *)
LEMMA SoundReads ==
    ASSUME Typed, SoundSoFar, ReadServer \/ ReadKeeper \/ ReadPackage, ~disturbed', ~tasked'
    PROVE  SoundSoFar'
<1>0. ~disturbed /\ ~tasked /\ Whole' /\ UNCHANGED envVars /\ verdict' = verdict
  <2>1. PICK f : Witness(f)
    BY ReadsEffect
  <2> QED
    BY <2>1, Unharmed, ReadsEffect
<1>1. Whole /\ verdict = "PASS"
  BY <1>0, ReadsEffect DEF SoundSoFar
<1>2. /\ reported.keeper = NumKeepers /\ reported.server = NumServers
      /\ keeperSet /\ package
  BY <1>1, WholeSays DEF Typed
<1>f. \A i \in 5 .. 14 : step' # HealthChecks[i]
  BY ReadsEffect, Places
<1>m. \A i \in 2 .. 7 : step' # MetricsChecks[i]
  BY ReadsEffect, Places
<1>3. CASE ReadServer
  <2>1. step' = "keeper" /\ seen' = [server |-> reported.server, keeper |-> 0, found |-> FALSE]
    <3>1. ~Witness(TRUE)
      BY <1>0, WitnessEffect
    <3> QED
      BY <1>3, <3>1 DEF ReadServer
  <2>2. seen'.server = NumServers
    BY <1>2, <2>1
  <2> QED
    BY <1>0, <1>1, <1>f, <1>m, <2>1, <2>2 DEF SoundSoFar
<1>4. CASE ReadKeeper
  <2>1. /\ step' = "package"
        /\ seen' = [server |-> seen.server, found |-> keeperSet,
                    keeper |-> IF keeperSet THEN reported.keeper ELSE 0]
    <3>1. ~Witness(TRUE)
      BY <1>0, WitnessEffect
    <3> QED
      BY <1>4, <3>1 DEF ReadKeeper
  <2>2. seen.server = NumServers
    BY <1>0, <1>4 DEF ReadKeeper, SoundSoFar
  <2>3. seen'.server = NumServers /\ seen'.found /\ seen'.keeper = NumKeepers
    BY <1>2, <2>1, <2>2
  <2> QED
    BY <1>0, <1>1, <1>f, <1>m, <2>1, <2>3 DEF SoundSoFar
<1>5. CASE ReadPackage
  <2>1. seen.server = NumServers /\ seen.found /\ seen.keeper = NumKeepers
    BY <1>0, <1>5 DEF ReadPackage, SoundSoFar
  <2>2. PICK ok \in {package, FALSE} :
          /\ \/ ok /\ ~seen.found /\ Reply("PANIC")
             \/ /\ ok => seen.found
                /\ kind = "status"
                /\ Reply(ClusterStatus(seen.server, IF ok THEN seen.keeper ELSE 0))
             \/ /\ ok => seen.found
                /\ kind # "status"
                /\ step' = Checks[kind][1] /\ seen' = Unseen
                /\ UNCHANGED <<kind, listed, verdict, answer>>
          /\ Witness(~ok)
    BY <1>5 DEF ReadPackage
  <2>3. ok
    BY <1>0, <2>2, WitnessEffect
  <2>4. ClusterStatus(seen.server, IF ok THEN seen.keeper ELSE 0) = "Running"
    BY <2>1, <2>3 DEF ClusterStatus
  <2>5. \/ step' = "answered" /\ answer' = "Running"
        \/ step' \in {HealthChecks[1], MetricsChecks[1]}
    <3>1. kind # "status" => Checks[kind][1] \in {HealthChecks[1], MetricsChecks[1]}
      BY ChecksOfKind DEF Typed, RequestTypes, Kinds
    <3> QED
      BY <2>1, <2>2, <2>4, <3>1 DEF Reply
  <2>6. "Running" \in Good
    BY DEF Good
  <2> QED
    BY <1>0, <1>1, <1>f, <1>m, <2>5, <2>6, Places DEF SoundSoFar
<1> QED
  BY <1>3, <1>4, <1>5

LEMMA SoundInside == Typed /\ SoundSoFar /\ Inside => SoundSoFar'
<1> SUFFICES ASSUME Typed, SoundSoFar, Inside, ~disturbed', ~tasked' PROVE SoundSoFar'
  BY DEF SoundSoFar
<1>e. UNCHANGED envVars
  BY InsideKeepsEnv
<1>1. CASE Arrive
  <2>1. Sound /\ ~HasTask /\ ~neighbour
    BY <1>1 DEF Arrive
  <2>2. Whole'
    BY <1>e, <2>1, SameEnv DEF Whole
  <2> QED
    BY <1>1, <2>2, Places DEF Arrive, SoundSoFar
<1>2. CASE ReadServer \/ ReadKeeper \/ ReadPackage
  BY <1>2, SoundReads
<1>3. CASE ListPods
  <2>1. PICK f : Witness(f)
    BY <1>3, ListEffect
  <2>2. ~disturbed /\ ~tasked /\ Whole'
    BY <2>1, Unharmed
  <2>3. Whole /\ verdict = "PASS"
    BY <1>3, <2>2 DEF ListPods, SoundSoFar
  <2>4. Listed = Full /\ PodsReady(Listed) /\ Listed.server # {}
    BY <2>3, WholeSays, WholeHolds DEF Typed
  <2>5. step' \in {HealthChecks[5], MetricsChecks[2]} /\ listed' = Full /\ verdict' = "PASS"
    BY <1>3, <2>3, <2>4, ListEffect
  <2> QED
    BY <2>2, <2>5, Places DEF SoundSoFar
<1>4. ASSUME NEW i \in 1 .. 14, Check(HealthChecks[i]) PROVE SoundSoFar'
  <2>1. PICK f : Witness(f)
    BY <1>4, CheckEffect
  <2>2. ~disturbed /\ ~tasked /\ Whole'
    BY <2>1, Unharmed
  <2>3. step = HealthChecks[i] /\ listed' = listed /\ Goes(i, verdict')
    BY <1>4, CheckEffect
  <2>4. Whole /\ verdict = "PASS" /\ (i \in 5 .. 14 => listed = Full)
    BY <2>2, <2>3, Places DEF SoundSoFar
  <2>5. i # 4
    BY <1>4, PlacesNamed DEF Check
  <2>6. \A o \in BOOLEAN : Holds(HealthChecks[i], o)
    BY <2>4, <2>5, WholeHolds DEF Typed
  <2>7. verdict' = "PASS"
    BY <1>4, <2>4, <2>6, CheckEffect
  <2>8. CASE i = 14
    BY <2>2, <2>3, <2>7, <2>8, Places DEF Goes, SoundSoFar, Good
  <2>9. CASE i \in 1 .. 3
    <3>1. step' = HealthChecks[i + 1] /\ i + 1 \in 1 .. 4
      BY <2>3, <2>9 DEF Goes
    <3> QED
      BY <2>2, <2>7, <3>1, Places DEF SoundSoFar
  <2>10. CASE i \in 5 .. 13
    <3>1. step' = HealthChecks[i + 1] /\ i + 1 \in 5 .. 14 /\ listed' = Full
      BY <2>3, <2>4, <2>10 DEF Goes
    <3> QED
      BY <2>2, <2>7, <3>1, Places DEF SoundSoFar
  <2> QED
    BY <2>5, <2>8, <2>9, <2>10
<1>5. ASSUME NEW i \in 1 .. 7, Sample(MetricsChecks[i]) PROVE SoundSoFar'
  <2>1. PICK f : Witness(f)
    BY <1>5, SampleEffect
  <2>2. ~disturbed /\ ~tasked /\ Whole'
    BY <2>1, Unharmed
  <2>3. /\ step = MetricsChecks[i] /\ listed' = listed /\ MGoes(i, verdict')
        /\ verdict' = verdict /\ i # 1
    BY <1>5, SampleEffect
  <2>4. verdict' = "PASS" /\ listed' = Full
    BY <2>2, <2>3, Places DEF SoundSoFar
  <2>5. CASE i = 7
    BY <2>2, <2>3, <2>4, <2>5, Places DEF MGoes, SoundSoFar, Good
  <2>6. CASE i # 7
    <3>1. step' = MetricsChecks[i + 1] /\ i + 1 \in 2 .. 7
      BY <2>3, <2>6 DEF MGoes
    <3> QED
      BY <2>2, <2>4, <3>1, Places DEF SoundSoFar
  <2> QED
    BY <2>5, <2>6
<1>6. CASE Targets
  <2>1. PICK f : Witness(f)
    BY <1>6, TargetsEffect
  <2>2. ~disturbed /\ ~tasked /\ Whole'
    BY <2>1, Unharmed
  <2>3. step = MetricsChecks[3] /\ listed' = listed
    BY <1>6, TargetsEffect, PlacesNamed
  <2>4. Whole /\ verdict = "PASS" /\ listed = Full
    BY <2>2, <2>3, Places DEF SoundSoFar
  <2>5. TargetsUp(listed.server)
    BY <2>4, WholeHolds DEF Typed
  <2>6. step' = MetricsChecks[4] /\ verdict' = "PASS" /\ listed' = Full
    BY <1>6, <2>3, <2>4, <2>5, TargetsEffect
  <2> QED
    BY <2>2, <2>6, Places DEF SoundSoFar
<1>7. \/ \E i \in 1 .. 14 : Check(HealthChecks[i])
      \/ \E i \in 1 .. 7 : Sample(MetricsChecks[i])
      \/ Arrive \/ ReadServer \/ ReadKeeper \/ ReadPackage \/ ListPods \/ Targets
  BY Apart DEF Inside
<1> QED
  BY <1>1, <1>2, <1>3, <1>4, <1>5, <1>6, <1>7

LEMMA SoundStep == Typed /\ SoundSoFar /\ [Next]_vars => SoundSoFar'
<1> SUFFICES ASSUME Typed, SoundSoFar, [Next]_vars PROVE SoundSoFar'
  OBVIOUS
<1>1. CASE Outside
  <2> SUFFICES ASSUME ~disturbed', ~tasked' PROVE SoundSoFar'
    BY DEF SoundSoFar
  <2>1. ~disturbed /\ ~tasked /\ Whole'
    BY <1>1, OutsideSays, Unharmed
  <2> QED
    BY <1>1, <2>1, OutsideSays DEF SoundSoFar, requestVars
<1>2. CASE UNCHANGED vars
  BY <1>2 DEF vars, envVars, requestVars, SoundSoFar, Whole, Sound, AllUp, HasTask
<1> QED
  BY <1>1, <1>2, SoundInside, NextIsEither

(* A cluster that is sound from the request to its answer and has neither  *)
(* task pods nor a neighbour meanwhile is said to be: no order of the reads*)
(* makes it look ill.                                                      *)
THEOREM SoundSeen == Spec => []SoundIsSeen
<1>1. Init => SoundSoFar
  BY Places DEF Init, SoundSoFar
<1>2. SoundSoFar => SoundIsSeen
  BY DEF SoundSoFar, SoundIsSeen
<1> QED
  BY <1>1, <1>2, TypedAlways, SoundStep, PTL DEF Spec
=============================================================================
