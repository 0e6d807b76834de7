-------------------- MODULE ClusterLeftovers_proofs --------------------
(***************************************************************************)
(* What repeated, overlapping and abandoned creations leave in the         *)
(* namespace: a beginning of the sequence of creates, every server on a    *)
(* Keeper of its own, and nothing that a client with a compatible body is  *)
(* refused for.  What clients see of it all is a registry (Refinement).    *)
(* For any number of clients, clusters, faults and deletions and any naming*)
(* that keeps the names of one type apart.                                 *)
(***************************************************************************)
EXTENDS ClusterCreate_proofs

-----------------------------------------------------------------------------
(* What a step does to the objects.                                        *)

(* The create of o is under way: a request makes it, or one that was left. *)
Making(o) ==
    \/ o \in late
    \/ \E r \in Requests, k \in CreateKinds : pc[r] = CreateStep[k] /\ o = Object(k, r)

ObjectsChange ==
    \/ UNCHANGED <<objects, removed>>
    \/ \E o \in Creatable : Making(o) /\ Make(o) /\ UNCHANGED <<removed, wasReady, readyUnits>>
    \/ \E n \in UnitSets : Delete(n)

LEMMA ObjectsStep == TypeOK /\ [Next]_vars => ObjectsChange
  <1> SUFFICES ASSUME TypeOK, [Next]_vars PROVE ObjectsChange
    OBVIOUS
  <1> USE DEF ObjectsChange
  <1>1. ASSUME NEW r \in Requests,
               Arrive(r) \/ ListUnitSets(r) \/ Fails(r) \/ Expire(r)
        PROVE  UNCHANGED <<objects, removed>>
    BY <1>1 DEF Arrive, ListUnitSets, Fails, Expire, kubeVars, historyVars
  <1>2. ASSUME NEW r \in Requests,
               CheckPackage(r) \/ CheckAdminSecret(r) \/ CheckAesSecret(r)
                 \/ GetNamespace(r) \/ GetProject(r) \/ WaitKeeper(r)
        PROVE  UNCHANGED <<objects, removed>>
    BY <1>2 DEF CheckPackage, CheckAdminSecret, CheckAesSecret, GetNamespace,
                GetProject, WaitKeeper, Check, Get, kubeVars, historyVars
  <1>3. ASSUME NEW r \in Requests, NEW k \in CreateKinds, NEW step,
               step = CreateStep[k], Create(r, step, k) \/ NameTaken(r, step, k)
        PROVE  ObjectsChange
    BY <1>3, ObjectType DEF Create, NameTaken, At, Making, kubeVars
  <1>4. ASSUME NEW r \in Requests,
               CreateNamespace(r) \/ CreateProject(r) \/ CreateKeeper(r)
                 \/ CreateServer(r)
        PROVE  ObjectsChange
    <2>1. \E k \in CreateKinds :
             Create(r, CreateStep[k], k) \/ NameTaken(r, CreateStep[k], k)
      BY <1>4 DEF CreateNamespace, CreateProject, CreateKeeper, CreateServer,
                  CreateKinds, CreateStep
    <2> QED
      BY <1>3, <2>1
  <1>5. ASSUME NEW o \in late, LateCreate(o) PROVE ObjectsChange
    BY <1>5 DEF LateCreate, Making, TypeOK, historyVars
  <1>6. CASE \/ Crash \/ Rest \/ UNCHANGED vars
             \/ \E n \in KeeperNames : UnitUp(n) \/ UnitDown(n)
             \/ \E s \in Secrets : Provide(s)
             \/ \E v \in Versions, t \in Topologies : Install(v, t)
    BY <1>6 DEF Crash, Rest, UnitUp, UnitDown, Provide, Install, vars,
                kubeVars, historyVars
  <1> QED
    BY <1>1, <1>2, <1>4, <1>5, <1>6 DEF Next, Handle

(* The Namespace and the Project are never deleted.                        *)
LEMMA KeptForGood ==
    ASSUME TypeOK, ObjectsChange, NEW n \in {"namespace", "project"}, Exists(n)
    PROVE  Exists(n)'
  <1>1. n \in Names \ UnitSets
    BY UnitSetNameAssumption DEF Names
  <1>2. ASSUME NEW o \in Creatable, Make(o) PROVE Exists(n)'
    BY <1>1, <1>2, MakeEffect DEF TypeOK, ObjectsOK, Keeps, Exists
  <1>3. ASSUME NEW d \in UnitSets, Delete(d) PROVE Exists(n)'
    BY <1>1, <1>3 DEF Delete, Exists, TypeOK
  <1> QED
    BY <1>2, <1>3 DEF ObjectsChange, Exists

-----------------------------------------------------------------------------
(* The order of the steps keeps the order of what they leave behind.       *)

NeedNamespace == {"adminSecret", "aesSecret", "getProject", "createProject",
                  "createKeeper", "waitKeeper", "createServer"}
NeedProject == {"createKeeper", "waitKeeper", "createServer"}

(* What an object that is there, or is being made, is made after.          *)
Founded(o) ==
    /\ o.kind = "project" => Exists("namespace")
    /\ o.kind \in {"keeper", "server"} => Exists("project")

RequestsFounded ==
    \A r \in Requests :
        /\ pc[r] \in NeedNamespace => Exists("namespace")
        /\ pc[r] \in NeedProject => Exists("project")

PrefixInv ==
    /\ LeftoversAreAPrefix
    /\ RequestsFounded
    /\ \A o \in late : Founded(o)

LEMMA MakingIsFounded ==
    ASSUME PrefixInv, NEW o \in Creatable, Making(o)
    PROVE  Founded(o)
  <1>1. ASSUME NEW r \in Requests, NEW k \in CreateKinds,
               pc[r] = CreateStep[k], o = Object(k, r)
        PROVE  Founded(o)
    <2>1. o.kind = k
      BY <1>1, ObjectType
    <2> QED
      BY <1>1, <2>1 DEF PrefixInv, RequestsFounded, Founded, CreateKinds, CreateStep,
                        NeedNamespace, NeedProject
  <1> QED
    BY <1>1 DEF Making, PrefixInv

LEMMA FlightIsFounded ==
    ASSUME PrefixInv, NEW r \in Requests, NEW o \in InFlight(r)
    PROVE  Founded(o)
  <1>1. DOMAIN CreateStep = CreateKinds
    BY DEF CreateStep, CreateKinds
  <1>2. Making(o)
    BY <1>1 DEF InFlight, Making
  <1> QED
    BY <1>2, FlightType, MakingIsFounded

LEMMA LeftoversStep ==
    TypeOK /\ PrefixInv /\ ObjectsChange => LeftoversAreAPrefix'
  <1> SUFFICES ASSUME TypeOK, PrefixInv, ObjectsChange PROVE LeftoversAreAPrefix'
    OBVIOUS
  <1>0. LeftoversAreAPrefix /\ UnitSets \subseteq Names
        /\ "project" \in Names \ UnitSets /\ "namespace" \in Names \ UnitSets
    BY UnitSetNameAssumption DEF PrefixInv, Names
  <1>1. CASE UNCHANGED objects
    BY <1>0, <1>1 DEF LeftoversAreAPrefix, Exists
  <1>2. ASSUME NEW o \in Creatable, Making(o), Make(o) PROVE LeftoversAreAPrefix'
    <2>1. objects' = [objects EXCEPT ![NameOf(o)] = o] /\ NameOf(o) \in Names
      BY <1>2, NameType DEF Make
    <2>2. Founded(o)
      BY <1>2, MakingIsFounded
    <2>3. (Exists("project") => Exists("project")') /\ (Exists("namespace") => Exists("namespace")')
      BY KeptForGood
    <2>4. o.kind \in CreateKinds
          /\ (o.kind \in {"namespace", "project"} => NameOf(o) = o.kind)
          /\ (o.kind \in {"keeper", "server"} => NameOf(o) \in UnitSets)
      BY DEF Creatable, Objects, UnitSetObjects, CreateKinds, NameOf, UnitSets,
             KeeperNames, ServerNames, Bodies
    <2>5. ASSUME NEW n \in UnitSets, objects'[n] # Absent, objects'[n].kind # "other"
          PROVE  Exists("project")'
      BY <1>0, <2>1, <2>2, <2>3, <2>4, <2>5
      DEF LeftoversAreAPrefix, Founded, Exists, TypeOK, CreateKinds
    <2>6. Exists("project")' => Exists("namespace")'
      BY <1>0, <2>1, <2>2, <2>3, <2>4
      DEF LeftoversAreAPrefix, Founded, Exists, TypeOK, CreateKinds
    <2> QED
      BY <2>5, <2>6 DEF LeftoversAreAPrefix, Exists
  <1>3. ASSUME NEW d \in UnitSets, Delete(d) PROVE LeftoversAreAPrefix'
    BY <1>0, <1>3 DEF Delete, LeftoversAreAPrefix, Exists, TypeOK
  <1> QED
    BY <1>1, <1>2, <1>3 DEF ObjectsChange

LEMMA RequestsFoundedStep ==
    TypeOK /\ PrefixInv /\ ObjectsChange /\ [Next]_vars => RequestsFounded'
  <1> SUFFICES ASSUME TypeOK, PrefixInv, ObjectsChange, [Next]_vars,
                      NEW q \in Requests
               PROVE  /\ pc'[q] \in NeedNamespace => Exists("namespace")'
                      /\ pc'[q] \in NeedProject => Exists("project")'
    BY DEF RequestsFounded
  <1> DEFINE Goal == /\ pc'[q] \in NeedNamespace => Exists("namespace")'
                     /\ pc'[q] \in NeedProject => Exists("project")'
  <1> USE DEF NeedNamespace, NeedProject
  <1>0. (Exists("project") => Exists("project")') /\ (Exists("namespace") => Exists("namespace")')
    BY KeptForGood
  <1>1. CASE pc'[q] = pc[q]
    BY <1>0, <1>1 DEF PrefixInv, RequestsFounded
  <1>2. CASE pc'[q] \in Over \cup {"list", "packages", "getNamespace", "createNamespace"}
    BY <1>2 DEF Over
  <1>3. ASSUME NEW r \in Requests, Arrive(r) PROVE Goal
    BY <1>1, <1>2, <1>3 DEF Arrive, GoTo, TypeOK
  <1>4. ASSUME NEW r \in Requests, ListUnitSets(r) \/ Fails(r) PROVE Goal
    BY <1>1, <1>2, <1>4 DEF ListUnitSets, Fails, GoTo, Answer, Over, TypeOK
  <1>5. ASSUME NEW r \in Requests, CheckPackage(r) PROVE Goal
    BY <1>1, <1>2, <1>5 DEF CheckPackage, Check, GoTo, Answer, Over, TypeOK
  <1>6. ASSUME NEW r \in Requests,
               CheckAdminSecret(r) \/ CheckAesSecret(r) \/ WaitKeeper(r)
        PROVE Goal
    <2>1. \/ pc' = [pc EXCEPT ![r] = "answered"]
          \/ /\ pc' = [pc EXCEPT ![r] = "aesSecret"] /\ pc[r] = "adminSecret"
          \/ /\ pc' = [pc EXCEPT ![r] = "getProject"] /\ pc[r] = "aesSecret"
          \/ /\ pc' = [pc EXCEPT ![r] = "createServer"] /\ pc[r] = "waitKeeper"
      BY <1>6 DEF CheckAdminSecret, CheckAesSecret, WaitKeeper, Check, GoTo, Answer, At
    <2> QED
      BY <1>0, <1>1, <1>2, <2>1 DEF Over, PrefixInv, RequestsFounded, TypeOK
  <1>7. ASSUME NEW r \in Requests, GetNamespace(r) PROVE Goal
    <2>1. \/ pc' = [pc EXCEPT ![r] = "createNamespace"]
          \/ pc' = [pc EXCEPT ![r] = "adminSecret"] /\ Exists("namespace")
      BY <1>7 DEF GetNamespace, Get, GoTo
    <2> QED
      BY <1>0, <1>1, <1>2, <2>1 DEF TypeOK
  <1>8. ASSUME NEW r \in Requests, GetProject(r) PROVE Goal
    <2>1. /\ pc[r] = "getProject"
          /\ \/ pc' = [pc EXCEPT ![r] = "createProject"]
             \/ pc' = [pc EXCEPT ![r] = AfterProject(r)] /\ Exists("project")
      BY <1>8 DEF GetProject, Get, GoTo, At
    <2>2. AfterProject(r) \in {"waitKeeper", "createKeeper"}
      BY DEF AfterProject
    <2> QED
      BY <1>0, <1>1, <2>1, <2>2 DEF PrefixInv, RequestsFounded, TypeOK
  <1>9. ASSUME NEW r \in Requests, NEW n \in {"namespace", "project"}, NEW step,
               Create(r, step, n) \/ NameTaken(r, step, n)
        PROVE Exists(n)'
    <2>1. NameOf(Object(n, r)) = n /\ Object(n, r) \in Creatable
      BY ObjectType DEF NameOf, Object, CreateKinds
    <2>2. Create(r, step, n) => objects'[n] = Object(n, r)
      BY <2>1, MakeEffect DEF Create, TypeOK, ObjectsOK
    <2>3. Object(n, r) # Absent
      BY <2>1, AbsentAssumption DEF Creatable
    <2> QED
      BY <1>0, <1>9, <2>1, <2>2, <2>3 DEF NameTaken, Exists
  <1>10. ASSUME NEW r \in Requests, CreateNamespace(r) PROVE Goal
    <2>1. pc' = [pc EXCEPT ![r] = "adminSecret"] /\ Exists("namespace")'
      BY <1>9, <1>10 DEF CreateNamespace, GoTo
    <2> QED
      BY <1>1, <2>1 DEF TypeOK
  <1>11. ASSUME NEW r \in Requests, CreateProject(r) PROVE Goal
    <2>1. /\ pc[r] = "createProject" /\ Exists("project")'
          /\ pc' = [pc EXCEPT ![r] = AfterProject(r)]
      BY <1>9, <1>11 DEF CreateProject, GoTo, Create, NameTaken, At
    <2>2. AfterProject(r) \in {"waitKeeper", "createKeeper"}
      BY DEF AfterProject
    <2> QED
      BY <1>0, <1>1, <2>1, <2>2 DEF PrefixInv, RequestsFounded, TypeOK
  <1>12. ASSUME NEW r \in Requests, CreateKeeper(r) \/ CreateServer(r) PROVE Goal
    <2>1. \/ pc' = [pc EXCEPT ![r] = "answered"]
          \/ pc' = [pc EXCEPT ![r] = "waitKeeper"] /\ pc[r] = "createKeeper"
      BY <1>12 DEF CreateKeeper, CreateServer, Create, NameTaken, Accept, GoTo, Answer, At
    <2> QED
      BY <1>0, <1>1, <1>2, <2>1 DEF Over, PrefixInv, RequestsFounded, TypeOK
  <1>13. CASE Crash
    BY <1>1, <1>2, <1>13 DEF Crash, Over
  <1>14. CASE \/ Rest \/ UNCHANGED vars
              \/ \E r \in Requests : Expire(r)
              \/ \E o \in late : LateCreate(o)
              \/ \E n \in KeeperNames : UnitUp(n) \/ UnitDown(n)
              \/ \E n \in UnitSets : Delete(n)
              \/ \E s \in Secrets : Provide(s)
              \/ \E v \in Versions, t \in Topologies : Install(v, t)
    <2>1. UNCHANGED pc
      BY <1>14 DEF Rest, Expire, LateCreate, UnitUp, UnitDown, Delete, Provide,
                   Install, vars, handlerVars
    <2> QED
      BY <1>1, <2>1
  <1> QED
    BY <1>3, <1>4, <1>5, <1>6, <1>7, <1>8, <1>10, <1>11, <1>12, <1>13, <1>14
    DEF Next, Handle

(* A write that lost its caller is one that a request was making.          *)
LEMMA LateStep ==
    TypeOK /\ [Next]_vars => late' \subseteq late \cup UNION {InFlight(r) : r \in Requests}
  <1> SUFFICES ASSUME TypeOK, [Next]_vars
               PROVE  late' \subseteq late \cup UNION {InFlight(r) : r \in Requests}
    OBVIOUS
  <1>1. ASSUME NEW r \in Requests, Handle(r) PROVE UNCHANGED late
    BY <1>1 DEF Handle, ListUnitSets, CheckPackage, CheckAdminSecret, CheckAesSecret,
                GetNamespace, GetProject, WaitKeeper, Check, Get, CreateNamespace,
                CreateProject, CreateKeeper, CreateServer, Create, NameTaken, kubeVars
  <1>2. ASSUME NEW r \in Requests, Arrive(r) \/ Expire(r) PROVE UNCHANGED late
    BY <1>2 DEF Arrive, Expire, kubeVars
  <1>3. CASE \/ Rest \/ UNCHANGED vars
             \/ \E n \in KeeperNames : UnitUp(n) \/ UnitDown(n)
             \/ \E n \in UnitSets : Delete(n)
             \/ \E s \in Secrets : Provide(s)
             \/ \E v \in Versions, t \in Topologies : Install(v, t)
    BY <1>3 DEF Rest, UnitUp, UnitDown, Delete, Provide, Install, vars, kubeVars
  <1>4. ASSUME NEW r \in Requests, Fails(r) PROVE late' = late \cup InFlight(r)
    BY <1>4 DEF Fails
  <1>5. CASE Crash
    BY <1>5 DEF Crash
  <1>6. ASSUME NEW o \in late, LateCreate(o) PROVE late' \subseteq late
    BY <1>6 DEF LateCreate
  <1> QED
    BY <1>1, <1>2, <1>3, <1>4, <1>5, <1>6 DEF Next

LEMMA PrefixStep == TypeOK /\ PrefixInv /\ [Next]_vars => PrefixInv'
  <1> SUFFICES ASSUME TypeOK, PrefixInv, [Next]_vars PROVE PrefixInv'
    OBVIOUS
  <1>1. ObjectsChange
    BY ObjectsStep
  <1>2. ASSUME NEW o \in late' PROVE Founded(o)'
    <2>1. Founded(o)
      BY <1>2, LateStep, FlightIsFounded DEF PrefixInv
    <2> QED
      BY <1>1, <2>1, KeptForGood DEF Founded
  <1> QED
    BY <1>1, <1>2, LeftoversStep, RequestsFoundedStep DEF PrefixInv

LEMMA PrefixInit == Init => PrefixInv
  <1> SUFFICES ASSUME Init PROVE PrefixInv
    OBVIOUS
  <1>1. \A r \in Requests : pc[r] = "idle"
    BY DEF Init
  <1>2. late = {}
    BY DEF Init
  <1>3. objects["project"] = Absent
    BY UnitSetNameAssumption DEF Init, Names, UnitSets
  <1>4. ASSUME NEW n \in UnitSets, objects[n] # Absent PROVE objects[n].kind = "other"
    BY <1>4, ForeignAssumption DEF Init, Names
  <1> QED
    BY <1>1, <1>2, <1>3, <1>4
    DEF PrefixInv, LeftoversAreAPrefix, RequestsFounded, NeedNamespace, NeedProject, Exists

(* Whatever fails, and whatever late creates still arrive, what is left    *)
(* behind is a beginning of the sequence.                                  *)
THEOREM LeftoversPrefix == Spec => []LeftoversAreAPrefix
  <1>1. PrefixInv => LeftoversAreAPrefix
    BY DEF PrefixInv
  <1> QED
    BY <1>1, TypeInit, TypeStep, PrefixInit, PrefixStep, PTL DEF Spec
-----------------------------------------------------------------------------
(* Every server UnitSet stands on its Keeper.  The invariant says of every *)
(* server that is there or may still be created, and of every request that *)
(* will not create the Keeper itself any more, that its Keeper fits; all   *)
(* of it as long as nothing of that name has been deleted.                 *)

KeeperName(b) == UnitSetName["keeper"][b.cluster]
UnitsOf(o) == Units[o.kind][o.body.topology]

(* The Keeper a body needs is there.                                       *)
Fits(b) ==
    removed[KeeperName(b)] = 0 =>
        /\ Exists(KeeperName(b))
        /\ objects[KeeperName(b)].kind = "keeper"
        /\ objects[KeeperName(b)].body.cluster = b.cluster
        /\ objects[KeeperName(b)].body.version = b.version
        /\ Units["keeper"][objects[KeeperName(b)].body.topology]
             = Units["keeper"][b.topology]
(* It has been ready, too.                                                 *)
Stands(b) == Fits(b) /\ (removed[KeeperName(b)] = 0 => KeeperName(b) \in wasReady)

(* A UnitSet is under the name its creator builds for it.                  *)
WellNamed ==
    \A n \in UnitSets : Exists(n) =>
        \/ objects[n].kind = "other" /\ n \in DOMAIN Foreign
        \/ objects[n].kind \in {"keeper", "server"} /\ NameOf(objects[n]) = n

(* A Keeper name that is free has no ready units; one that is taken has at *)
(* most its units, and has been ready when it has them all.                *)
ReadyCounted ==
    \A n \in KeeperNames :
        /\ ~Exists(n) => readyUnits[n] = 0
        /\ Exists(n) => /\ readyUnits[n] <= UnitsOf(objects[n])
                        /\ readyUnits[n] = UnitsOf(objects[n]) => n \in wasReady

PastKeeper(r) ==
    pc[r] \in {"waitKeeper", "createServer"} \/ (pc[r] \in Active /\ keeperExists[r])

ServersStand ==
    \A n \in UnitSets, b \in Bodies :
        Exists(n) /\ objects[n].kind = "server" /\ objects[n].body = b => Stands(b)
RequestsStand ==
    \A r \in Requests :
        /\ PastKeeper(r) => Fits(BodyOf[r])
        /\ pc[r] = "createServer" => Stands(BodyOf[r])
LateStand == \A o \in late : o.kind = "server" => Stands(o.body)

KeeperInv == WellNamed /\ ReadyCounted /\ ServersStand /\ RequestsStand /\ LateStand

(* An object that is there stays, a Keeper that was ready stays known as   *)
(* such, until the object is deleted, and then it is counted.              *)
KeepersStay ==
    \A n \in KeeperNames : removed'[n] = 0 =>
        /\ removed[n] = 0
        /\ Exists(n) => Exists(n)' /\ objects'[n] = objects[n]
        /\ n \in wasReady => n \in wasReady'

LEMMA KeeperNameType ==
    ASSUME NEW b \in Bodies PROVE KeeperName(b) \in KeeperNames
  BY DEF Bodies, KeeperName, KeeperNames

LEMMA KeepersStayStep == TypeOK /\ [Next]_vars => KeepersStay
  <1> SUFFICES ASSUME TypeOK, [Next]_vars PROVE KeepersStay
    OBVIOUS
  <1>0. KeeperNames \subseteq UnitSets /\ KeeperNames \subseteq Names
    BY DEF UnitSets, Names
  <1>1. ASSUME NEW d \in UnitSets, Delete(d) PROVE KeepersStay
    BY <1>0, <1>1 DEF Delete, KeepersStay, TypeOK, Exists
  <1>2. wasReady \subseteq wasReady' \/ \E d \in UnitSets : Delete(d)
    <2>1. ASSUME NEW r \in Requests, Handle(r) \/ Arrive(r) \/ Expire(r) \/ Fails(r)
          PROVE  UNCHANGED wasReady
      BY <2>1 DEF Handle, ListUnitSets, CheckPackage, CheckAdminSecret, CheckAesSecret,
                  GetNamespace, GetProject, WaitKeeper, Check, Get, CreateNamespace,
                  CreateProject, CreateKeeper, CreateServer, Create, NameTaken,
                  Arrive, Expire, Fails, historyVars
    <2>2. CASE \/ Crash \/ Rest \/ UNCHANGED vars
               \/ \E o \in late : LateCreate(o)
               \/ \E n \in KeeperNames : UnitDown(n)
               \/ \E s \in Secrets : Provide(s)
               \/ \E v \in Versions, t \in Topologies : Install(v, t)
      BY <2>2 DEF Crash, Rest, LateCreate, UnitDown, Provide, Install, vars, historyVars
    <2>3. ASSUME NEW n \in KeeperNames, UnitUp(n) PROVE wasReady \subseteq wasReady'
      BY <2>3 DEF UnitUp
    <2> QED
      BY <2>1, <2>2, <2>3 DEF Next
  <1>3. CASE wasReady \subseteq wasReady'
    <2>1. CASE UNCHANGED <<objects, removed>>
      BY <1>3, <2>1 DEF KeepersStay, Exists
    <2>2. ASSUME NEW o \in Creatable, Make(o), UNCHANGED removed PROVE KeepersStay
      BY <1>0, <1>3, <2>2, MakeEffect DEF TypeOK, ObjectsOK, Keeps, KeepersStay, Exists
    <2> QED
      BY <1>1, <2>1, <2>2, ObjectsStep DEF ObjectsChange
  <1> QED
    BY <1>1, <1>2, <1>3

LEMMA FitsStay ==
    ASSUME KeepersStay, NEW b \in Bodies
    PROVE  /\ Fits(b) => Fits(b)'
           /\ Stands(b) => Stands(b)'
  <1>1. KeeperName(b) \in KeeperNames /\ KeeperName(b)' = KeeperName(b)
    BY KeeperNameType DEF KeeperName
  <1> QED
    BY <1>1 DEF KeepersStay, Fits, Stands, Exists

(* The names of a Keeper and of a server of one cluster differ.            *)
LEMMA KeeperIsKeeper ==
    ASSUME WellNamed, NEW n \in KeeperNames, Exists(n)
    PROVE  objects[n].kind \in {"keeper", "server"}
  BY ForeignAssumption DEF WellNamed, UnitSets

LEMMA WellNamedStep ==
    ASSUME TypeOK, WellNamed, ObjectsChange PROVE WellNamed'
  <1>0. UnitSets \subseteq Names
    BY DEF Names
  <1>1. CASE UNCHANGED objects
    BY <1>1 DEF WellNamed, NameOf, Exists
  <1>2. ASSUME NEW o \in Creatable, Make(o) PROVE WellNamed'
    <2>1. objects' = [objects EXCEPT ![NameOf(o)] = o] /\ NameOf(o) \in Names
      BY <1>2, NameType DEF Make
    <2>2. ASSUME NEW n \in UnitSets, n = NameOf(o)
          PROVE  o.kind \in {"keeper", "server"}
      BY <2>2, UnitSetNameAssumption
      DEF Creatable, Objects, UnitSetObjects, NameOf
    <2> QED
      BY <1>0, <2>1, <2>2 DEF WellNamed, Exists, TypeOK, NameOf
  <1>3. ASSUME NEW d \in UnitSets, Delete(d) PROVE WellNamed'
    BY <1>0, <1>3 DEF Delete, WellNamed, Exists, TypeOK, NameOf
  <1> QED
    BY <1>1, <1>2, <1>3 DEF ObjectsChange

(* The units of a UnitSet a request makes.                                 *)
LEMMA UnitsType ==
    ASSUME TypeOK, WellNamed, NEW n \in KeeperNames, Exists(n)
    PROVE  UnitsOf(objects[n]) \in Nat \ {0}
  <1>1. n \in UnitSets /\ objects[n] \in UnitSetObjects
    BY DEF UnitSets, TypeOK, Exists
  <1> QED
    BY <1>1, KeeperIsKeeper, UnitsAssumption DEF UnitsOf, UnitSetObjects, Bodies

LEMMA ReadyCountedStep ==
    TypeOK /\ WellNamed /\ ReadyCounted /\ [Next]_vars => ReadyCounted'
  <1> SUFFICES ASSUME TypeOK, WellNamed, ReadyCounted, [Next]_vars PROVE ReadyCounted'
    OBVIOUS
  <1>0. KeeperNames \subseteq UnitSets /\ KeeperNames \subseteq Names
    BY DEF UnitSets, Names
  <1>1. CASE UNCHANGED <<objects, readyUnits, wasReady>>
    BY <1>1 DEF ReadyCounted, Exists, UnitsOf
  <1>2. ASSUME NEW o \in Creatable, Make(o), UNCHANGED <<readyUnits, wasReady>>
        PROVE  ReadyCounted'
    <2>1. WellNamed'
      BY <1>2, WellNamedStep, ObjectsStep
    <2>2. objects' = [objects EXCEPT ![NameOf(o)] = o] /\ NameOf(o) \in Names
          /\ ~Exists(NameOf(o)) /\ o \in Objects
      BY <1>2, NameType DEF Make
    <2>3. ASSUME NEW n \in KeeperNames, n = NameOf(o)
          PROVE  UnitsOf(o) \in Nat \ {0}
      <3>1. o \in UnitSetObjects /\ o.kind \in {"keeper", "server"}
        BY <1>0, <2>3, NameType, UnitSetNameAssumption
        DEF Creatable, UnitSetObjects, NameOf
      <3> QED
        BY <3>1, UnitsAssumption DEF UnitsOf, UnitSetObjects, Bodies
    <2> QED
      BY <1>0, <1>2, <2>2, <2>3, AbsentAssumption
      DEF ReadyCounted, Exists, TypeOK, UnitsOf
  <1>3. ASSUME NEW d \in UnitSets, Delete(d) PROVE ReadyCounted'
    BY <1>0, <1>3 DEF Delete, ReadyCounted, Exists, TypeOK, UnitsOf
  <1>4. ASSUME NEW m \in KeeperNames, UnitUp(m) PROVE ReadyCounted'
    <2>1. UnitsOf(objects[m]) \in Nat \ {0} /\ readyUnits[m] \in Nat
      BY <1>4, UnitsType DEF UnitUp, TypeOK
    <2> QED
      BY <1>4, <2>1 DEF UnitUp, ReadyCounted, Exists, TypeOK, UnitsOf
  <1>5. ASSUME NEW m \in KeeperNames, UnitDown(m) PROVE ReadyCounted'
    <2>1. UNCHANGED <<objects, wasReady>>
          /\ readyUnits' = [readyUnits EXCEPT ![m] = readyUnits[m] - 1]
          /\ readyUnits[m] > 0
      BY <1>5 DEF UnitDown, historyVars
    <2>2. Exists(m) /\ UnitsOf(objects[m]) \in Nat
      BY <2>1, UnitsType DEF ReadyCounted, TypeOK
    <2> QED
      BY <2>1, <2>2 DEF ReadyCounted, Exists, TypeOK, UnitsOf
  <1>6. \/ UNCHANGED <<objects, readyUnits, wasReady>>
        \/ \E o \in Creatable : Make(o) /\ UNCHANGED <<readyUnits, wasReady>>
        \/ \E d \in UnitSets : Delete(d)
        \/ \E m \in KeeperNames : UnitUp(m) \/ UnitDown(m)
    <2>1. CASE \/ Crash \/ Rest \/ UNCHANGED vars
               \/ \E s \in Secrets : Provide(s)
               \/ \E v \in Versions, t \in Topologies : Install(v, t)
               \/ \E r \in Requests : Arrive(r) \/ Expire(r) \/ Fails(r)
      BY <2>1 DEF Crash, Rest, Provide, Install, Arrive, Expire, Fails,
                  vars, kubeVars, historyVars
    <2>2. ASSUME NEW r \in Requests,
                 ListUnitSets(r) \/ CheckPackage(r) \/ CheckAdminSecret(r)
                 \/ CheckAesSecret(r) \/ GetNamespace(r) \/ GetProject(r)
                 \/ WaitKeeper(r)
          PROVE  UNCHANGED <<objects, readyUnits, wasReady>>
      BY <2>2 DEF ListUnitSets, CheckPackage, CheckAdminSecret, CheckAesSecret,
                  GetNamespace, GetProject, WaitKeeper, Check, Get, kubeVars, historyVars
    <2>3. ASSUME NEW r \in Requests,
                 CreateNamespace(r) \/ CreateProject(r) \/ CreateKeeper(r)
                   \/ CreateServer(r)
          PROVE  \/ UNCHANGED <<objects, readyUnits, wasReady>>
                 \/ \E o \in Creatable : Make(o) /\ UNCHANGED <<readyUnits, wasReady>>
      <3>1. \E k \in CreateKinds :
               Create(r, CreateStep[k], k) \/ NameTaken(r, CreateStep[k], k)
        BY <2>3 DEF CreateNamespace, CreateProject, CreateKeeper, CreateServer,
                    CreateKinds, CreateStep
      <3> QED
        BY <3>1, ObjectType DEF Create, NameTaken, kubeVars
    <2>4. ASSUME NEW o \in late, LateCreate(o)
          PROVE  \/ UNCHANGED <<objects, readyUnits, wasReady>>
                 \/ \E x \in Creatable : Make(x) /\ UNCHANGED <<readyUnits, wasReady>>
      BY <2>4 DEF LateCreate, TypeOK, historyVars
    <2> QED
      BY <2>1, <2>2, <2>3, <2>4 DEF Next, Handle
  <1> QED
    BY <1>1, <1>2, <1>3, <1>4, <1>5, <1>6

(* Servers that are being made stand on their Keepers.                     *)
LEMMA MakingStands ==
    ASSUME KeeperInv, NEW o \in Creatable, Making(o), o.kind = "server"
    PROVE  Stands(o.body) /\ o.body \in Bodies
  <1>1. o.body \in Bodies
    BY DEF Creatable, Objects, UnitSetObjects
  <1>2. ASSUME NEW r \in Requests, NEW k \in CreateKinds,
               pc[r] = CreateStep[k], o = Object(k, r)
        PROVE  Stands(o.body)
    <2>1. k = "server"
      BY <1>2, ObjectType
    <2> QED
      BY <1>2, <2>1 DEF KeeperInv, RequestsStand, CreateStep, Object
  <1> QED
    BY <1>1, <1>2 DEF Making, KeeperInv, LateStand

LEMMA ServersStandStep ==
    ASSUME TypeOK, KeeperInv, ObjectsChange, KeepersStay PROVE ServersStand'
  <1>0. UnitSets \subseteq Names
    BY DEF Names
  <1> SUFFICES ASSUME NEW n \in UnitSets, NEW b \in Bodies,
                      objects'[n] # Absent, objects'[n].kind = "server",
                      objects'[n].body = b
               PROVE  Stands(b)'
    BY DEF ServersStand, Exists
  <1>1. CASE objects'[n] = objects[n]
    BY <1>1, FitsStay DEF KeeperInv, ServersStand, Exists
  <1>2. ASSUME NEW o \in Creatable, Making(o), Make(o), n = NameOf(o)
        PROVE  Stands(b)'
    <2>1. objects'[n] = o
      BY <1>0, <1>2 DEF Make, TypeOK
    <2>2. Stands(b)
      BY <1>2, <2>1, MakingStands
    <2> QED
      BY <2>2, FitsStay
  <1>3. \/ objects'[n] = objects[n]
        \/ \E o \in Creatable : Making(o) /\ Make(o) /\ n = NameOf(o)
        \/ objects'[n] = Absent
    BY <1>0 DEF ObjectsChange, Make, Delete, TypeOK
  <1> QED
    BY <1>1, <1>2, <1>3

LEMMA LateStandStep ==
    ASSUME TypeOK, KeeperInv, [Next]_vars, KeepersStay PROVE LateStand'
  <1> SUFFICES ASSUME NEW o \in late', o.kind = "server" PROVE Stands(o.body)'
    BY DEF LateStand, Stands, Fits, KeeperName, Exists
  <1>1. DOMAIN CreateStep = CreateKinds
    BY DEF CreateStep, CreateKinds
  <1>2. o \in Creatable /\ Making(o)
    BY <1>1, LateStep, FlightType DEF TypeOK, InFlight, Making
  <1>3. PICK b \in Bodies : b = o.body /\ Stands(b)
    BY <1>2, MakingStands
  <1>4. Stands(b)'
    BY <1>3, FitsStay
  <1> QED
    BY <1>3, <1>4 DEF Stands, Fits, KeeperName, Exists

(* How a request comes to need its Keeper: it finds it in the scan, creates*)
(* it, or has waited for it.                                               *)
LEMMA PastKeeperStep ==
    ASSUME TypeOK, [Next]_vars, NEW q \in Requests
    PROVE  \/ pc'[q] \notin Active
           \/ /\ PastKeeper(q)' => PastKeeper(q)
              /\ pc'[q] = "createServer" => pc[q] = "createServer"
           \/ ListUnitSets(q) /\ pc'[q] = "packages" /\ PastKeeper(q)'
           \/ CreateKeeper(q) /\ pc'[q] = "waitKeeper"
           \/ WaitKeeper(q) /\ pc'[q] = "createServer"
  <1> DEFINE Goal == \/ pc'[q] \notin Active
                     \/ /\ PastKeeper(q)' => PastKeeper(q)
                        /\ pc'[q] = "createServer" => pc[q] = "createServer"
                     \/ ListUnitSets(q) /\ pc'[q] = "packages" /\ PastKeeper(q)'
                     \/ CreateKeeper(q) /\ pc'[q] = "waitKeeper"
                     \/ WaitKeeper(q) /\ pc'[q] = "createServer"
  <1>0. "answered" \notin Active /\ "lost" \notin Active
    BY DEF Active
  <1>1. CASE pc'[q] = pc[q] /\ keeperExists'[q] = keeperExists[q]
    BY <1>1 DEF PastKeeper
  <1>2. ASSUME NEW r \in Requests, Arrive(r) PROVE Goal
    BY <1>1, <1>2 DEF Arrive, GoTo, TypeOK, PastKeeper
  <1>3. ASSUME NEW r \in Requests, ListUnitSets(r) PROVE Goal
    <2>1. CASE r # q
      BY <1>1, <1>3, <2>1 DEF ListUnitSets, GoTo, Answer, TypeOK
    <2>2. pc' = [pc EXCEPT ![r] = "answered"] \/ pc' = [pc EXCEPT ![r] = "packages"]
      BY <1>3 DEF ListUnitSets, GoTo, Answer
    <2>3. CASE r = q
      BY <1>0, <1>3, <2>2, <2>3 DEF TypeOK
    <2> QED
      BY <2>1, <2>3
  <1>4. ASSUME NEW r \in Requests,
               CheckPackage(r) \/ CheckAdminSecret(r) \/ CheckAesSecret(r)
                 \/ GetNamespace(r) \/ CreateNamespace(r)
        PROVE  Goal
    <2>1. /\ UNCHANGED keeperExists /\ pc[r] \in Active
          /\ \E s \in {"answered", "getNamespace", "aesSecret", "getProject",
                       "createNamespace", "adminSecret"} : pc' = [pc EXCEPT ![r] = s]
      BY <1>4 DEF CheckPackage, CheckAdminSecret, CheckAesSecret, GetNamespace, Check,
                  Get, CreateNamespace, Create, NameTaken, GoTo, Answer, At, Active
    <2> QED
      BY <1>0, <2>1 DEF PastKeeper, TypeOK
  <1>5. ASSUME NEW r \in Requests, GetProject(r) \/ CreateProject(r) PROVE Goal
    <2>1. /\ UNCHANGED keeperExists /\ pc[r] \in Active
          /\ \E s \in {"createProject", AfterProject(r)} : pc' = [pc EXCEPT ![r] = s]
      BY <1>5 DEF GetProject, Get, CreateProject, Create, NameTaken, GoTo, At, Active
    <2>2. (AfterProject(r) = "waitKeeper" /\ keeperExists[r]) \/ AfterProject(r) = "createKeeper"
      BY DEF AfterProject
    <2> QED
      BY <2>1, <2>2 DEF PastKeeper, TypeOK
  <1>6. ASSUME NEW r \in Requests, CreateKeeper(r) PROVE Goal
    <2>1. /\ UNCHANGED keeperExists
          /\ \E s \in {"answered", "waitKeeper"} : pc' = [pc EXCEPT ![r] = s]
      BY <1>6 DEF CreateKeeper, Create, NameTaken, GoTo, Answer
    <2> QED
      BY <1>0, <1>1, <1>6, <2>1 DEF TypeOK
  <1>7. ASSUME NEW r \in Requests, WaitKeeper(r) PROVE Goal
    <2>1. /\ UNCHANGED keeperExists
          /\ \E s \in {"answered", "createServer"} : pc' = [pc EXCEPT ![r] = s]
      BY <1>7 DEF WaitKeeper, GoTo, Answer
    <2> QED
      BY <1>0, <1>1, <1>7, <2>1 DEF TypeOK
  <1>8. ASSUME NEW r \in Requests, CreateServer(r) \/ Fails(r) PROVE Goal
    <2>1. UNCHANGED keeperExists /\ pc' = [pc EXCEPT ![r] = "answered"]
      BY <1>8 DEF CreateServer, Create, NameTaken, Accept, Fails, Answer
    <2> QED
      BY <1>0, <1>1, <2>1 DEF TypeOK
  <1>9. CASE Crash
    <2>1. UNCHANGED keeperExists /\ (pc'[q] = pc[q] \/ pc'[q] = "lost")
      BY <1>9 DEF Crash
    <2> QED
      BY <1>0, <1>1, <2>1
  <1>10. CASE \/ Rest \/ UNCHANGED vars
              \/ \E r \in Requests : Expire(r)
              \/ \E o \in late : LateCreate(o)
              \/ \E n \in KeeperNames : UnitUp(n) \/ UnitDown(n)
              \/ \E n \in UnitSets : Delete(n)
              \/ \E s \in Secrets : Provide(s)
              \/ \E v \in Versions, t \in Topologies : Install(v, t)
    <2>1. UNCHANGED <<pc, keeperExists>>
      BY <1>10 DEF Rest, Expire, LateCreate, UnitUp, UnitDown, Delete, Provide,
                   Install, vars, handlerVars
    <2> QED
      BY <1>1, <2>1
  <1> QED
    BY <1>2, <1>3, <1>4, <1>5, <1>6, <1>7, <1>8, <1>9, <1>10 DEF Next, Handle

LEMMA BodyNames ==
    ASSUME NEW r \in Requests
    PROVE  /\ BodyOf[r] \in Bodies /\ BodyOf[r].cluster \in Clusters
           /\ Keeper(r) = KeeperName(BodyOf[r])
           /\ Keeper(r) \in KeeperNames /\ Keeper(r) \in UnitSets
           /\ NameOf(Object("keeper", r)) = Keeper(r)
           /\ Object("keeper", r) = [kind |-> "keeper", body |-> BodyOf[r]]
           /\ Object("keeper", r) # Absent
  <1>1. BodyOf[r] \in Bodies /\ BodyOf[r].cluster \in Clusters
    BY BodiesAssumption DEF Bodies
  <1>2. Object("keeper", r) # Absent
    BY ObjectType, AbsentAssumption DEF Creatable, CreateKinds
  <1> QED
    BY <1>1, <1>2 DEF Keeper, KeeperName, KeeperNames, UnitSets, NameOf, Object

(* The scan takes a Keeper of the cluster with what it compares.           *)
LEMMA ScanFinds ==
    ASSUME TypeOK, WellNamed, NEW q \in Requests, ListUnitSets(q),
           pc'[q] = "packages", PastKeeper(q)'
    PROVE  Fits(BodyOf[q])
  <1>1. pc' = [pc EXCEPT ![q] = "packages"]
        /\ keeperExists' = [keeperExists EXCEPT ![q] = Keeper(q) \in Group(BodyOf[q].cluster)]
        /\ ~(Keeper(q) \in Group(BodyOf[q].cluster) /\ ~KeeperMatches(q))
    BY DEF ListUnitSets, GoTo, Answer, TypeOK
  <1>2. Keeper(q) \in Group(BodyOf[q].cluster) /\ KeeperMatches(q)
    BY <1>1 DEF PastKeeper, TypeOK
  <1>3. Exists(Keeper(q)) /\ objects[Keeper(q)].body.cluster = BodyOf[q].cluster
    BY <1>2 DEF Group
  <1>4. objects[Keeper(q)].kind = "keeper"
    <2>1. objects[Keeper(q)].kind \in {"keeper", "server"}
      BY <1>3, BodyNames, KeeperIsKeeper
    <2>2. objects[Keeper(q)].kind = "server" =>
             UnitSetName["server"][BodyOf[q].cluster] = Keeper(q)
      BY <1>3, <2>1, BodyNames, ForeignAssumption DEF WellNamed, NameOf
    <2> QED
      BY <2>1, <2>2, BodyNames, UnitSetNameAssumption DEF KeeperName
  <1> QED
    BY <1>2, <1>3, <1>4, BodyNames DEF Fits, KeeperMatches, Expected

LEMMA RequestsStandStep ==
    ASSUME TypeOK, KeeperInv, [Next]_vars, KeepersStay PROVE RequestsStand'
  <1> SUFFICES ASSUME NEW q \in Requests
               PROVE  /\ PastKeeper(q)' => Fits(BodyOf[q])'
                      /\ pc'[q] = "createServer" => Stands(BodyOf[q])'
    BY DEF RequestsStand, Fits, Stands, KeeperName, Exists
  <1>0. /\ BodyOf[q] \in Bodies
        /\ Fits(BodyOf[q]) => Fits(BodyOf[q])'
        /\ Stands(BodyOf[q]) => Stands(BodyOf[q])'
    BY BodyNames, FitsStay
  <1>1. CASE pc'[q] \notin Active
    BY <1>1 DEF PastKeeper, Active
  <1>2. CASE /\ PastKeeper(q)' => PastKeeper(q)
             /\ pc'[q] = "createServer" => pc[q] = "createServer"
    BY <1>0, <1>2 DEF KeeperInv, RequestsStand
  <1>3. CASE ListUnitSets(q) /\ pc'[q] = "packages" /\ PastKeeper(q)'
    BY <1>0, <1>3, ScanFinds DEF KeeperInv
  <1>4. CASE CreateKeeper(q) /\ pc'[q] = "waitKeeper"
    <2>1. Make(Object("keeper", q)) /\ Object("keeper", q) \in Creatable
      BY <1>4, ObjectType DEF CreateKeeper, Create, Answer, TypeOK, CreateKinds
    <2>2. objects'[Keeper(q)] = [kind |-> "keeper", body |-> BodyOf[q]]
          /\ objects'[Keeper(q)] # Absent
      BY <2>1, BodyNames, MakeEffect DEF TypeOK, ObjectsOK
    <2>3. Fits(BodyOf[q])'
      BY <2>2, BodyNames DEF Fits, KeeperName, Exists
    <2> QED
      BY <1>4, <2>3
  <1>5. CASE WaitKeeper(q) /\ pc'[q] = "createServer"
    <2>1. pc[q] = "waitKeeper" /\ Exists(Keeper(q)) /\ readyUnits[Keeper(q)] = Expected(q)
      BY <1>5 DEF WaitKeeper, At, GoTo, Answer, TypeOK
    <2>2. Fits(BodyOf[q])
      BY <2>1 DEF KeeperInv, RequestsStand, PastKeeper
    <2>3. removed[Keeper(q)] = 0 => UnitsOf(objects[Keeper(q)]) = Expected(q)
      BY <2>2, BodyNames DEF Fits, UnitsOf, Expected
    <2>4. removed[Keeper(q)] = 0 => Keeper(q) \in wasReady
      BY <2>1, <2>3, BodyNames DEF KeeperInv, ReadyCounted
    <2>5. Stands(BodyOf[q])
      BY <2>2, <2>4, BodyNames DEF Stands
    <2> QED
      BY <1>0, <2>2, <2>5
  <1> QED
    BY <1>1, <1>2, <1>3, <1>4, <1>5, PastKeeperStep

LEMMA KeeperInvStep == TypeOK /\ KeeperInv /\ [Next]_vars => KeeperInv'
  <1> SUFFICES ASSUME TypeOK, KeeperInv, [Next]_vars PROVE KeeperInv'
    OBVIOUS
  <1>1. ObjectsChange /\ KeepersStay
    BY ObjectsStep, KeepersStayStep
  <1>2. WellNamed' /\ ReadyCounted'
    BY <1>1, WellNamedStep, ReadyCountedStep DEF KeeperInv
  <1>3. ServersStand' /\ RequestsStand' /\ LateStand'
    BY <1>1, ServersStandStep, RequestsStandStep, LateStandStep
  <1> QED
    BY <1>2, <1>3 DEF KeeperInv

LEMMA KeeperInvInit == Init => KeeperInv
  <1> SUFFICES ASSUME Init PROVE KeeperInv
    OBVIOUS
  <1>1. ASSUME NEW n \in UnitSets, Exists(n)
        PROVE  n \in DOMAIN Foreign /\ objects[n].kind = "other"
    BY <1>1, ForeignAssumption DEF Init, Names, Exists
  <1>2. WellNamed /\ ServersStand
    BY <1>1 DEF WellNamed, ServersStand
  <1>3. ReadyCounted
    BY <1>1, ForeignAssumption DEF Init, ReadyCounted, UnitSets
  <1>4. RequestsStand /\ LateStand
    BY DEF Init, RequestsStand, LateStand, PastKeeper, Active
  <1> QED
    BY <1>2, <1>3, <1>4 DEF KeeperInv

(* A server UnitSet carries the cluster it is named for.                   *)
LEMMA InvStands == TypeOK /\ KeeperInv => ServerStandsOnKeeper
  <1> SUFFICES ASSUME TypeOK, KeeperInv, NEW c \in Clusters,
                      objects[UnitSetName["server"][c]] # Absent,
                      objects[UnitSetName["server"][c]].kind = "server",
                      removed[UnitSetName["keeper"][c]] = 0
               PROVE  LET server == objects[UnitSetName["server"][c]]
                          name == UnitSetName["keeper"][c]
                      IN  /\ Exists(name) /\ name \in wasReady
                          /\ objects[name].kind = "keeper"
                          /\ objects[name].body.cluster = c
                          /\ objects[name].body.version = server.body.version
                          /\ Units["keeper"][objects[name].body.topology]
                               = Units["keeper"][server.body.topology]
    BY DEF ServerStandsOnKeeper
  <1> DEFINE n == UnitSetName["server"][c]
             b == objects[n].body
  <1>1. n \in UnitSets /\ b \in Bodies
    BY DEF UnitSets, ServerNames, TypeOK, UnitSetObjects
  <1>2. b.cluster = c
    <2>1. NameOf(objects[n]) = n
      BY <1>1 DEF KeeperInv, WellNamed, Exists
    <2>2. UnitSetName["server"][b.cluster] = UnitSetName["server"][c] /\ b.cluster \in Clusters
      BY <1>1, <2>1 DEF NameOf, Bodies
    <2> QED
      BY <2>2, UnitSetNameAssumption
  <1>3. Stands(b)
    BY <1>1 DEF KeeperInv, ServersStand, Exists
  <1> QED
    BY <1>2, <1>3 DEF Stands, Fits, KeeperName

(* Whoever creates the server UnitSet of a cluster, however late, and      *)
(* whatever the names of other clusters, its Keeper is there, is its own,  *)
(* fits and has been ready.                                                *)
THEOREM ServerOnKeeper == Spec => []ServerStandsOnKeeper
  <1> QED
    BY TypeInit, TypeStep, KeeperInvInit, KeeperInvStep, InvStands, PTL DEF Spec

-----------------------------------------------------------------------------
(* Creation is a registry: every step is one of ClusterRegistry's or does  *)
(* not change what it is about.  A UnitSet is under the name made for it   *)
(* (WellNamed), so that the name of a server is free, holds a server of    *)
(* its own cluster, or is blocked by something else; and a request that is *)
(* being handled has not been told yet (OpenUntold).                       *)

OpenUntold ==
    \A r \in Requests : pc[r] \in Active =>
        answer[r] \notin {"ACCEPTED", "CLUSTER_ALREADY_EXISTS"}

LEMMA ServerNames1 ==
    ASSUME NEW c \in Clusters
    PROVE  UnitSetName["server"][c] \in UnitSets /\ UnitSetName["server"][c] \in Names
  BY DEF UnitSets, ServerNames, Names

LEMMA ServerIsOwn ==
    ASSUME TypeOK, WellNamed, NEW c \in Clusters, HasServer(c)
    PROVE  /\ Holder(c).body \in Bodies /\ Holder(c).body.cluster = c
           /\ Holder(c) = [kind |-> "server", body |-> Holder(c).body]
           /\ Holder(c).body \in Registered
  <1>1. Holder(c) \in UnitSetObjects /\ Holder(c).kind = "server"
    BY ServerNames1 DEF HasServer, Holder, TypeOK
  <1>2. Holder(c).body \in Bodies /\ Holder(c).body.cluster \in Clusters
        /\ Holder(c) = [kind |-> "server", body |-> Holder(c).body]
    BY <1>1 DEF UnitSetObjects, Bodies
  <1>3. NameOf(Holder(c)) = UnitSetName["server"][c]
    BY <1>1, ServerNames1 DEF WellNamed, Holder, HasServer, Exists
  <1>4. UnitSetName["server"][Holder(c).body.cluster] = UnitSetName["server"][c]
    BY <1>1, <1>3 DEF NameOf
  <1>5. Holder(c).body.cluster = c
    BY <1>2, <1>4, UnitSetNameAssumption
  <1> QED
    BY <1>2, <1>5 DEF Registered

LEMMA RegisteredIs ==
    ASSUME TypeOK, WellNamed, NEW b \in Registered
    PROVE  b \in Bodies /\ b.cluster \in Clusters /\ HasServer(b.cluster) /\ Holder(b.cluster).body = b
  <1>1. PICK c \in Clusters : HasServer(c) /\ b = Holder(c).body
    BY DEF Registered
  <1> QED
    BY <1>1, ServerIsOwn

LEMMA NameHolder ==
    ASSUME TypeOK, WellNamed, NEW c \in Clusters
    PROVE  /\ Registry!IsThere(c) <=> HasServer(c)
           /\ Registry!IsFree(c) <=> Holder(c) = Absent
  <1>1. Registry!IsThere(c) <=> HasServer(c)
    BY ServerIsOwn, RegisteredIs DEF Registry!IsThere
  <1>2. c \in Blocked <=> Holder(c) # Absent /\ ~HasServer(c)
    BY DEF Blocked
  <1> QED
    BY <1>1, <1>2 DEF Registry!IsFree, HasServer

(* The names of servers that a step does not touch.                        *)
LEMMA HoldersSame ==
    ASSUME \A c \in Clusters : Holder(c)' = Holder(c)
    PROVE  UNCHANGED <<Registered, Blocked>>
  <1>1. \A c \in Clusters : HasServer(c)' = HasServer(c)
    BY DEF HasServer
  <1>2. Registered' = Registered
    BY <1>1 DEF Registered
  <1>3. Blocked' = Blocked
    BY <1>1 DEF Blocked
  <1> QED
    BY <1>2, <1>3

(* A step changes the holder of one name at most.                          *)
LEMMA HolderChanges ==
    ASSUME TypeOK, WellNamed, WellNamed', TypeOK', NEW c \in Clusters,
           \A d \in Clusters \ {c} : Holder(d)' = Holder(d)
    PROVE  /\ Registered' = (Registered \ {Holder(x).body : x \in {y \in {c} : HasServer(y)}})
                              \cup {Holder(x)'.body : x \in {y \in {c} : HasServer(y)'}}
           /\ Blocked' = (Blocked \ {c}) \cup {x \in {c} : Holder(x)' # Absent /\ ~HasServer(x)'}
  <1>1. \A d \in Clusters \ {c} : HasServer(d)' = HasServer(d)
    BY DEF HasServer
  <1>2. \A d \in Clusters \ {c} : HasServer(d) => Holder(d).body.cluster = d
    BY ServerIsOwn
  <1>3. HasServer(c) => Holder(c).body.cluster = c
    BY ServerIsOwn
  <1>4. Blocked' = (Blocked \ {c}) \cup {x \in {c} : Holder(x)' # Absent /\ ~HasServer(x)'}
    BY <1>1 DEF Blocked
  <1>5. ASSUME NEW b
        PROVE b \in Registered' <=> b \in (Registered \ {Holder(x).body : x \in {y \in {c} : HasServer(y)}})
                                           \cup {Holder(x)'.body : x \in {y \in {c} : HasServer(y)'}}
    <2>1. b \in Registered' <=> \E d \in Clusters : HasServer(d)' /\ b = Holder(d)'.body
      BY DEF Registered
    <2>2. b \in Registered <=> \E d \in Clusters : HasServer(d) /\ b = Holder(d).body
      BY DEF Registered
    <2>3. ASSUME NEW d \in Clusters \ {c}, HasServer(d), b = Holder(d).body, HasServer(c)
          PROVE  b # Holder(c).body
      BY <1>2, <1>3, <2>3
    <2> QED
      BY <1>1, <2>1, <2>2, <2>3
  <1> QED
    BY <1>4, <1>5

LEMMA MadeServer ==
    ASSUME TypeOK, WellNamed, TypeOK', WellNamed', NEW o \in Creatable, Make(o), o.kind = "server"
    PROVE  /\ o.body.cluster \in Clusters /\ Registry!IsFree(o.body.cluster)
           /\ Registered' = Registered \cup {o.body} /\ Blocked' = Blocked
  <1> DEFINE c == o.body.cluster
  <1>1. c \in Clusters /\ NameOf(o) = UnitSetName["server"][c] /\ o # Absent
    BY AbsentAssumption DEF Creatable, Objects, UnitSetObjects, Bodies, NameOf
  <1>2. Holder(c) = Absent /\ Holder(c)' = o
    BY <1>1, ServerNames1 DEF Make, Exists, Holder, TypeOK
  <1>3. \A d \in Clusters \ {c} : Holder(d)' = Holder(d)
    BY <1>1, ServerNames1, UnitSetNameAssumption DEF Make, Holder, TypeOK
  <1>4. ~HasServer(c) /\ HasServer(c)' /\ c \notin Blocked
    BY <1>1, <1>2 DEF HasServer, Blocked
  <1>5. Registered' = Registered \cup {o.body} /\ Blocked' = Blocked
    BY <1>1, <1>2, <1>3, <1>4, HolderChanges
  <1> QED
    BY <1>1, <1>2, <1>5, NameHolder

LEMMA MadeOther ==
    ASSUME TypeOK, WellNamed, TypeOK', WellNamed', NEW o \in Creatable, Make(o), o.kind # "server"
    PROVE  /\ Registered' = Registered
           /\ \/ Blocked' = Blocked
              \/ \E c \in Clusters : Registry!IsFree(c) /\ Blocked' = Blocked \cup {c}
  <1>1. objects' = [objects EXCEPT ![NameOf(o)] = o] /\ objects[NameOf(o)] = Absent /\ o # Absent
    BY AbsentAssumption DEF Make, Exists, Creatable
  <1>2. CASE \A c \in Clusters : NameOf(o) # UnitSetName["server"][c]
    BY <1>1, <1>2, ServerNames1, HoldersSame DEF Holder, TypeOK
  <1>3. ASSUME NEW c \in Clusters, NameOf(o) = UnitSetName["server"][c]
        PROVE  Registered' = Registered /\ Registry!IsFree(c) /\ Blocked' = Blocked \cup {c}
    <2>1. Holder(c) = Absent /\ Holder(c)' = o
      BY <1>1, <1>3, ServerNames1 DEF Holder, TypeOK
    <2>2. \A d \in Clusters \ {c} : Holder(d)' = Holder(d)
      BY <1>1, <1>3, ServerNames1, UnitSetNameAssumption DEF Holder, TypeOK
    <2>3. ~HasServer(c) /\ ~HasServer(c)' /\ Holder(c)' # Absent
      BY <1>1, <2>1 DEF HasServer
    <2>4. Registered' = Registered /\ Blocked' = Blocked \cup {c}
      BY <2>2, <2>3, HolderChanges
    <2> QED
      BY <2>1, <2>4, NameHolder
  <1> QED
    BY <1>2, <1>3

LEMMA Deleted ==
    ASSUME TypeOK, WellNamed, TypeOK', WellNamed', NEW n \in UnitSets, Delete(n)
    PROVE  \/ UNCHANGED <<Registered, Blocked>>
           \/ \E b \in Registered : Registered' = Registered \ {b} /\ Blocked' = Blocked
           \/ \E c \in Blocked : Registered' = Registered /\ Blocked' = Blocked \ {c}
  <1>1. objects' = [objects EXCEPT ![n] = Absent] /\ objects[n] # Absent
    BY DEF Delete, Exists
  <1>2. CASE \A c \in Clusters : n # UnitSetName["server"][c]
    BY <1>1, <1>2, ServerNames1, HoldersSame DEF Holder, TypeOK
  <1>3. ASSUME NEW c \in Clusters, n = UnitSetName["server"][c]
        PROVE  \/ \E b \in Registered : Registered' = Registered \ {b} /\ Blocked' = Blocked
               \/ \E d \in Blocked : Registered' = Registered /\ Blocked' = Blocked \ {d}
    <2>1. Holder(c) # Absent /\ Holder(c)' = Absent
      BY <1>1, <1>3, ServerNames1 DEF Holder, TypeOK
    <2>2. \A d \in Clusters \ {c} : Holder(d)' = Holder(d)
      BY <1>1, <1>3, ServerNames1, UnitSetNameAssumption DEF Holder, TypeOK
    <2>3. ~HasServer(c)'
      BY <2>1 DEF HasServer
    <2>4. CASE HasServer(c)
      <3>1. c \notin Blocked /\ Holder(c).body \in Registered
        BY <2>4, ServerIsOwn DEF Blocked
      <3> QED
        BY <2>1, <2>2, <2>3, <2>4, <3>1, HolderChanges
    <2>5. CASE ~HasServer(c)
      <3>1. c \in Blocked
        BY <2>1, <2>5 DEF Blocked
      <3> QED
        BY <2>1, <2>2, <2>3, <2>5, <3>1, HolderChanges
    <2> QED
      BY <2>4, <2>5
  <1> QED
    BY <1>2, <1>3

(* What a handler does to its own request.                                 *)
LEMMA HandleMoves ==
    ASSUME NEW r \in Requests, Handle(r)
    PROVE  /\ pc[r] \in Active /\ UNCHANGED late
           /\ \/ \E s \in Active : GoTo(r, s)
              \/ \E code \in Answers : Answer(r, code)
  <1> USE DEF At, Active, Answers
  <1>1. AfterProject(r) \in Active
    BY DEF AfterProject
  <1>2. CASE ListUnitSets(r)
    BY <1>2 DEF ListUnitSets, kubeVars
  <1>3. CASE CheckPackage(r) \/ CheckAdminSecret(r) \/ CheckAesSecret(r) \/ WaitKeeper(r)
    BY <1>3 DEF CheckPackage, CheckAdminSecret, CheckAesSecret, WaitKeeper, Check, kubeVars
  <1>4. CASE GetNamespace(r) \/ GetProject(r)
    BY <1>1, <1>4 DEF GetNamespace, GetProject, Get, kubeVars
  <1>5. CASE CreateNamespace(r) \/ CreateProject(r) \/ CreateKeeper(r) \/ CreateServer(r)
    BY <1>1, <1>5 DEF CreateNamespace, CreateProject, CreateKeeper, CreateServer, Accept,
                      Create, NameTaken, kubeVars
  <1> QED
    BY <1>2, <1>3, <1>4, <1>5 DEF Handle

LEMMA GoesOn ==
    ASSUME TypeOK, NEW r \in Requests, pc[r] \in Active, NEW s \in Active, GoTo(r, s)
    PROVE  UNCHANGED <<Open, Told>>
  BY DEF GoTo, Open, Told, TypeOK

LEMMA IsTold ==
    ASSUME TypeOK, NEW r \in Requests, NEW code \in Answers, Answer(r, code)
    PROVE  Open' = Open \ {r} /\ Told' = [Told EXCEPT ![r] = Says(code)]
  <1>1. "answered" \notin Active
    BY DEF Active
  <1>2. Open' = Open \ {r}
    BY <1>1 DEF Answer, Open, TypeOK
  <1>3. Told' = [Told EXCEPT ![r] = Says(code)]
    BY DEF Answer, Told, TypeOK
  <1> QED
    BY <1>2, <1>3

LEMMA UntoldStep ==
    ASSUME TypeOK, OpenUntold, [Next]_vars PROVE OpenUntold'
  <1> USE DEF OpenUntold, TypeOK
  <1>1. ASSUME NEW r \in Requests, Arrive(r) PROVE OpenUntold'
    BY <1>1 DEF Arrive, GoTo
  <1>2. ASSUME NEW r \in Requests, pc[r] \in Active, NEW s \in Active, GoTo(r, s) PROVE OpenUntold'
    BY <1>2 DEF GoTo
  <1>3. ASSUME NEW r \in Requests, NEW code, Answer(r, code) PROVE OpenUntold'
    BY <1>3 DEF Answer, Active
  <1>4. ASSUME NEW r \in Requests, Handle(r) PROVE OpenUntold'
    BY <1>2, <1>3, <1>4, HandleMoves
  <1>5. ASSUME NEW r \in Requests, Fails(r) PROVE OpenUntold'
    BY <1>3, <1>5 DEF Fails
  <1>6. CASE Crash
    BY <1>6 DEF Crash, Active
  <1>7. CASE \/ Rest \/ UNCHANGED vars
             \/ \E r \in Requests : Expire(r)
             \/ \E o \in late : LateCreate(o)
             \/ \E n \in KeeperNames : UnitUp(n) \/ UnitDown(n)
             \/ \E n \in UnitSets : Delete(n)
             \/ \E s \in Secrets : Provide(s)
             \/ \E v \in Versions, t \in Topologies : Install(v, t)
    <2>1. UNCHANGED <<pc, answer>>
      BY <1>7 DEF Rest, Expire, LateCreate, UnitUp, UnitDown, Delete, Provide,
                  Install, vars, handlerVars
    <2> QED
      BY <2>1
  <1> QED
    BY <1>1, <1>4, <1>5, <1>6, <1>7 DEF Next

(* A request that ends with an error: it leaves at most its own server.    *)
Failure == Answers \ {"ACCEPTED", "CLUSTER_ALREADY_EXISTS"}
LEMMA EndsInError ==
    ASSUME TypeOK, OpenUntold, NEW r \in Requests, pc[r] \in Active,
           NEW code \in Failure, Answer(r, code), UNCHANGED objects,
           NEW Q \in SUBSET {r}, Pending' = Pending \cup {BodyOf[q] : q \in Q}
    PROVE  Registry!Next
  <1>1. Open' = Open \ {r} /\ Told' = [Told EXCEPT ![r] = Says(code)] /\ r \in Open
    BY IsTold DEF Failure, Open
  <1>2. Told[r] = "nothing" /\ Says(code) = "nothing" /\ Told = [Told EXCEPT ![r] = Told[r]]
    BY DEF OpenUntold, Told, Says, Failure
  <1>3. Told' = Told
    BY <1>1, <1>2
  <1>4. UNCHANGED <<Registered, Blocked>>
    BY HoldersSame DEF Holder
  <1>5. Registry!Abandon({r})
    BY <1>1, <1>3, <1>4 DEF Registry!Abandon
  <1>6. {r} \in SUBSET Open /\ {r} # {}
    BY <1>1
  <1> QED
    BY <1>5, <1>6 DEF Registry!Next

LEMMA OfItsBody ==
    ASSUME NEW r \in Requests
    PROVE  /\ {o.body : o \in {x \in InFlight(r) : x.kind = "server"}}
                = {BodyOf[q] : q \in {x \in {r} : pc[x] = "createServer"}}
           /\ Object("server", r) \in Creatable /\ Object("server", r).kind = "server"
           /\ Object("server", r).body = BodyOf[r]
           /\ BodyOf[r] \in Bodies /\ BodyOf[r].cluster \in Clusters
  <1>1. \A k \in CreateKinds : Object(k, r).kind = k
    BY ObjectType
  <1>2. Object("server", r).body = BodyOf[r]
    BY DEF Object
  <1>3. \A x \in InFlight(r) : x.kind = "server" <=> pc[r] = "createServer" /\ x = Object("server", r)
    BY <1>1 DEF InFlight, CreateStep, CreateKinds
  <1>4. pc[r] = "createServer" => Object("server", r) \in InFlight(r)
    BY DEF InFlight, CreateStep
  <1> QED
    BY <1>2, <1>3, <1>4, ObjectType, BodiesAssumption DEF CreateKinds, Bodies

(* A handler that reads and goes on, or creates what is not a server.      *)
LEMMA RegistryMade ==
    ASSUME TypeOK, WellNamed, TypeOK', WellNamed', UNCHANGED <<Open, Told, late>>,
           NEW o \in Creatable, Make(o), o.kind # "server"
    PROVE  Registry!Next \/ UNCHANGED Registry!registryVars
  <1>1. Pending' = Pending
    BY DEF Pending
  <1> QED
    BY <1>1, MadeOther DEF Registry!Next, Registry!Block, Registry!registryVars

LEMMA RegistrySame ==
    ASSUME UNCHANGED <<objects, Open, Told, late>>
    PROVE  UNCHANGED Registry!registryVars
  <1>1. UNCHANGED <<Registered, Blocked>>
    BY HoldersSame DEF Holder
  <1> QED
    BY <1>1 DEF Pending, Registry!registryVars

LEMMA RegistryHandle ==
    ASSUME TypeOK, WellNamed, TypeOK', WellNamed', OpenUntold, NEW r \in Requests, Handle(r)
    PROVE  Registry!Next \/ UNCHANGED Registry!registryVars
  <1> DEFINE Goal == Registry!Next \/ UNCHANGED Registry!registryVars
  <1>0. pc[r] \in Active /\ UNCHANGED late /\ r \in Open /\ Pending' = Pending
    BY HandleMoves DEF Open, Pending
  <1>1. ASSUME NEW s \in Active, GoTo(r, s), UNCHANGED objects PROVE Goal
    BY <1>0, <1>1, GoesOn, RegistrySame
  <1>2. ASSUME NEW code \in Failure, Answer(r, code), UNCHANGED objects PROVE Goal
    <2>1. Pending' = Pending \cup {BodyOf[q] : q \in {}} /\ {} \in SUBSET {r}
      BY <1>0
    <2> QED
      BY <1>0, <1>2, <2>1, EndsInError
  <1>3. ASSUME NEW s \in Active, GoTo(r, s), NEW k \in CreateKinds \ {"server"}, Make(Object(k, r))
        PROVE  Goal
    BY <1>0, <1>3, GoesOn, ObjectType, RegistryMade
  <1>4. CASE ListUnitSets(r)
    <2>1. UNCHANGED objects
      BY <1>4 DEF ListUnitSets, kubeVars
    <2>2. CASE Server(r) \in Group(BodyOf[r].cluster) /\ Answer(r, "CLUSTER_ALREADY_EXISTS")
      <3> DEFINE c == BodyOf[r].cluster
      <3>1. c \in Clusters /\ Holder(c) # Absent /\ Holder(c).body.cluster = c
        BY <2>2, OfItsBody DEF Group, Server, Holder, Exists
      <3>2. HasServer(c)
        <4>1. UnitSetName["server"][c] \in UnitSets /\ UnitSetName["server"][c] \notin DOMAIN Foreign
          BY <3>1, ServerNames1, ForeignAssumption DEF ServerNames
        <4>2. Holder(c).kind \in {"keeper", "server"} /\ NameOf(Holder(c)) = UnitSetName["server"][c]
          BY <3>1, <4>1 DEF WellNamed, Holder, Exists
        <4>3. Holder(c).kind # "keeper"
          BY <3>1, <4>2, UnitSetNameAssumption DEF NameOf
        <4> QED
          BY <3>1, <4>2, <4>3 DEF HasServer
      <3>3. Registry!IsThere(c)
        BY <3>1, <3>2, NameHolder
      <3>4. Open' = Open \ {r} /\ Told' = [Told EXCEPT ![r] = "exists"]
        BY <2>2, IsTold DEF Answers, Says
      <3>5. UNCHANGED <<Registered, Blocked>>
        BY <2>1, HoldersSame DEF Holder
      <3> QED
        BY <1>0, <3>3, <3>4, <3>5 DEF Registry!Next, Registry!Refuse, Registry!Tell, Registry!Cluster
    <2>3. CASE Answer(r, "CLUSTER_RESOURCE_CONFLICT")
      BY <1>2, <2>1, <2>3 DEF Failure, Answers
    <2>4. CASE GoTo(r, "packages")
      BY <1>1, <2>1, <2>4 DEF Active
    <2> QED
      BY <1>4, <2>2, <2>3, <2>4 DEF ListUnitSets
  <1>5. CASE CheckPackage(r) \/ CheckAdminSecret(r) \/ CheckAesSecret(r) \/ WaitKeeper(r)
    <2>1. UNCHANGED objects
      BY <1>5 DEF CheckPackage, CheckAdminSecret, CheckAesSecret, WaitKeeper, Check, kubeVars
    <2>2. (\E s \in Active : GoTo(r, s)) \/ (\E code \in Failure : Answer(r, code))
      BY <1>5 DEF CheckPackage, CheckAdminSecret, CheckAesSecret, WaitKeeper, Check,
                  Active, Failure, Answers
    <2> QED
      BY <1>1, <1>2, <2>1, <2>2
  <1>6. CASE GetNamespace(r) \/ GetProject(r)
    <2>1. UNCHANGED objects
      BY <1>6 DEF GetNamespace, GetProject, Get, kubeVars
    <2>2. \E s \in Active : GoTo(r, s)
      BY <1>6 DEF GetNamespace, GetProject, Get, AfterProject, Active
    <2> QED
      BY <1>1, <2>1, <2>2
  <1>7. CASE CreateNamespace(r) \/ CreateProject(r) \/ CreateKeeper(r)
    <2>1. \E k \in CreateKinds \ {"server"}, step \in Active :
            \/ Create(r, step, k) /\ \E s \in Active : GoTo(r, s)
            \/ /\ NameTaken(r, step, k)
               /\ (\E s \in Active : GoTo(r, s)) \/ Answer(r, "KUBERNETES_API_ERROR")
      BY <1>7 DEF CreateNamespace, CreateProject, CreateKeeper, CreateKinds, Active, AfterProject
    <2> QED
      BY <1>1, <1>2, <1>3, <2>1 DEF Create, NameTaken, kubeVars, Failure, Answers
  <1>8. CASE CreateServer(r)
    <2>1. CASE Create(r, "createServer", "server") /\ Accept(r)
      <3>1. Make(Object("server", r)) /\ Answer(r, "ACCEPTED")
        BY <2>1 DEF Create, Accept
      <3>2. Open' = Open \ {r} /\ Told' = [Told EXCEPT ![r] = "accepted"]
        BY <3>1, IsTold DEF Answers, Says
      <3>3. Registry!IsFree(BodyOf[r].cluster) /\ Registered' = Registered \cup {BodyOf[r]}
            /\ Blocked' = Blocked
        BY <3>1, OfItsBody, MadeServer
      <3> QED
        BY <1>0, <3>2, <3>3 DEF Registry!Next, Registry!Accept, Registry!Tell, Registry!Cluster
    <2>2. CASE NameTaken(r, "createServer", "server") /\ Answer(r, "KUBERNETES_API_ERROR")
      BY <1>2, <2>2 DEF NameTaken, kubeVars, Failure, Answers
    <2> QED
      BY <1>8, <2>1, <2>2 DEF CreateServer
  <1> QED
    BY <1>4, <1>5, <1>6, <1>7, <1>8 DEF Handle

LEMMA RegistryStep ==
    ASSUME TypeOK, WellNamed, OpenUntold, [Next]_vars
    PROVE  [Registry!Next]_(Registry!registryVars)
  <1> DEFINE Goal == Registry!Next \/ UNCHANGED Registry!registryVars
  <1>0. TypeOK' /\ WellNamed'
    BY TypeStep, ObjectsStep, WellNamedStep
  <1>1. ASSUME NEW r \in Requests, Arrive(r) PROVE Goal
    <2>1. /\ UNCHANGED <<objects, late, answer>> /\ Told[r] = "nothing"
          /\ r \notin Open /\ Open' = Open \cup {r}
      BY <1>1 DEF Arrive, GoTo, kubeVars, Told, Says, Open, Active, Over, TypeOK
    <2>2. UNCHANGED <<Registered, Blocked, Told, Pending>>
      BY <2>1, HoldersSame DEF Holder, Told, Pending
    <2> QED
      BY <2>1, <2>2 DEF Registry!Next, Registry!Post
  <1>2. ASSUME NEW r \in Requests, Handle(r) PROVE Goal
    BY <1>0, <1>2, RegistryHandle
  <1>3. ASSUME NEW r \in Requests, Fails(r) PROVE Goal
    <2> DEFINE Q == {x \in {r} : pc[x] = "createServer"}
    <2>1. pc[r] \in Active /\ UNCHANGED objects /\ late' = late \cup InFlight(r)
          /\ \E code \in Failure : Answer(r, code)
      BY <1>3 DEF Fails, Failure, Answers
    <2>2. Pending' = Pending \cup {BodyOf[q] : q \in Q}
      BY <2>1, OfItsBody DEF Pending
    <2>3. PICK code \in Failure : Answer(r, code)
      BY <2>1
    <2>4. Q \in SUBSET {r}
      OBVIOUS
    <2> HIDE DEF Q
    <2> QED
      BY <2>1, <2>2, <2>3, <2>4, EndsInError
  <1>4. CASE Crash
    <2> DEFINE Q == {x \in Open : pc[x] = "createServer"}
    <2>1. /\ UNCHANGED <<objects, answer>> /\ Open' = {}
          /\ late' = late \cup UNION {InFlight(r) : r \in Requests}
      BY <1>4 DEF Crash, Open, Active, TypeOK
    <2>2. UNCHANGED <<Registered, Blocked, Told>>
      BY <2>1, HoldersSame DEF Holder, Told
    <2>3. Pending' = Pending \cup {BodyOf[q] : q \in Q}
      <3>1. \A r \in Requests : pc[r] = "createServer" <=> r \in Q
        BY DEF Open, Active
      <3>2. ASSUME NEW b
            PROVE  b \in Pending' <=> b \in Pending \/ \E r \in Requests :
                     b \in {o.body : o \in {x \in InFlight(r) : x.kind = "server"}}
        BY <2>1 DEF Pending
      <3>3. ASSUME NEW b, NEW r \in Requests
            PROVE  b \in {o.body : o \in {x \in InFlight(r) : x.kind = "server"}}
                     <=> r \in Q /\ b = BodyOf[r]
        BY <3>1, OfItsBody
      <3> QED
        BY <3>2, <3>3 DEF Open
    <2>4. CASE Open = {}
      BY <2>1, <2>2, <2>3, <2>4 DEF Registry!registryVars
    <2>5. CASE Open # {}
      <3>1. Registry!Abandon(Open)
        BY <2>1, <2>2, <2>3 DEF Registry!Abandon
      <3> QED
        BY <2>5, <3>1 DEF Registry!Next
    <2> QED
      BY <2>4, <2>5
  <1>5. ASSUME NEW o \in late, LateCreate(o) PROVE Goal
    <2>1. o \in Creatable /\ late' = late \ {o} /\ UNCHANGED <<pc, answer>>
          /\ (Make(o) \/ (Exists(NameOf(o)) /\ UNCHANGED objects))
      BY <1>5 DEF LateCreate, handlerVars, TypeOK
    <2>2. UNCHANGED <<Open, Told>>
      BY <2>1 DEF Open, Told
    <2>3. CASE o.kind = "server"
      <3>1. \A x \in late : x.kind = "server" => x = [kind |-> "server", body |-> x.body]
        BY DEF TypeOK, Creatable, Objects, UnitSetObjects
      <3>2. o.body \in Pending /\ Pending' = Pending \ {o.body}
        BY <2>1, <2>3, <3>1 DEF Pending
      <3>3. CASE Make(o)
        <4>1. Registry!IsFree(o.body.cluster) /\ Registered' = Registered \cup {o.body}
              /\ Blocked' = Blocked
          BY <1>0, <2>1, <2>3, <3>3, MadeServer
        <4>2. Registry!Settle(o.body)
          BY <2>2, <3>2, <4>1 DEF Registry!Settle
        <4> QED
          BY <3>2, <4>2 DEF Registry!Next
      <3>4. CASE Exists(NameOf(o)) /\ UNCHANGED objects
        <4>1. o.body.cluster \in Clusters /\ Holder(o.body.cluster) # Absent
          BY <2>1, <2>3, <3>4 DEF Creatable, Objects, UnitSetObjects, Bodies, NameOf, Holder, Exists
        <4>2. ~Registry!IsFree(o.body.cluster)
          BY <4>1, NameHolder
        <4>3. UNCHANGED <<Registered, Blocked>>
          BY <3>4, HoldersSame DEF Holder
        <4>4. Registry!Settle(o.body)
          BY <2>2, <3>2, <4>2, <4>3 DEF Registry!Settle
        <4> QED
          BY <3>2, <4>4 DEF Registry!Next
      <3> QED
        BY <2>1, <3>3, <3>4
    <2>4. CASE o.kind # "server"
      <3>1. Pending' = Pending
        BY <2>1, <2>4 DEF Pending
      <3>2. CASE Make(o)
        BY <1>0, <2>1, <2>2, <2>4, <3>1, <3>2, MadeOther
        DEF Registry!Next, Registry!Block, Registry!registryVars
      <3>3. CASE UNCHANGED objects
        BY <2>2, <3>1, <3>3, HoldersSame DEF Holder, Registry!registryVars
      <3> QED
        BY <2>1, <3>2, <3>3
    <2> QED
      BY <2>3, <2>4
  <1>6. ASSUME NEW n \in UnitSets, Delete(n) PROVE Goal
    <2>1. UNCHANGED <<Open, Told, Pending>>
      BY <1>6 DEF Delete, handlerVars, Open, Told, Pending
    <2> QED
      BY <1>0, <1>6, <2>1, Deleted
      DEF Registry!Next, Registry!Remove, Registry!Unblock, Registry!registryVars
  <1>7. CASE \/ Rest \/ UNCHANGED vars
             \/ \E r \in Requests : Expire(r)
             \/ \E n \in KeeperNames : UnitUp(n) \/ UnitDown(n)
             \/ \E s \in Secrets : Provide(s)
             \/ \E v \in Versions, t \in Topologies : Install(v, t)
    <2>1. UNCHANGED <<pc, answer, objects, late>>
      BY <1>7 DEF Rest, Expire, UnitUp, UnitDown, Provide, Install, vars, handlerVars, kubeVars
    <2>2. UNCHANGED <<Open, Told>>
      BY <2>1 DEF Open, Told
    <2> QED
      BY <2>1, <2>2, RegistrySame
  <1> QED
    BY <1>1, <1>2, <1>3, <1>4, <1>5, <1>6, <1>7 DEF Next

LEMMA RegistryInit == Init => Registry!Init /\ WellNamed /\ OpenUntold
  <1> SUFFICES ASSUME Init PROVE Registry!Init /\ WellNamed /\ OpenUntold
    OBVIOUS
  <1>1. WellNamed
    BY KeeperInvInit DEF KeeperInv
  <1>2. \A c \in Clusters : Holder(c) = Absent
    BY ServerNames1, ForeignAssumption DEF Init, Holder, ServerNames
  <1>3. Registered = {} /\ Blocked = {}
    BY <1>2 DEF Registered, Blocked, HasServer
  <1>4. Open = {} /\ Pending = {} /\ Told = [r \in Requests |-> "nothing"] /\ OpenUntold
    BY DEF Init, Open, Active, Pending, Told, Says, OpenUntold
  <1> QED
    BY <1>1, <1>3, <1>4 DEF Registry!Init

(* Any number of clients that race, repeat and lose their answers, over    *)
(* any names, faults and deletions, see a registry of clusters.            *)
THEOREM Refinement == Spec => CreatesAreARegistry
  <1>1. TypeOK /\ WellNamed /\ OpenUntold /\ [Next]_vars => (WellNamed /\ OpenUntold)'
    BY ObjectsStep, WellNamedStep, UntoldStep
  <1>2. TypeOK /\ WellNamed /\ OpenUntold /\ [Next]_vars => [Registry!Next]_(Registry!registryVars)
    BY RegistryStep
  <1> QED
    BY <1>1, <1>2, TypeInit, TypeStep, RegistryInit, PTL
    DEF Spec, CreatesAreARegistry, Registry!Spec

-----------------------------------------------------------------------------
(* Leftovers of creates are no conflicts: whatever is or may still be made *)
(* in a cluster is made from the body of a client of that cluster.         *)

MadeFor(b) == \E q \in Requests : b = BodyOf[q]
AllMadeFor ==
    /\ \A n \in UnitSets : Exists(n) =>
         IF objects[n].kind = "other" THEN n \in DOMAIN Foreign /\ objects[n] = Foreign[n]
                                      ELSE MadeFor(objects[n].body)
    /\ \A o \in late : o.kind \in {"keeper", "server"} => MadeFor(o.body)

LEMMA MakingIsMadeFor ==
    ASSUME AllMadeFor, NEW o \in Creatable, Making(o), o.kind \in {"keeper", "server"}
    PROVE  MadeFor(o.body)
  <1>1. ASSUME NEW r \in Requests, NEW k \in CreateKinds, o = Object(k, r)
        PROVE  MadeFor(o.body)
    <2>1. k \in {"keeper", "server"}
      BY <1>1, ObjectType
    <2> QED
      BY <1>1, <2>1 DEF MadeFor, Object
  <1> QED
    BY <1>1 DEF Making, AllMadeFor

LEMMA MadeForStep ==
    ASSUME TypeOK, AllMadeFor, [Next]_vars PROVE AllMadeFor'
  <1>0. UnitSets \subseteq Names /\ ObjectsChange
    BY ObjectsStep DEF Names
  <1>1. ASSUME NEW n \in UnitSets, objects'[n] # Absent
        PROVE  IF objects'[n].kind = "other" THEN n \in DOMAIN Foreign /\ objects'[n] = Foreign[n]
                                             ELSE MadeFor(objects'[n].body)
    <2>1. CASE objects'[n] = objects[n]
      BY <1>1, <2>1 DEF AllMadeFor, Exists
    <2>2. ASSUME NEW o \in Creatable, Making(o), Make(o), n = NameOf(o)
          PROVE  objects'[n].kind # "other" /\ MadeFor(objects'[n].body)
      <3>1. objects'[n] = o
        BY <1>0, <2>2 DEF Make, TypeOK
      <3>2. o.kind \in {"keeper", "server"}
        BY <1>0, <2>2, UnitSetNameAssumption DEF Creatable, Objects, UnitSetObjects, NameOf
      <3> QED
        BY <2>2, <3>1, <3>2, MakingIsMadeFor
    <2>3. \/ objects'[n] = objects[n]
          \/ \E o \in Creatable : Making(o) /\ Make(o) /\ n = NameOf(o)
          \/ objects'[n] = Absent
      BY <1>0 DEF ObjectsChange, Make, Delete, TypeOK
    <2> QED
      BY <1>1, <2>1, <2>2, <2>3
  <1>2. ASSUME NEW o \in late', o.kind \in {"keeper", "server"} PROVE MadeFor(o.body)
    <2>1. DOMAIN CreateStep = CreateKinds
      BY DEF CreateStep, CreateKinds
    <2>2. o \in Creatable /\ Making(o)
      BY <2>1, LateStep, FlightType DEF TypeOK, InFlight, Making
    <2> QED
      BY <1>2, <2>2, MakingIsMadeFor
  <1> QED
    BY <1>1, <1>2 DEF AllMadeFor, MadeFor, Exists

(* In the group of a cluster with compatible clients there is nothing but  *)
(* its Keeper and its server, and the Keeper is as each of them wants it.  *)
LEMMA ScanFindsNoConflict ==
    ASSUME TypeOK, WellNamed, AllMadeFor, NEW r \in Requests, Compatible(r)
    PROVE  /\ Group(BodyOf[r].cluster) \subseteq {Keeper(r), Server(r)}
           /\ Keeper(r) \in Group(BodyOf[r].cluster) => KeeperMatches(r)
  <1> DEFINE c == BodyOf[r].cluster
  <1>1. ASSUME NEW n \in Group(c)
        PROVE  /\ n \in UnitSets /\ objects[n].kind \in {"keeper", "server"}
               /\ n = UnitSetName[objects[n].kind][c] /\ MadeFor(objects[n].body)
    <2>1. n \in UnitSets /\ Exists(n) /\ objects[n].body.cluster = c
      BY <1>1 DEF Group
    <2>2. objects[n].kind # "other"
      BY <2>1 DEF AllMadeFor, Compatible
    <2> QED
      BY <2>1, <2>2 DEF WellNamed, NameOf, AllMadeFor
  <1>2. UnitSetName["keeper"][c] # UnitSetName["server"][c]
    BY BodiesAssumption, UnitSetNameAssumption DEF Bodies
  <1>3. ASSUME Keeper(r) \in Group(c) PROVE KeeperMatches(r)
    <2>1. objects[Keeper(r)].kind = "keeper" /\ objects[Keeper(r)].body.cluster = c
      BY <1>1, <1>2, <1>3 DEF Keeper, Group
    <2>2. PICK q \in Requests : objects[Keeper(r)].body = BodyOf[q]
      BY <1>1, <1>3 DEF MadeFor
    <2> QED
      BY <2>1, <2>2 DEF Compatible, KeeperMatches, Expected
  <1> QED
    BY <1>1, <1>3 DEF Keeper, Server

(* Only the scan answers with a conflict.                                  *)
LEMMA ConflictIsOfTheScan ==
    ASSUME TypeOK, [Next]_vars, NEW r \in Requests,
           answer'[r] = "CLUSTER_RESOURCE_CONFLICT", answer[r] # "CLUSTER_RESOURCE_CONFLICT"
    PROVE  \/ Keeper(r) \in Group(BodyOf[r].cluster) /\ ~KeeperMatches(r)
           \/ Group(BodyOf[r].cluster) \ {Keeper(r), Server(r)} # {}
  <1> DEFINE Goal == \/ Keeper(r) \in Group(BodyOf[r].cluster) /\ ~KeeperMatches(r)
                     \/ Group(BodyOf[r].cluster) \ {Keeper(r), Server(r)} # {}
  <1>1. ASSUME NEW q \in Requests, NEW code, Answer(q, code), code # "CLUSTER_RESOURCE_CONFLICT"
        PROVE  FALSE
    BY <1>1 DEF Answer, TypeOK
  <1>2. ASSUME NEW q \in Requests, ListUnitSets(q) PROVE Goal
    <2>1. CASE q = r
      BY <1>1, <1>2, <2>1 DEF ListUnitSets, GoTo
    <2>2. CASE q # r
      BY <1>2, <2>2 DEF ListUnitSets, GoTo, Answer, TypeOK
    <2> QED
      BY <2>1, <2>2
  <1>3. ASSUME NEW q \in Requests,
               \/ CheckPackage(q) \/ CheckAdminSecret(q) \/ CheckAesSecret(q)
               \/ WaitKeeper(q) \/ GetNamespace(q) \/ GetProject(q)
        PROVE  FALSE
    BY <1>1, <1>3 DEF CheckPackage, CheckAdminSecret, CheckAesSecret, WaitKeeper, Check,
                      GetNamespace, GetProject, Get, GoTo
  <1>4. ASSUME NEW q \in Requests,
               CreateNamespace(q) \/ CreateProject(q) \/ CreateKeeper(q) \/ CreateServer(q)
        PROVE  FALSE
    BY <1>1, <1>4 DEF CreateNamespace, CreateProject, CreateKeeper, CreateServer, Accept, GoTo
  <1>5. ASSUME NEW q \in Requests, Fails(q) PROVE FALSE
    BY <1>1, <1>5 DEF Fails
  <1>6. CASE \/ Rest \/ UNCHANGED vars \/ Crash
             \/ \E q \in Requests : Arrive(q) \/ Expire(q)
             \/ \E o \in late : LateCreate(o)
             \/ \E n \in KeeperNames : UnitUp(n) \/ UnitDown(n)
             \/ \E n \in UnitSets : Delete(n)
             \/ \E s \in Secrets : Provide(s)
             \/ \E v \in Versions, t \in Topologies : Install(v, t)
    <2>1. UNCHANGED answer
      BY <1>6 DEF Rest, Crash, Arrive, GoTo, Expire, LateCreate, UnitUp, UnitDown, Delete,
                  Provide, Install, vars, handlerVars
    <2> QED
      BY <2>1
  <1> QED
    BY <1>2, <1>3, <1>4, <1>5, <1>6 DEF Next, Handle

LEMMA NoConflictStep ==
    ASSUME TypeOK, WellNamed, AllMadeFor, LeftoversNeverConflict, [Next]_vars
    PROVE  LeftoversNeverConflict'
  <1> SUFFICES ASSUME NEW r \in Requests, Compatible(r),
                      answer'[r] = "CLUSTER_RESOURCE_CONFLICT"
               PROVE  FALSE
    BY DEF LeftoversNeverConflict, Compatible, Expected
  <1> QED
    BY ConflictIsOfTheScan, ScanFindsNoConflict DEF LeftoversNeverConflict

LEMMA NoConflictInit == Init => WellNamed /\ AllMadeFor /\ LeftoversNeverConflict
  <1> SUFFICES ASSUME Init PROVE WellNamed /\ AllMadeFor /\ LeftoversNeverConflict
    OBVIOUS
  <1>1. WellNamed
    BY KeeperInvInit DEF KeeperInv
  <1>2. late = {} /\ \A r \in Requests : answer[r] = "NONE"
    BY DEF Init
  <1>3. ASSUME NEW n \in UnitSets, objects[n] # Absent
        PROVE  n \in DOMAIN Foreign /\ objects[n] = Foreign[n]
    BY <1>3 DEF Init, Names
  <1>4. \A n \in DOMAIN Foreign : Foreign[n].kind = "other"
    BY ForeignAssumption
  <1> QED
    BY <1>1, <1>2, <1>3, <1>4 DEF AllMadeFor, LeftoversNeverConflict, Exists

(* What attempts at a cluster left behind, by any number of clients with   *)
(* compatible bodies, faults, late creates and deletions, is never taken   *)
(* for a conflict: the safety half of that repeating succeeds.             *)
THEOREM LeftoversFit == Spec => []LeftoversNeverConflict
  <1>1. TypeOK /\ WellNamed /\ AllMadeFor /\ LeftoversNeverConflict /\ [Next]_vars
          => (WellNamed /\ AllMadeFor /\ LeftoversNeverConflict)'
    BY ObjectsStep, WellNamedStep, MadeForStep, NoConflictStep
  <1> QED
    BY <1>1, TypeInit, TypeStep, NoConflictInit, PTL DEF Spec

=============================================================================
