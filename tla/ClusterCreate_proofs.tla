------------------------ MODULE ClusterCreate_proofs ------------------------
(***************************************************************************)
(* Proofs about ClusterCreate, for any number of clients, clusters,        *)
(* versions, topologies, faults and deletions, and any way in which names  *)
(* of UnitSets of different clusters coincide.                             *)
(***************************************************************************)
EXTENDS ClusterCreate, TLAPS

CreateKinds == {"namespace", "project", "keeper", "server"}

(* A create makes an object of its type, under a name of the namespace.    *)
LEMMA ObjectType ==
    ASSUME NEW r \in Requests, NEW k \in CreateKinds
    PROVE  Object(k, r) \in Creatable /\ Object(k, r).kind = k
  <1>1. BodyOf[r] \in Bodies
    BY BodiesAssumption
  <1>2. CASE k \in {"namespace", "project"}
    BY <1>2 DEF Object, Creatable, Objects
  <1>3. CASE k \in {"keeper", "server"}
    BY <1>1, <1>3 DEF Object, Creatable, Objects, UnitSetObjects
  <1> QED
    BY <1>2, <1>3 DEF CreateKinds

LEMMA NameType ==
    ASSUME NEW o \in Creatable
    PROVE  /\ NameOf(o) \in Names
           /\ o \in Objects
           /\ NameOf(o) \in UnitSets => o \in UnitSetObjects
  <1>1. CASE o.kind \in {"namespace", "project"}
    BY <1>1, UnitSetNameAssumption DEF NameOf, Names, Creatable
  <1>2. CASE o.kind \notin {"namespace", "project"}
    <2>1. o \in UnitSetObjects /\ o.kind \in {"keeper", "server"}
      BY <1>2 DEF Creatable, Objects, UnitSetObjects
    <2>2. o.body.cluster \in Clusters
      BY <2>1 DEF UnitSetObjects, Bodies
    <2>3. NameOf(o) \in UnitSets
      BY <1>2, <2>1, <2>2 DEF NameOf, UnitSets, KeeperNames, ServerNames
    <2> QED
      BY <2>1, <2>3 DEF Names, Creatable
  <1> QED
    BY <1>1, <1>2

LEMMA FlightType ==
    ASSUME NEW r \in Requests
    PROVE  InFlight(r) \subseteq Creatable
  <1>1. DOMAIN CreateStep = CreateKinds
    BY DEF CreateStep, CreateKinds
  <1> QED
    BY <1>1, ObjectType DEF InFlight

(* A create leaves every object that is there as it is.                    *)
ObjectsOK ==
    /\ objects \in [Names -> Objects \cup {Absent}]
    /\ \A n \in UnitSets : objects[n] \in UnitSetObjects \cup {Absent}

Keeps == \A n \in Names : Exists(n) => objects'[n] = objects[n]

LEMMA MakeEffect ==
    ASSUME ObjectsOK, NEW o \in Creatable, Make(o)
    PROVE  /\ ObjectsOK'
           /\ Keeps
           /\ objects'[NameOf(o)] = o
           /\ ~Exists(NameOf(o))
  <1>1. NameOf(o) \in Names /\ o \in Objects /\ NameOf(o) \in UnitSets => o \in UnitSetObjects
    BY NameType
  <1>2. UnitSets \subseteq Names
    BY DEF Names
  <1>3. objects' = [objects EXCEPT ![NameOf(o)] = o] /\ ~Exists(NameOf(o))
    BY DEF Make
  <1> QED
    BY <1>1, <1>2, <1>3, NameType DEF ObjectsOK, Keeps, Exists

(* Init has the types of TypeOK.                                           *)
LEMMA TypeInit == Init => TypeOK
  <1> SUFFICES ASSUME Init PROVE TypeOK
    OBVIOUS
  <1>1. ObjectsOK
    BY ForeignAssumption, UnitSetNameAssumption
    DEF Init, ObjectsOK, Names, UnitSets, Objects, UnitSetObjects
  <1> QED
    BY <1>1, PackageAssumption DEF Init, TypeOK, ObjectsOK, Answers, Secrets, Over, Active

LEMMA TypeStep == TypeOK /\ [Next]_vars => TypeOK'
  <1> SUFFICES ASSUME TypeOK, [Next]_vars PROVE TypeOK'
    OBVIOUS
  <1> USE DEF TypeOK
  <1>1. ASSUME NEW r \in Requests, Arrive(r) PROVE TypeOK'
    BY <1>1 DEF Arrive, GoTo, Active, kubeVars, boundVars, historyVars
  <1>2. ASSUME NEW r \in Requests, ListUnitSets(r) PROVE TypeOK'
    <2>1. /\ pc' \in [Requests -> {"idle"} \cup Active \cup Over]
          /\ answer' \in [Requests -> Answers]
      BY <1>2 DEF ListUnitSets, GoTo, Answer, Active, Over, Answers
    <2>2. (Keeper(r) \in Group(BodyOf[r].cluster)) \in BOOLEAN
      OBVIOUS
    <2>3. PICK b \in BOOLEAN :
             \/ UNCHANGED keeperExists
             \/ keeperExists' = [keeperExists EXCEPT ![r] = b]
      BY <1>2, <2>2, Zenon DEF ListUnitSets
    <2>4. UNCHANGED <<ctxDone, kubeVars, boundVars, historyVars>>
      BY <1>2 DEF ListUnitSets
    <2> QED
      BY <2>1, <2>3, <2>4 DEF kubeVars, boundVars, historyVars
  <1>3. ASSUME NEW r \in Requests,
               CheckPackage(r) \/ CheckAdminSecret(r) \/ CheckAesSecret(r)
                 \/ GetNamespace(r) \/ GetProject(r) \/ WaitKeeper(r)
        PROVE TypeOK'
    <2>1. /\ pc' \in [Requests -> {"idle"} \cup Active \cup Over]
          /\ answer' \in [Requests -> Answers]
      BY <1>3 DEF CheckPackage, CheckAdminSecret, CheckAesSecret, GetNamespace,
                  GetProject, WaitKeeper, Check, Get, AfterProject, GoTo, Answer,
                  Active, Over, Answers
    <2>2. UNCHANGED <<ctxDone, keeperExists, kubeVars, boundVars, historyVars>>
      BY <1>3 DEF CheckPackage, CheckAdminSecret, CheckAesSecret, GetNamespace,
                  GetProject, WaitKeeper, Check, Get
    <2> QED
      BY <2>1, <2>2 DEF kubeVars, boundVars, historyVars
  <1>4. ASSUME NEW r \in Requests, NEW k \in CreateKinds, NEW step \in Active,
               Create(r, step, k) \/ NameTaken(r, step, k)
        PROVE  /\ ObjectsOK'
               /\ UNCHANGED <<ctxDone, keeperExists, readyUnits, secrets, package,
                              late, boundVars, removed, wasReady>>
    BY <1>4, ObjectType, MakeEffect
    DEF Create, NameTaken, ObjectsOK, kubeVars
  <1>5. ASSUME NEW r \in Requests,
               CreateNamespace(r) \/ CreateProject(r) \/ CreateKeeper(r)
                 \/ CreateServer(r)
        PROVE TypeOK'
    <2>1. /\ pc' \in [Requests -> {"idle"} \cup Active \cup Over]
          /\ answer' \in [Requests -> Answers]
      <3>1. AfterProject(r) \in Active
        BY DEF AfterProject, Active
      <3> QED
        BY <1>5, <3>1
        DEF CreateNamespace, CreateProject, CreateKeeper, CreateServer, Accept,
            GoTo, Answer, Active, Over, Answers
    <2>4. accepted' \in [Clusters -> Nat]
      <3>1. BodyOf[r].cluster \in Clusters
        BY BodiesAssumption DEF Bodies
      <3>2. \/ UNCHANGED accepted
            \/ accepted' = [accepted EXCEPT ![BodyOf[r].cluster] = @ + 1]
        BY <1>5 DEF CreateNamespace, CreateProject, CreateKeeper, CreateServer, Accept
      <3> QED
        BY <3>1, <3>2
    <2>2. PICK k \in CreateKinds, step \in Active :
             Create(r, step, k) \/ NameTaken(r, step, k)
      BY <1>5 DEF CreateNamespace, CreateProject, CreateKeeper, CreateServer,
                  CreateKinds, Active
    <2>3. /\ ObjectsOK'
          /\ UNCHANGED <<ctxDone, keeperExists, readyUnits, secrets, package,
                         late, boundVars, removed, wasReady>>
      BY <1>4, <2>2
    <2> QED
      BY <2>1, <2>3, <2>4 DEF ObjectsOK, boundVars
  <1>6. ASSUME NEW r \in Requests, Fails(r) PROVE TypeOK'
    BY <1>6, FlightType DEF Fails, Answer, Active, Over, Answers, historyVars
  <1>7. ASSUME NEW r \in Requests, Expire(r) PROVE TypeOK'
    BY <1>7 DEF Expire, kubeVars, historyVars
  <1>8. CASE Crash
    BY <1>8, FlightType DEF Crash, Over, historyVars
  <1>9. ASSUME NEW o \in late, LateCreate(o) PROVE TypeOK'
    <2>1. o \in Creatable /\ late' \subseteq Creatable
      BY <1>9 DEF LateCreate
    <2>2. ObjectsOK'
      BY <1>9, <2>1, MakeEffect DEF LateCreate, ObjectsOK
    <2> QED
      BY <1>9, <2>1, <2>2 DEF LateCreate, ObjectsOK, handlerVars, boundVars, historyVars
  <1>10. ASSUME NEW n \in KeeperNames, UnitUp(n) PROVE TypeOK'
    BY <1>10 DEF UnitUp, handlerVars, boundVars
  <1>11. ASSUME NEW n \in KeeperNames, UnitDown(n) PROVE TypeOK'
    BY <1>11 DEF UnitDown, handlerVars, historyVars
  <1>12. ASSUME NEW n \in UnitSets, Delete(n) PROVE TypeOK'
    BY <1>12 DEF Delete, handlerVars, Names
  <1>13. ASSUME NEW s \in Secrets, Provide(s) PROVE TypeOK'
    BY <1>13 DEF Provide, handlerVars, boundVars, historyVars
  <1>14. ASSUME NEW v \in Versions, NEW t \in Topologies, Install(v, t) PROVE TypeOK'
    BY <1>14 DEF Install, Packages, handlerVars, historyVars
  <1>15. CASE Rest \/ UNCHANGED vars
    BY <1>15 DEF Rest, vars, handlerVars, kubeVars, boundVars, historyVars
  <1> QED
    BY <1>1, <1>2, <1>3, <1>5, <1>6, <1>7, <1>8, <1>9, <1>10, <1>11, <1>12,
       <1>13, <1>14, <1>15 DEF Next, Handle

(* Every state has the types of TypeOK.                                    *)
THEOREM TypeCorrect == Spec => []TypeOK
  <1> QED
    BY TypeInit, TypeStep, PTL DEF Spec

(* Objects are never updated: an object that is there stays as it is until *)
(* it is deleted, and deletions are counted.                               *)
NeverUpdated ==
    \A n \in UnitSets :
        \/ /\ removed'[n] = removed[n]
           /\ Exists(n) => objects'[n] = objects[n]
        \/ removed'[n] = removed[n] + 1

(* The step accepts r: it creates the server UnitSet of r.                 *)
Accepts(r) ==
    /\ accepted' = [accepted EXCEPT ![BodyOf[r].cluster] = @ + 1]
    /\ answer' = [answer EXCEPT ![r] = "ACCEPTED"]
    /\ Make(Object("server", r))
    /\ UNCHANGED removed

(* The step accepts nobody.                                                *)
AcceptsNone ==
    /\ UNCHANGED accepted
    /\ \A r \in Requests : answer'[r] = "ACCEPTED" => answer[r] = "ACCEPTED"
    /\ NeverUpdated

LEMMA ServerNameIs ==
    ASSUME NEW r \in Requests
    PROVE  /\ NameOf(Object("server", r)) = Server(r)
           /\ Server(r) \in UnitSets
           /\ BodyOf[r].cluster \in Clusters
  <1>1. BodyOf[r].cluster \in Clusters
    BY BodiesAssumption DEF Bodies
  <1> QED
    BY <1>1 DEF NameOf, Object, Server, UnitSets, ServerNames

(* Every step accepts one client or none.                                  *)
LEMMA AcceptStep ==
    TypeOK /\ [Next]_vars => AcceptsNone \/ \E r \in Requests : Accepts(r)
  <1> SUFFICES ASSUME TypeOK, [Next]_vars
               PROVE  AcceptsNone \/ \E r \in Requests : Accepts(r)
    OBVIOUS
  <1>0. ASSUME UNCHANGED <<accepted, removed, answer>>, UNCHANGED objects
        PROVE  AcceptsNone
    BY <1>0 DEF AcceptsNone, NeverUpdated
  <1>1. ASSUME NEW o \in Creatable, Make(o), UNCHANGED removed
        PROVE  NeverUpdated
    BY <1>1, MakeEffect DEF TypeOK, ObjectsOK, Keeps, NeverUpdated, Names
  <1>2. ASSUME NEW r \in Requests,
               NEW code \in Answers \ {"ACCEPTED"}, Answer(r, code),
               UNCHANGED <<accepted, removed>>, UNCHANGED objects
        PROVE  AcceptsNone
    BY <1>2 DEF TypeOK, Answer, AcceptsNone, NeverUpdated
  <1>3. ASSUME NEW r \in Requests, Arrive(r) PROVE AcceptsNone
    BY <1>0, <1>3 DEF Arrive, GoTo, kubeVars, historyVars
  <1>4. ASSUME NEW r \in Requests, ListUnitSets(r) PROVE AcceptsNone
    <2>1. UNCHANGED <<accepted, removed>> /\ UNCHANGED objects
      BY <1>4 DEF ListUnitSets, kubeVars, historyVars
    <2>2. \/ UNCHANGED answer
          \/ \E code \in {"CLUSTER_ALREADY_EXISTS", "CLUSTER_RESOURCE_CONFLICT"} :
                Answer(r, code)
      BY <1>4 DEF ListUnitSets, GoTo
    <2> QED
      BY <1>0, <1>2, <2>1, <2>2 DEF Answers
  <1>5. ASSUME NEW r \in Requests,
               CheckPackage(r) \/ CheckAdminSecret(r) \/ CheckAesSecret(r)
                 \/ GetNamespace(r) \/ GetProject(r) \/ WaitKeeper(r)
        PROVE  AcceptsNone
    <2>1. UNCHANGED <<accepted, removed>> /\ UNCHANGED objects
      BY <1>5 DEF CheckPackage, CheckAdminSecret, CheckAesSecret, GetNamespace,
                  GetProject, WaitKeeper, Check, Get, kubeVars, historyVars
    <2>2. \/ UNCHANGED answer
          \/ \E code \in {"PACKAGE_REJECTED", "SECRET_REJECTED",
                          "KUBERNETES_API_ERROR"} : Answer(r, code)
      BY <1>5 DEF CheckPackage, CheckAdminSecret, CheckAesSecret, GetNamespace,
                  GetProject, WaitKeeper, Check, Get, GoTo
    <2> QED
      BY <1>0, <1>2, <2>1, <2>2 DEF Answers
  <1>6. ASSUME NEW r \in Requests, NEW k \in CreateKinds, NEW step \in Active,
               Create(r, step, k), UNCHANGED <<accepted, answer>>
        PROVE  AcceptsNone
    BY <1>1, <1>6, ObjectType DEF Create, AcceptsNone
  <1>7. ASSUME NEW r \in Requests, NEW k \in CreateKinds, NEW step \in Active,
               NameTaken(r, step, k), UNCHANGED accepted,
               UNCHANGED answer \/ Answer(r, "KUBERNETES_API_ERROR")
        PROVE  AcceptsNone
    BY <1>0, <1>2, <1>7 DEF NameTaken, kubeVars, Answers
  <1>8. ASSUME NEW r \in Requests,
               CreateNamespace(r) \/ CreateProject(r) \/ CreateKeeper(r)
        PROVE  AcceptsNone
    <2>1. UNCHANGED accepted
      BY <1>8 DEF CreateNamespace, CreateProject, CreateKeeper
    <2>2. PICK k \in CreateKinds, step \in Active :
             \/ Create(r, step, k) /\ UNCHANGED answer
             \/ /\ NameTaken(r, step, k)
                /\ UNCHANGED answer \/ Answer(r, "KUBERNETES_API_ERROR")
      BY <1>8 DEF CreateNamespace, CreateProject, CreateKeeper, GoTo,
                  CreateKinds, Active
    <2> QED
      BY <1>6, <1>7, <2>1, <2>2
  <1>9. ASSUME NEW r \in Requests, CreateServer(r) PROVE AcceptsNone \/ Accepts(r)
    <2>1. CASE Create(r, "createServer", "server") /\ Accept(r)
      BY <2>1 DEF Create, Accept, Answer, Accepts
    <2>2. CASE /\ NameTaken(r, "createServer", "server")
               /\ Answer(r, "KUBERNETES_API_ERROR")
               /\ UNCHANGED accepted
      BY <1>7, <2>2 DEF CreateKinds, Active
    <2> QED
      BY <1>9, <2>1, <2>2 DEF CreateServer
  <1>10. ASSUME NEW r \in Requests, Fails(r) PROVE AcceptsNone
    BY <1>2, <1>10 DEF Fails, historyVars, Answers
  <1>11. ASSUME NEW r \in Requests, Expire(r) PROVE AcceptsNone
    BY <1>0, <1>11 DEF Expire, kubeVars, historyVars
  <1>12. ASSUME NEW o \in late, LateCreate(o) PROVE AcceptsNone
    <2>1. o \in Creatable /\ UNCHANGED <<accepted, answer, removed>>
      BY <1>12 DEF LateCreate, TypeOK, handlerVars, historyVars
    <2> QED
      BY <1>0, <1>1, <1>12, <2>1 DEF LateCreate, AcceptsNone
  <1>13. ASSUME NEW n \in UnitSets, Delete(n) PROVE AcceptsNone
    BY <1>13 DEF Delete, TypeOK, AcceptsNone, NeverUpdated, handlerVars, Names
  <1>14. CASE \/ Crash \/ Rest \/ UNCHANGED vars
              \/ \E n \in KeeperNames : UnitUp(n) \/ UnitDown(n)
              \/ \E s \in Secrets : Provide(s)
              \/ \E v \in Versions, t \in Topologies : Install(v, t)
    BY <1>0, <1>14 DEF Crash, Rest, UnitUp, UnitDown, Provide, Install, vars,
                       handlerVars, kubeVars, historyVars
  <1> QED
    BY <1>3, <1>4, <1>5, <1>8, <1>9, <1>10, <1>11, <1>12, <1>13, <1>14
    DEF Next, Handle

LEMMA AcceptedInit == Init => OneAccepted /\ AcceptedIsBuilt
  <1> SUFFICES ASSUME Init PROVE OneAccepted /\ AcceptedIsBuilt
    OBVIOUS
  <1>1. OneAccepted
    BY DEF Init, OneAccepted, UnitSets, ServerNames
  <1>2. AcceptedIsBuilt
    BY DEF Init, AcceptedIsBuilt
  <1> QED
    BY <1>1, <1>2

(* A server UnitSet counts for one acceptance: the create that accepts     *)
(* needs its name to be free, and it is free again only by a deletion.     *)
LEMMA OneAcceptedStep ==
    TypeOK /\ OneAccepted /\ [Next]_vars => OneAccepted'
  <1> SUFFICES ASSUME TypeOK, OneAccepted, [Next]_vars,
                      NEW c \in Clusters
               PROVE  LET server == UnitSetName["server"][c]
                      IN  \/ accepted'[c] <= removed'[server]
                          \/ /\ accepted'[c] = removed'[server] + 1
                             /\ Exists(server)' /\ objects'[server].kind = "server"
    BY DEF OneAccepted, Exists
  <1> DEFINE server == UnitSetName["server"][c]
  <1>1. server \in UnitSets /\ accepted[c] \in Nat /\ removed[server] \in Nat
    BY DEF UnitSets, ServerNames, TypeOK
  <1>2. \/ accepted[c] <= removed[server]
        \/ /\ accepted[c] = removed[server] + 1
           /\ Exists(server) /\ objects[server].kind = "server"
    BY DEF OneAccepted
  <1>3. CASE AcceptsNone
    BY <1>1, <1>2, <1>3 DEF AcceptsNone, NeverUpdated, Exists
  <1>4. ASSUME NEW r \in Requests, Accepts(r), BodyOf[r].cluster = c
        PROVE  /\ accepted'[c] = accepted[c] + 1
               /\ ~Exists(server) /\ UNCHANGED removed
               /\ objects'[server] = Object("server", r)
    <2>1. Server(r) = server /\ NameOf(Object("server", r)) = server
      BY <1>4, ServerNameIs DEF Server
    <2> QED
      BY <1>4, <2>1, ObjectType, MakeEffect
      DEF Accepts, TypeOK, ObjectsOK, CreateKinds
  <1>5. ASSUME NEW r \in Requests, Accepts(r), BodyOf[r].cluster # c
        PROVE  /\ accepted'[c] = accepted[c] /\ UNCHANGED removed
               /\ Exists(server) => objects'[server] = objects[server]
    BY <1>1, <1>5, ObjectType, ServerNameIs, MakeEffect
    DEF Accepts, TypeOK, ObjectsOK, CreateKinds, Keeps, Names
  <1>6. ASSUME NEW r \in Requests
        PROVE  Object("server", r) # Absent /\ Object("server", r).kind = "server"
    BY ObjectType, AbsentAssumption DEF Creatable, CreateKinds
  <1> QED
    BY <1>1, <1>2, <1>3, <1>4, <1>5, <1>6, AcceptStep DEF Exists

(* The object a client was accepted for is not replaced.                   *)
LEMMA AcceptedIsBuiltStep ==
    TypeOK /\ AcceptedIsBuilt /\ [Next]_vars => AcceptedIsBuilt'
  <1> SUFFICES ASSUME TypeOK, AcceptedIsBuilt, [Next]_vars,
                      NEW q \in Requests,
                      answer'[q] = "ACCEPTED", removed'[Server(q)] = 0
               PROVE  objects'[Server(q)] = Object("server", q)
    BY DEF AcceptedIsBuilt, Server, Object
  <1>1. Server(q) \in UnitSets /\ removed[Server(q)] \in Nat
    BY ServerNameIs DEF TypeOK
  <1>2. Object("server", q) # Absent
    BY ObjectType, AbsentAssumption DEF Creatable, CreateKinds
  <1>3. CASE AcceptsNone
    BY <1>1, <1>2, <1>3 DEF AcceptsNone, NeverUpdated, AcceptedIsBuilt, Exists
  <1>4. ASSUME NEW r \in Requests, Accepts(r)
        PROVE  objects'[Server(q)] = Object("server", q)
    <2>1. /\ Keeps /\ objects'[Server(r)] = Object("server", r)
      BY <1>4, ObjectType, ServerNameIs, MakeEffect
      DEF Accepts, TypeOK, ObjectsOK, CreateKinds
    <2>2. q = r \/ answer[q] = "ACCEPTED"
      BY <1>4 DEF Accepts, TypeOK
    <2> QED
      BY <1>1, <1>2, <1>4, <2>1, <2>2
      DEF Accepts, AcceptedIsBuilt, Keeps, Exists, Names
  <1> QED
    BY <1>3, <1>4, AcceptStep

(* However many clients race, repeat and lose their answers, a cluster is  *)
(* accepted once for every life of its server UnitSet.                     *)
THEOREM AcceptedOnce == Spec => []OneAccepted
  <1> QED
    BY TypeInit, TypeStep, AcceptedInit, OneAcceptedStep, PTL DEF Spec

(* The cluster a client was told is accepted is the one it asked for.      *)
THEOREM AcceptedAsAsked == Spec => []AcceptedIsBuilt
  <1> QED
    BY TypeInit, TypeStep, AcceptedInit, AcceptedIsBuiltStep, PTL DEF Spec

=============================================================================
