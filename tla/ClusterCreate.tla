---------------------------- MODULE ClusterCreate ----------------------------
(***************************************************************************)
(* POST /clusters of upm-api-server: createCluster of                      *)
(* internal/api/server.go and Store.CreateCluster of internal/kube/store.go*)
(* against one Kubernetes namespace.                                       *)
(*                                                                         *)
(* CreateCluster keeps nothing in memory, takes no lock and undoes nothing:*)
(* it is a sequence of Kubernetes calls, each one step here, between which *)
(* other requests, the UPMIO operator, administrators and the deadline do  *)
(* theirs. A create whose caller was given up on may still be carried out  *)
(* later, so it is left in "late". Clients repeat a request that failed.   *)
(***************************************************************************)
EXTENDS Naturals

CONSTANTS
    Requests,      \* clients, each with one body it posts until it succeeds
    Clusters,      \* cluster names in the namespace
    Versions,      \* package versions
    Topologies,    \* shards, replicas per shard and Keeper replicas
    Options,       \* what else a body holds: storage, admin Secret, monitoring
    KeeperOptions, \* of these, what a Keeper UnitSet is made from: storage
                   \* class, Keeper size and admin Secret, not the server size
    Units,         \* the units of a "keeper", a "server" of a topology
    BodyOf,        \* the body of a request
    UnitSetName,   \* the name of the "keeper", the "server" of a cluster
    Foreign,       \* UnitSets of other names with the label of a cluster
    Absent,        \* no object of that name
    NoPackage,     \* no package of that version
    InitialPackage,\* the packages installed at first
    MaxFaults,     \* bound: failed calls, deadlines, restarts, lost readiness
    MaxInstalls,   \* bound: package installations
    MaxDeletes     \* bound: UnitSets deleted by an administrator

Bodies == [cluster : Clusters, version : Versions,
           topology : Topologies, options : Options]
UnitSetObjects == [kind : {"keeper", "server", "other"}, body : Bodies]
Objects == [kind : {"namespace", "project"}] \cup UnitSetObjects
Creatable == {o \in Objects : o.kind # "other"}
KeeperNames == {UnitSetName["keeper"][c] : c \in Clusters}
ServerNames == {UnitSetName["server"][c] : c \in Clusters}
UnitSets == KeeperNames \cup ServerNames \cup DOMAIN Foreign
Names == UnitSets \cup {"namespace", "project"}
Secrets == {"admin", "aes"}
Packages == Topologies \cup {NoPackage}

ASSUME BodiesAssumption == BodyOf \in [Requests -> Bodies]
ASSUME OptionsAssumption == DOMAIN KeeperOptions = Options
ASSUME AbsentAssumption == Absent \notin Objects
ASSUME UnitSetNameAssumption ==
    \* <name> and <name>-keeper: never equal in one cluster, each a one-to-one
    \* function of the cluster, and neither names a Namespace or a Project.
    /\ {"namespace", "project"} \cap UnitSets = {}
    /\ \A c, d \in Clusters, k \in {"keeper", "server"} :
          /\ UnitSetName[k][c] = UnitSetName[k][d] => c = d
          /\ UnitSetName["keeper"][c] # UnitSetName["server"][c]
ASSUME UnitsAssumption ==
    \A k \in {"keeper", "server"}, t \in Topologies : Units[k][t] \in Nat \ {0}
ASSUME ForeignAssumption ==
    /\ \A n \in DOMAIN Foreign : Foreign[n] \in UnitSetObjects /\ Foreign[n].kind = "other"
    /\ DOMAIN Foreign \cap (KeeperNames \cup ServerNames) = {}
ASSUME PackageAssumption == InitialPackage \in [Versions -> Packages]
ASSUME BoundsAssumption ==
    MaxFaults \in Nat /\ MaxInstalls \in Nat /\ MaxDeletes \in Nat

VARIABLES
    pc,           \* where the handler of a request is
    ctxDone,      \* the request context is done
    keeperExists, \* the local of that name: the scan found the Keeper UnitSet
    answer,       \* the answer to the last request of a client
    objects,      \* the object of a name in Kubernetes
    readyUnits,   \* status.readyUnits of a Keeper UnitSet
    secrets,      \* the Secrets that exist with the key that is asked for
    package,      \* the topology of the package of a version
    late,         \* creates that lost their caller and may still happen
    faults, installs, deletes, \* what the bounds count
    \* History, read by the properties only:
    accepted,     \* 202 answers for a cluster
    removed,      \* deletions of a UnitSet
    wasReady      \* the Keeper UnitSets that had all units ready at some time

handlerVars == <<pc, ctxDone, keeperExists, answer>>
kubeVars == <<objects, readyUnits, secrets, package, late>>
boundVars == <<faults, installs, deletes>>
historyVars == <<accepted, removed, wasReady>>
vars == <<handlerVars, kubeVars, boundVars, historyVars>>

Active == {"list", "packages", "getNamespace", "createNamespace",
           "adminSecret", "aesSecret", "getProject", "createProject",
           "createKeeper", "waitKeeper", "createServer"}
Over == {"answered", "lost"}
Answers == {"NONE", "ACCEPTED", "CLUSTER_ALREADY_EXISTS",
            "CLUSTER_RESOURCE_CONFLICT", "PACKAGE_REJECTED", "SECRET_REJECTED",
            "UPMIO_UNITSET_NOT_READY", "KUBERNETES_API_ERROR"}

(* The object a request makes at a create step, and the name it takes.     *)
Object(kind, r) ==
    IF kind \in {"namespace", "project"} THEN [kind |-> kind]
    ELSE [kind |-> kind, body |-> BodyOf[r]]
NameOf(o) == IF o.kind \in {"namespace", "project"} THEN o.kind
             ELSE UnitSetName[o.kind][o.body.cluster]
Exists(n) == objects[n] # Absent
Keeper(r) == UnitSetName["keeper"][BodyOf[r].cluster]
Server(r) == UnitSetName["server"][BodyOf[r].cluster]
Expected(r) == Units["keeper"][BodyOf[r].topology]

TypeOK ==
    /\ pc \in [Requests -> {"idle"} \cup Active \cup Over]
    /\ ctxDone \in [Requests -> BOOLEAN]
    /\ keeperExists \in [Requests -> BOOLEAN]
    /\ answer \in [Requests -> Answers]
    /\ objects \in [Names -> Objects \cup {Absent}]
    /\ \A n \in UnitSets : objects[n] \in UnitSetObjects \cup {Absent}
    /\ readyUnits \in [KeeperNames -> Nat]
    /\ secrets \subseteq Secrets
    /\ package \in [Versions -> Packages]
    /\ late \subseteq Creatable
    /\ faults \in Nat /\ installs \in Nat /\ deletes \in Nat
    /\ accepted \in [Clusters -> Nat]
    /\ removed \in [UnitSets -> Nat]
    /\ wasReady \subseteq KeeperNames

Init ==
    /\ pc = [r \in Requests |-> "idle"]
    /\ ctxDone = [r \in Requests |-> FALSE]
    /\ keeperExists = [r \in Requests |-> FALSE]
    /\ answer = [r \in Requests |-> "NONE"]
    /\ objects \in {[n \in Names |-> Absent],
                    [n \in Names |-> IF n \in DOMAIN Foreign
                                     THEN Foreign[n] ELSE Absent]}
    /\ readyUnits = [n \in KeeperNames |-> 0]
    /\ secrets \in {{}, Secrets}
    /\ package = InitialPackage
    /\ late = {}
    /\ faults = 0 /\ installs = 0 /\ deletes = 0
    /\ accepted = [c \in Clusters |-> 0]
    /\ removed = [n \in UnitSets |-> 0]
    /\ wasReady = {}

-----------------------------------------------------------------------------
(* The handler. Every call with a context that is done fails, see Fails.   *)

GoTo(r, step) == pc' = [pc EXCEPT ![r] = step] /\ UNCHANGED answer

Answer(r, code) ==
    /\ pc' = [pc EXCEPT ![r] = "answered"]
    /\ answer' = [answer EXCEPT ![r] = code]

At(r, step) == pc[r] = step /\ ~ctxDone[r]

(* A client posts its body, again when the answer was not that the cluster *)
(* is there. What it posts has passed decoding and Validate.               *)
Arrive(r) ==
    /\ pc[r] \in {"idle"} \cup Over
    /\ answer[r] \notin {"ACCEPTED", "CLUSTER_ALREADY_EXISTS"}
    /\ GoTo(r, "list")
    /\ ctxDone' = [ctxDone EXCEPT ![r] = FALSE]
    /\ keeperExists' = [keeperExists EXCEPT ![r] = FALSE]
    /\ UNCHANGED <<kubeVars, boundVars, historyVars>>

Group(c) == {n \in UnitSets : Exists(n) /\ objects[n].body.cluster = c}

\* Mutants of KeeperMatches: the scan takes every Keeper for a conflict; it
\* compares all of the bodies, the wishes for the server included.
KeeperMatches_Never(r) == FALSE
KeeperMatches_Exactly(r) == objects[Keeper(r)].body = BodyOf[r]

(* The fields of an existing Keeper UnitSet that the scan compares.        *)
KeeperMatches(r) ==
    LET found == objects[Keeper(r)].body
    IN  /\ found.version = BodyOf[r].version
        /\ Units["keeper"][found.topology] = Expected(r)

\* Mutant of ListUnitSets: any UnitSet of the group means that the cluster exists.
ListUnitSets_AnyMember(r) ==
    LET found == Group(BodyOf[r].cluster)
    IN  /\ At(r, "list")
        /\ \/ found # {} /\ Answer(r, "CLUSTER_ALREADY_EXISTS") /\ UNCHANGED keeperExists
           \/ /\ found = {}
              /\ keeperExists' = [keeperExists EXCEPT ![r] = FALSE]
              /\ GoTo(r, "packages")
        /\ UNCHANGED <<ctxDone, kubeVars, boundVars, historyVars>>

(* The scan of the UnitSets labelled with the service group. The first one *)
(* in the list with an error decides; the order is not modelled.           *)
ListUnitSets(r) ==
    LET found == Group(BodyOf[r].cluster)
        mismatch == Keeper(r) \in found /\ ~KeeperMatches(r)
        others == found \ {Keeper(r), Server(r)}
    IN  /\ At(r, "list")
        /\ \/ /\ Server(r) \in found
              /\ Answer(r, "CLUSTER_ALREADY_EXISTS")
              /\ UNCHANGED keeperExists
           \/ /\ mismatch \/ others # {}
              /\ Answer(r, "CLUSTER_RESOURCE_CONFLICT")
              /\ UNCHANGED keeperExists
           \/ /\ Server(r) \notin found /\ ~mismatch /\ others = {}
              /\ keeperExists' = [keeperExists EXCEPT ![r] = Keeper(r) \in found]
              /\ GoTo(r, "packages")
        /\ UNCHANGED <<ctxDone, kubeVars, boundVars, historyVars>>

(* A step that reads, and goes on or is answered with an error.            *)
Check(r, step, ok, next, code) ==
    /\ At(r, step)
    /\ \/ ok /\ GoTo(r, next)
       \/ ~ok /\ Answer(r, code)
    /\ UNCHANGED <<ctxDone, keeperExists, kubeVars, boundVars, historyVars>>

(* validatePackagePrerequisites: the package of the version is installed   *)
(* and its topology is the requested one.                                  *)
CheckPackage(r) ==
    Check(r, "packages", package[BodyOf[r].version] = BodyOf[r].topology,
          "getNamespace", "PACKAGE_REJECTED")

(* validateSecretKey: the Secret is there and has the key. Its two codes,  *)
(* _NOT_FOUND and _KEY_MISSING, are one here, as are those of the package. *)
CheckAdminSecret(r) ==
    Check(r, "adminSecret", "admin" \in secrets, "aesSecret", "SECRET_REJECTED")

\* Mutant of CheckAesSecret: a code that the API does not have.
CheckAesSecret_OwnCode(r) ==
    Check(r, "aesSecret", "aes" \in secrets, "getProject", "SECRET_UNKNOWN")

CheckAesSecret(r) ==
    Check(r, "aesSecret", "aes" \in secrets, "getProject", "SECRET_REJECTED")

(* The Get of ensureNamespace and ensureProject.                           *)
Get(r, step, n, create, next) ==
    /\ At(r, step)
    /\ GoTo(r, IF Exists(n) THEN next ELSE create)
    /\ UNCHANGED <<ctxDone, keeperExists, kubeVars, boundVars, historyVars>>

GetNamespace(r) ==
    Get(r, "getNamespace", "namespace", "createNamespace", "adminSecret")

AfterProject(r) == IF keeperExists[r] THEN "waitKeeper" ELSE "createKeeper"

\* Mutant of GetProject: a missing Project is left to somebody else.
GetProject_Skips(r) ==
    Get(r, "getProject", "project", AfterProject(r), AfterProject(r))

GetProject(r) ==
    Get(r, "getProject", "project", "createProject", AfterProject(r))

(* A create writes the object under its name, or finds the name taken.     *)
Make(o) ==
    /\ ~Exists(NameOf(o))
    /\ objects' = [objects EXCEPT ![NameOf(o)] = o]

Create(r, step, kind) ==
    /\ At(r, step)
    /\ Make(Object(kind, r))
    /\ UNCHANGED <<ctxDone, keeperExists, readyUnits, secrets, package, late,
                   boundVars, removed, wasReady>>

NameTaken(r, step, kind) ==
    /\ At(r, step)
    /\ Exists(NameOf(Object(kind, r)))
    /\ UNCHANGED <<ctxDone, keeperExists, kubeVars, boundVars, removed, wasReady>>

(* ensureNamespace and ensureProject tolerate AlreadyExists.               *)
CreateNamespace(r) ==
    /\ Create(r, "createNamespace", "namespace")
       \/ NameTaken(r, "createNamespace", "namespace")
    /\ GoTo(r, "adminSecret")
    /\ UNCHANGED accepted

CreateProject(r) ==
    /\ Create(r, "createProject", "project")
       \/ NameTaken(r, "createProject", "project")
    /\ GoTo(r, AfterProject(r))
    /\ UNCHANGED accepted

\* Mutant of CreateKeeper: AlreadyExists is tolerated.
CreateKeeper_Tolerant(r) ==
    /\ Create(r, "createKeeper", "keeper")
       \/ NameTaken(r, "createKeeper", "keeper")
    /\ GoTo(r, "waitKeeper")
    /\ UNCHANGED accepted

CreateKeeper(r) ==
    /\ \/ Create(r, "createKeeper", "keeper") /\ GoTo(r, "waitKeeper")
       \/ /\ NameTaken(r, "createKeeper", "keeper")
          /\ Answer(r, "KUBERNETES_API_ERROR")
    /\ UNCHANGED accepted

\* Mutant of WaitKeeper: the wait gives up at the deadline and goes on.
WaitKeeper_Once(r) ==
    /\ At(r, "waitKeeper")
    /\ Exists(Keeper(r)) /\ GoTo(r, "createServer")
    /\ UNCHANGED <<ctxDone, keeperExists, kubeVars, boundVars, historyVars>>

(* The loop of waitUnitSetReady, by name. While the UnitSet is not ready   *)
(* it waits for the next tick. At the deadline see Fails.                  *)
WaitKeeper(r) ==
    /\ At(r, "waitKeeper")
    /\ \/ /\ Exists(Keeper(r)) /\ readyUnits[Keeper(r)] = Expected(r)
          /\ GoTo(r, "createServer")
       \/ ~Exists(Keeper(r)) /\ Answer(r, "KUBERNETES_API_ERROR")
    /\ UNCHANGED <<ctxDone, keeperExists, kubeVars, boundVars, historyVars>>

Accept(r) ==
    /\ Answer(r, "ACCEPTED")
    /\ accepted' = [accepted EXCEPT ![BodyOf[r].cluster] = @ + 1]

\* Mutant of CreateServer: AlreadyExists is tolerated.
CreateServer_Tolerant(r) ==
    /\ Create(r, "createServer", "server") \/ NameTaken(r, "createServer", "server")
    /\ Accept(r)

CreateServer(r) ==
    \/ Create(r, "createServer", "server") /\ Accept(r)
    \/ /\ NameTaken(r, "createServer", "server")
       /\ Answer(r, "KUBERNETES_API_ERROR")
       /\ UNCHANGED accepted

CreateStep == [namespace |-> "createNamespace", project |-> "createProject",
               keeper |-> "createKeeper", server |-> "createServer"]

(* The object a request at a create step has in flight.                    *)
InFlight(r) ==
    {Object(k, r) : k \in {k \in DOMAIN CreateStep : pc[r] = CreateStep[k]}}

(* A call fails: a fault of the API server or its network, a refusal, or   *)
(* the context. The wait for the Keeper may notice the context by itself.  *)
Fails(r) ==
    /\ pc[r] \in Active
    /\ \/ ctxDone[r] /\ UNCHANGED faults
       \/ ~ctxDone[r] /\ faults < MaxFaults /\ faults' = faults + 1
    /\ \/ Answer(r, "KUBERNETES_API_ERROR")
       \/ /\ pc[r] = "waitKeeper" /\ ctxDone[r]
          /\ Answer(r, "UPMIO_UNITSET_NOT_READY")
    /\ late' = late \cup InFlight(r)
    /\ UNCHANGED <<ctxDone, keeperExists, objects, readyUnits, secrets, package,
                   installs, deletes, historyVars>>

(* REQUEST_TIMEOUT passes, or the client goes away: the end of every wait  *)
(* for a Keeper that does not get ready, and one of the faults elsewhere.  *)
Expire(r) ==
    /\ pc[r] \in Active /\ ~ctxDone[r]
    /\ \/ faults < MaxFaults /\ faults' = faults + 1
       \/ /\ pc[r] = "waitKeeper" /\ readyUnits[Keeper(r)] # Expected(r)
          /\ UNCHANGED faults
    /\ ctxDone' = [ctxDone EXCEPT ![r] = TRUE]
    /\ UNCHANGED <<pc, keeperExists, answer, kubeVars, installs, deletes,
                   historyVars>>

(* The process restarts, and with it every handler is gone.                *)
Crash ==
    /\ faults < MaxFaults /\ faults' = faults + 1
    /\ pc' = [r \in Requests |-> IF pc[r] \in Active THEN "lost" ELSE pc[r]]
    /\ late' = late \cup UNION {InFlight(r) : r \in Requests}
    /\ UNCHANGED <<ctxDone, keeperExists, answer, objects, readyUnits, secrets,
                   package, installs, deletes, historyVars>>

-----------------------------------------------------------------------------
(* Kubernetes, the UPMIO operator and administrators. *)

(* A create whose caller has gone is carried out, unless the name is taken.*)
LateCreate(o) ==
    /\ o \in late
    /\ late' = late \ {o}
    /\ Make(o) \/ (Exists(NameOf(o)) /\ UNCHANGED objects)
    /\ UNCHANGED <<handlerVars, readyUnits, secrets, package, boundVars, historyVars>>

(* The operator brings up one unit of a UnitSet more.                      *)
UnitUp(n) ==
    /\ Exists(n)
    /\ readyUnits[n] < Units[objects[n].kind][objects[n].body.topology]
    /\ readyUnits' = [readyUnits EXCEPT ![n] = @ + 1]
    /\ wasReady' = IF readyUnits'[n] = Units[objects[n].kind][objects[n].body.topology]
                   THEN wasReady \cup {n} ELSE wasReady
    /\ UNCHANGED <<handlerVars, objects, secrets, package, late, boundVars,
                   accepted, removed>>

UnitDown(n) ==
    /\ readyUnits[n] > 0
    /\ readyUnits' = [readyUnits EXCEPT ![n] = @ - 1]
    /\ faults < MaxFaults /\ faults' = faults + 1
    /\ UNCHANGED <<handlerVars, objects, secrets, package, late, installs,
                   deletes, historyVars>>

Provide(s) ==
    /\ s \notin secrets
    /\ secrets' = secrets \cup {s}
    /\ UNCHANGED <<handlerVars, objects, readyUnits, package, late, boundVars,
                   historyVars>>

Install(v, t) ==
    /\ installs < MaxInstalls /\ installs' = installs + 1
    /\ package[v] # t
    /\ package' = [package EXCEPT ![v] = t]
    /\ UNCHANGED <<handlerVars, objects, readyUnits, secrets, late, faults, deletes,
                   historyVars>>

Delete(n) ==
    /\ Exists(n)
    /\ deletes < MaxDeletes /\ deletes' = deletes + 1
    /\ objects' = [objects EXCEPT ![n] = Absent]
    /\ readyUnits' = [m \in KeeperNames |-> IF m = n THEN 0 ELSE readyUnits[m]]
    /\ wasReady' = wasReady \ {n}
    /\ removed' = [removed EXCEPT ![n] = @ + 1]
    /\ UNCHANGED <<handlerVars, secrets, package, late, faults, installs, accepted>>

-----------------------------------------------------------------------------

Handle(r) ==
    \/ ListUnitSets(r) \/ CheckPackage(r) \/ GetNamespace(r)
    \/ CreateNamespace(r) \/ CheckAdminSecret(r) \/ CheckAesSecret(r)
    \/ GetProject(r) \/ CreateProject(r) \/ CreateKeeper(r)
    \/ WaitKeeper(r) \/ CreateServer(r)

(* Every client has been told that its cluster is there: the system rests. *)
Rest ==
    /\ \A r \in Requests :
         pc[r] \in Over /\ answer[r] \in {"ACCEPTED", "CLUSTER_ALREADY_EXISTS"}
    /\ UNCHANGED vars

Next ==
    \/ \E r \in Requests : Arrive(r) \/ Handle(r) \/ Fails(r) \/ Expire(r)
    \/ Crash
    \/ \E o \in late : LateCreate(o)
    \/ \E n \in KeeperNames : UnitUp(n) \/ UnitDown(n)
    \/ \E n \in UnitSets : Delete(n)
    \/ \E s \in Secrets : Provide(s)
    \/ \E v \in Versions, t \in Topologies : Install(v, t)
    \/ Rest

Spec == Init /\ [][Next]_vars

(* Clients repeat, handlers get on, a done context ends a handler, the     *)
(* operator brings units up and    administrators provide the Secrets.     *)
Fairness ==
    /\ \A r \in Requests :
          /\ WF_vars(Arrive(r))
          /\ WF_vars(Handle(r) \/ (ctxDone[r] /\ Fails(r)))
    /\ \A n \in KeeperNames : WF_vars(UnitUp(n))
    /\ \A s \in Secrets : WF_vars(Provide(s))

FairSpec == Spec /\ Fairness

-----------------------------------------------------------------------------
(* Properties. *)

(* A cluster is accepted (202) at most once for every life of its server   *)
(* UnitSet, however many clients race, repeat and lose their answers: the  *)
(* last create of CreateCluster decides, not the scan at its beginning.    *)
OneAccepted ==
    \A c \in Clusters :
        LET server == UnitSetName["server"][c]
        IN  \/ accepted[c] <= removed[server]
            \/ /\ accepted[c] = removed[server] + 1
               /\ Exists(server) /\ objects[server].kind = "server"

(* The cluster that a client was told is accepted is built from its body   *)
(* and not from that of a client it raced with.                            *)
AcceptedIsBuilt ==
    \A r \in Requests :
        answer[r] = "ACCEPTED" /\ removed[Server(r)] = 0
        => objects[Server(r)] = Object("server", r)

(* A server UnitSet stands on a Keeper UnitSet of its own cluster, of its  *)
(* version and with the Keeper replicas of its topology, which has been    *)
(* ready: the scan, the create that fails on a name already taken and the  *)
(* wait are three steps, and no race, fault or late create gets between.   *)
ServerStandsOnKeeper ==
    \A c \in Clusters :
        LET server == objects[UnitSetName["server"][c]]
            name == UnitSetName["keeper"][c]
        IN  server # Absent /\ server.kind = "server" /\ removed[name] = 0
            => /\ Exists(name) /\ name \in wasReady
               /\ objects[name].kind = "keeper"
               /\ objects[name].body.cluster = c
               /\ objects[name].body.version = server.body.version
               /\ Units["keeper"][objects[name].body.topology]
                    = Units["keeper"][server.body.topology]

(* The clusters that are there, by the bodies their servers were made of,  *)
(* the cluster names that a Keeper of another cluster has, and what a      *)
(* client has been told of its cluster.                                    *)
Holder(c) == objects[UnitSetName["server"][c]]
HasServer(c) == Holder(c) # Absent /\ Holder(c).kind = "server"
Registered == {Holder(c).body : c \in {d \in Clusters : HasServer(d)}}
Blocked == {c \in Clusters : Holder(c) # Absent /\ ~HasServer(c)}
Says(code) == CASE code = "ACCEPTED" -> "accepted"
                [] code = "CLUSTER_ALREADY_EXISTS" -> "exists"
                [] OTHER -> "nothing"
Told == [r \in Requests |-> Says(answer[r])]
Open == {r \in Requests : pc[r] \in Active}
Pending == {o.body : o \in {x \in late : x.kind = "server"}}

Registry == INSTANCE ClusterRegistry WITH
    registered <- Registered, blocked <- Blocked, told <- Told, pending <- Pending,
    open <- Open

(* The sequence of calls with its scan at the beginning, the create that   *)
(* decides at its end and what may still happen after an error is a        *)
(* registry: 202 is told at the very step that puts the body under a free  *)
(* name, 409 CLUSTER_ALREADY_EXISTS only while a server of that cluster is *)
(* there, and no server comes from anything but a create of its own body.  *)
CreatesAreARegistry == Registry!Spec

(* What a request that failed leaves behind is a beginning of the sequence:*)
(* a UnitSet only with the Project, the Project only with the Namespace.   *)
LeftoversAreAPrefix ==
    /\ \A n \in UnitSets :
         Exists(n) /\ objects[n].kind # "other" => Exists("project")
    /\ Exists("project") => Exists("namespace")

(* Clients that want one and the same Keeper, whatever server they want    *)
(* with it, in a namespace where nothing foreign has the label of that     *)
(* cluster: upm-api-server-v1.md:113 calls none of this a conflict.        *)
Compatible(r) ==
    LET c == BodyOf[r].cluster
    IN  /\ \A q \in Requests : BodyOf[q].cluster = c =>
               /\ BodyOf[q].version = BodyOf[r].version
               /\ Expected(q) = Expected(r)
               /\ KeeperOptions[BodyOf[q].options] = KeeperOptions[BodyOf[r].options]
        /\ \A n \in DOMAIN Foreign : Foreign[n].body.cluster # c

(* What earlier, racing or late attempts at the same cluster left behind,  *)
(* half of it deleted perhaps, is never taken for a conflict, also when a  *)
(* Keeper of another cluster has one of the names.                         *)
LeftoversNeverConflict ==
    \A r \in Requests : Compatible(r) => answer[r] # "CLUSTER_RESOURCE_CONFLICT"

(* With faults that end, a client that repeats its request is at last told *)
(* that the cluster was accepted or exists: what earlier attempts left     *)
(* behind, at any step, never stands in the way of the same body.          *)
RepeatingSucceeds ==
    \A r \in Requests :
        <>(answer[r] \in {"ACCEPTED", "CLUSTER_ALREADY_EXISTS"})

=============================================================================
