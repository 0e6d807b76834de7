-------------------------- MODULE DiagnosticsReport --------------------------
(***************************************************************************)
(* GET .../diagnostics of upm-api-server: RunDiagnostics of                *)
(* internal/kube/diagnostics.go and Finalize of internal/model/            *)
(* diagnostics.go.  One request looks at its categories in a fixed order;  *)
(* each look is a step: between two of them the system goes on, a call     *)
(* fails, or the deadline of the request passes and every later call fails.*)
(* A system table is a set of rows; a query returns as many of them as the *)
(* limit of the request allows, those that come first in its ORDER BY.     *)
(***************************************************************************)
EXTENDS FiniteSets, Integers, Sequences

CONSTANTS
    Thresholds,    \* the configured levels, by name
    Rows,          \* the rows a query may find, by the name of the query
    MaxRows,       \* bound: rows a query finds
    MaxLimit,      \* the largest limit a request may ask for
    DefaultLimit,  \* the limit of a request that does not say one
    MaxKeepers,    \* bound: Keeper pods
    ExpectedPVCs   \* PVCs of the topology of the cluster

Severities == {"INFO", "UNKNOWN", "WARN", "CRITICAL"}
Categories == <<"keeper", "storage", "replica", "replication_queue", "parts",
                "merges", "mutations", "write_client_stats", "write_quality">>
Queries == {"replica", "replication_queue", "tables", "partitions", "merges",
            "mutations", "write_client_stats"}
(* "unreadable": a number of the row, not the one it is sorted by, does not*)
(* parse and is taken for 0.                                               *)
RowTypes ==
    [replica |-> [delay : Nat, queue : Nat, readonly : BOOLEAN, expired : BOOLEAN,
                  unreadable : BOOLEAN],
     replication_queue |-> [queue : Nat, exception : BOOLEAN, unreadable : BOOLEAN],
     tables |-> [active : Nat, inactive : Nat, unreadable : BOOLEAN],
     partitions |-> [active : Nat, unreadable : BOOLEAN],
     merges |-> [elapsed : Nat, unreadable : BOOLEAN],
     mutations |-> [age : Nat, done : BOOLEAN, reason : BOOLEAN, unreadable : BOOLEAN],
     write_client_stats |-> [count : Nat, user : BOOLEAN, unreadable : BOOLEAN]]

ASSUME ThresholdsAssumption ==
    Thresholds \in [{"delayWarn", "delayCritical", "queueWarn", "queueCritical",
                     "partsWarn", "inactiveWarn", "elapsedWarn", "ageWarn"} -> Nat \ {0}]
ASSUME RowsAssumption ==
    /\ DOMAIN Rows = Queries
    /\ \A q \in Queries : IsFiniteSet(Rows[q]) /\ \A row \in Rows[q] : row \in RowTypes[q]
ASSUME LimitAssumption ==
    /\ MaxLimit \in Nat \ {0} /\ DefaultLimit \in 1 .. MaxLimit
    /\ MaxRows \in Nat /\ MaxKeepers \in Nat /\ ExpectedPVCs \in Nat

VARIABLES
    step,      \* what the handler does next; the name of a category
    limit,     \* of the request, with its default
    ctxDone,   \* the deadline of the request has passed
    server,    \* the pods listed at the beginning have a ClickHouse server
    findings,  \* one after the other: category and severity
    held,      \* what the tables of the last category held
    back,      \* what its queries returned
    severity,  \* the severity filter of the request, "" for none
    status,    \* of the report
    blind      \* history: some evidence could not be read

vars == <<step, limit, ctxDone, server, findings, held, back, severity, status, blind>>

CategoryNames == {Categories[i] : i \in 1 .. Len(Categories)}
Tables(f) == [q \in Queries |-> IF q \in DOMAIN f THEN f[q] ELSE {}]
Nothing == [q \in Queries |-> {}]

TypeOK ==
    /\ step \in {"idle", "cluster", "pods", "finalize", "answered", "refused"} \cup CategoryNames
    /\ limit \in 1 .. MaxLimit
    /\ ctxDone \in BOOLEAN
    /\ server \in BOOLEAN
    /\ findings \in Seq([category : CategoryNames \cup {"cluster"}, severity : Severities])
    /\ \A q \in Queries : back[q] \subseteq held[q] /\ held[q] \subseteq Rows[q]
    /\ severity \in Severities \cup {""}
    /\ status \in {"UNKNOWN", "PASS", "WARN", "FAIL"}
    /\ blind \in BOOLEAN

Init ==
    /\ step = "idle"
    /\ limit = DefaultLimit
    /\ ctxDone = FALSE
    /\ server = FALSE
    /\ findings = << >>
    /\ held = Nothing /\ back = Nothing
    /\ severity = ""
    /\ status = "UNKNOWN"
    /\ blind = FALSE

-----------------------------------------------------------------------------
(* The decision rules.                                                     *)

When(condition, s) == IF condition THEN {s} ELSE {}
Level(value, warn, critical) ==
    IF value >= critical THEN {"CRITICAL"} ELSE When(value >= warn, "WARN")

(* parseTSV trims every line, so that an empty first or last column is lost*)
(* and the row has too few: last_exception, latest_fail_reason and         *)
(* initial_user may be empty.                                              *)
IsShort(q, row) ==
    \/ q = "replication_queue" /\ ~row.exception
    \/ q = "mutations" /\ ~row.reason
    \/ q = "write_client_stats" /\ ~row.user

ReplicaIssues(row) ==
    When(row.readonly \/ row.expired, "CRITICAL")
        \cup Level(row.delay, Thresholds.delayWarn, Thresholds.delayCritical)
        \cup Level(row.queue, Thresholds.queueWarn, Thresholds.queueCritical)
QueueIssues(row) ==
    When(row.exception, "CRITICAL")
        \cup Level(row.queue, Thresholds.queueWarn, Thresholds.queueCritical)
MutationIssues(row) ==
    When(row.reason, "CRITICAL")
        \cup When(~row.done /\ row.age >= Thresholds.ageWarn, "WARN")

TableIssues(row) == When(row.inactive >= Thresholds.inactiveWarn, "WARN")
PartitionIssues(row) == When(row.active >= Thresholds.partsWarn, "WARN")
MergeIssues(row) == When(row.elapsed >= Thresholds.elapsedWarn, "WARN")

(* What the columns of a row that is complete amount to.                   *)
Issues(q, row) ==
    CASE q = "replica" -> ReplicaIssues(row)
      [] q = "replication_queue" -> QueueIssues(row)
      [] q = "tables" -> TableIssues(row)
      [] q = "partitions" -> PartitionIssues(row)
      [] q = "merges" -> MergeIssues(row)
      [] q = "mutations" -> MutationIssues(row)
      [] OTHER -> {}
RowSeverities(q, row) ==
    IF IsShort(q, row) THEN {"UNKNOWN"}
    ELSE When(row.unreadable, "UNKNOWN") \cup Issues(q, row)

(* maxDiagnosticSeverity over all rows: a WARN covers an UNKNOWN.          *)
Severest(s) ==
    IF "CRITICAL" \in s THEN "CRITICAL"
    ELSE IF "WARN" \in s THEN "WARN"
    ELSE IF "UNKNOWN" \in s THEN "UNKNOWN" ELSE "INFO"

(* Mutant of Before: the queue comes first in the ORDER BY of the replicas.*)
Before_QueueFirst(q, x, y) ==
    IF q = "replica" THEN x.queue > y.queue
    ELSE IF q \in {"tables", "partitions"} THEN x.active > y.active
    ELSE IF q = "merges" THEN x.elapsed > y.elapsed ELSE FALSE

(* ORDER BY of a query, and what its LIMIT leaves.                         *)
Before(q, x, y) ==
    CASE q = "replica" -> x.delay > y.delay \/ (x.delay = y.delay /\ x.queue > y.queue)
      [] q = "replication_queue" -> x.queue > y.queue
      [] q \in {"tables", "partitions"} -> x.active > y.active
      [] q = "merges" -> x.elapsed > y.elapsed
      [] q = "mutations" -> x.age < y.age
      [] OTHER -> x.count > y.count
Returns(q, all, some) ==
    /\ some \subseteq all
    /\ Cardinality(some) = IF Cardinality(all) <= limit THEN Cardinality(all) ELSE limit
    /\ \A x \in some, y \in all \ some : ~Before(q, y, x)

-----------------------------------------------------------------------------
(* The steps.                                                              *)

QueriesOf(c) == IF c = "parts" THEN {"tables", "partitions"} ELSE {c} \cap Queries
Position(c) == CHOOSE i \in 1 .. Len(Categories) : Categories[i] = c
After(c) == IF c = "write_quality" THEN "finalize" ELSE Categories[Position(c) + 1]
Finding(c, s) == [category |-> c, severity |-> s]
Report(c, s) == findings' = Append(findings, Finding(c, s)) /\ step' = After(c)
NoRows == held' = Nothing /\ back' = Nothing
CouldNotRead == blind' = TRUE /\ NoRows

(* A limit of 0 stands for the default; Validate refuses what is too large.*)
Receive ==
    /\ step = "idle"
    /\ \/ step' = "refused" /\ UNCHANGED limit
       \/ /\ limit' \in {DefaultLimit} \cup 1 .. MaxLimit
          /\ step' = "cluster"
    /\ UNCHANGED <<ctxDone, server, findings, held, back, severity, status, blind>>

GetCluster ==
    /\ step = "cluster"
    /\ \/ step' = "refused"
       \/ ~ctxDone /\ step' = "pods"
    /\ UNCHANGED <<limit, ctxDone, server, findings, held, back, severity, status, blind>>

ListPods ==
    /\ step = "pods"
    /\ \/ /\ findings' = Append(findings, Finding("cluster", "UNKNOWN"))
          /\ step' = "finalize"
          /\ CouldNotRead
          /\ UNCHANGED server
       \/ /\ ~ctxDone
          /\ server' \in BOOLEAN
          /\ step' = "keeper"
          /\ UNCHANGED <<findings, held, back, blind>>
    /\ UNCHANGED <<limit, ctxDone, severity, status>>

(* Mutant of Keeper: the pods that fail are not counted.                   *)
Keeper_LeadersOnly ==
    /\ step = "keeper"
    /\ \E leaders, failed \in 0 .. MaxKeepers :
         /\ Report("keeper", IF leaders = 1 THEN "INFO" ELSE "CRITICAL")
         /\ blind' = (blind \/ failed > 0)
    /\ UNCHANGED <<limit, ctxDone, server, held, back, severity, status>>

(* mntr of every Keeper pod; the pods whose exec fails are in "failed".    *)
Keeper ==
    /\ step = "keeper"
    /\ \E pods \in {1 .. n : n \in 0 .. MaxKeepers} :
       \E failed \in SUBSET pods, roles \in [pods -> {"leader", "follower", "other"}] :
         /\ ctxDone => failed = pods /\ \A p \in failed : roles[p] = "other"
         /\ LET leaders == {p \in pods : roles[p] = "leader"}
                bad == {p \in pods : p \in failed \/ roles[p] = "other"}
            IN  Report("keeper", IF Cardinality(leaders) = 1 /\ bad = {}
                                 THEN "INFO" ELSE "CRITICAL")
         /\ blind' = (blind \/ failed # {})
    /\ UNCHANGED <<limit, ctxDone, server, held, back, severity, status>>

(* The PVCs whose name has the name of the cluster in it.                  *)
Storage ==
    /\ step = "storage"
    /\ \/ /\ findings' = Append(findings, Finding("storage", "UNKNOWN"))
          /\ CouldNotRead
       \/ /\ ~ctxDone
          /\ \E count \in 0 .. ExpectedPVCs + 1, bound \in BOOLEAN :
               findings' = Append(findings, Finding("storage",
                   IF count = ExpectedPVCs /\ bound THEN "INFO" ELSE "CRITICAL"))
          /\ UNCHANGED <<held, back, blind>>
    /\ step' = After("storage")
    /\ UNCHANGED <<limit, ctxDone, server, severity, status>>

(* Without a server pod nothing is asked: all that is left is CRITICAL.    *)
NoServer ==
    /\ step = "replica" /\ ~server
    /\ findings' = findings \o
          [i \in 1 .. 7 |-> Finding(Categories[i + 2], "CRITICAL")]
    /\ step' = "finalize"
    /\ UNCHANGED <<limit, ctxDone, server, held, back, severity, status, blind>>

(* Mutant of QueryFails: the return after the finding is missing.          *)
QueryFails_GoesOn(c) ==
    /\ step = c /\ server
    /\ findings' = findings \o <<Finding(c, "UNKNOWN"), Finding(c, "INFO")>>
    /\ step' = After(c)
    /\ CouldNotRead
    /\ UNCHANGED <<limit, ctxDone, server, severity, status>>

(* A query fails, query_log does not exist, or the count does not parse.   *)
QueryFails(c) ==
    /\ step = c /\ server
    /\ Report(c, "UNKNOWN")
    /\ CouldNotRead
    /\ UNCHANGED <<limit, ctxDone, server, severity, status>>

FewRows(q) == {all \in SUBSET Rows[q] : Cardinality(all) <= MaxRows}

QueryRows(c) ==
    /\ step = c /\ server /\ ~ctxDone
    /\ \E h, b \in [QueriesOf(c) -> UNION {FewRows(q) : q \in QueriesOf(c)}] :
         /\ \A q \in QueriesOf(c) : h[q] \in FewRows(q) /\ Returns(q, h[q], b[q])
         /\ held' = Tables(h) /\ back' = Tables(b)
         /\ Report(c, Severest(UNION {UNION {RowSeverities(q, row) : row \in b[q]} :
                                         q \in QueriesOf(c)}))
    /\ UNCHANGED <<limit, ctxDone, server, severity, status, blind>>

(* Without database and table in the request: UNKNOWN, nothing is asked.   *)
WriteQuality ==
    /\ step = "write_quality" /\ server
    /\ \/ Report("write_quality", "UNKNOWN")
       \/ /\ ~ctxDone
          /\ \E asExpected \in BOOLEAN :
               Report("write_quality", IF asExpected THEN "INFO" ELSE "WARN")
    /\ NoRows
    /\ UNCHANGED <<limit, ctxDone, server, severity, status, blind>>

Expire ==
    /\ step \notin {"idle", "answered", "refused"}
    /\ ~ctxDone /\ ctxDone' = TRUE
    /\ UNCHANGED <<step, limit, server, findings, held, back, severity, status, blind>>

(* Finalize keeps what the filter of the request asks for and goes through *)
(* it in order: CRITICAL decides at once, WARN and UNKNOWN only as the     *)
(* first of their kind.                                                    *)
Kept == {i \in 1 .. Len(findings) : severity \in {"", findings[i].severity}}
First(places) == CHOOSE i \in places : \A j \in places : i <= j
Of(places, severities) == {i \in places : findings[i].severity \in severities}
(* Mutant of StatusOf: the status is the first severity that is not INFO.  *)
StatusOf_Raw(kept) ==
    LET told == Of(kept, Severities \ {"INFO"})
    IN  IF told = {} THEN "PASS" ELSE findings[First(told)].severity
StatusOf(kept) ==
    LET doubts == Of(kept, {"WARN", "UNKNOWN"})
    IN  IF Of(kept, {"CRITICAL"}) # {} THEN "FAIL"
        ELSE IF doubts = {} THEN "PASS" ELSE findings[First(doubts)].severity
(* The filter of the request matters here only.                            *)
Finalize ==
    /\ step = "finalize"
    /\ UNCHANGED <<limit, ctxDone, server, findings, blind>>
    /\ severity' \in Severities \cup {""}
    /\ status' = StatusOf(Kept')
    /\ step' = "answered"
    /\ NoRows

Next ==
    \/ Receive \/ GetCluster \/ ListPods \/ Keeper \/ Storage \/ NoServer
    \/ \E c \in CategoryNames \ {"keeper", "storage"} : QueryFails(c)
    \/ \E c \in CategoryNames \ {"keeper", "storage", "write_quality"} : QueryRows(c)
    \/ WriteQuality \/ Expire \/ Finalize

Spec == Init /\ [][Next]_vars

-----------------------------------------------------------------------------
(* Properties. *)

Last == findings[Len(findings)]

(* Whatever fails, and whenever the deadline passes, the report says one   *)
(* thing of every category, in order, up to the one it is at: no early     *)
(* return of a category leaves it out or reports it twice.                 *)
EveryCategoryOnce ==
    \/ findings = <<Finding("cluster", "UNKNOWN")>> /\ step \in {"finalize", "answered"}
    \/ /\ \A i \in 1 .. Len(findings) : findings[i].category = Categories[i]
       /\ step \in CategoryNames => Len(findings) = Position(step) - 1
       /\ step \in {"finalize", "answered"} => Len(findings) = Len(Categories)

(* A failed call or a passed deadline never looks like good health: some   *)
(* finding says so, and a report without a filter is not PASS.             *)
BlindIsNotHealthy ==
    blind => /\ \E i \in 1 .. Len(findings) : findings[i].severity # "INFO"
             /\ step = "answered" /\ severity = "" => status # "PASS"

(* The limit does not hide what a query is sorted by: when a replica is as *)
(* late, a partition has as many active parts, or a merge has run as long  *)
(* as a threshold says, anywhere in the cluster, the category is at least  *)
(* WARN however few rows were asked for.  (Read-only replicas, inactive    *)
(* parts and old mutations can be cut off.)                                *)
OrderSurvivesLimit ==
    step # "answered" =>
    /\ \A row \in held["replica"] :
          /\ row.delay >= Thresholds.delayWarn => Last.severity \in {"WARN", "CRITICAL"}
          /\ row.delay >= Thresholds.delayCritical => Last.severity = "CRITICAL"
    /\ (\E row \in held["partitions"] : row.active >= Thresholds.partsWarn)
          \/ (\E row \in held["merges"] : row.elapsed >= Thresholds.elapsedWarn)
          => Last.severity \in {"WARN", "CRITICAL"}

(* docs/phases/phase-06-day2-diagnostics.md:162: "Replication queue grows  *)
(* beyond configured threshold | WARN/CRITICAL".                           *)
QueueThresholdIsReported ==
    (\E row \in back["replication_queue"] : row.queue >= Thresholds.queueWarn)
        => Last.severity \in {"WARN", "CRITICAL"}
=============================================================================
