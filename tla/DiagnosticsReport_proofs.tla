---------------------- MODULE DiagnosticsReport_proofs ----------------------
(* Theorems about DiagnosticsReport, for any rows and numbers.             *)
EXTENDS DiagnosticsReport, FiniteSetTheorems, SequenceTheorems, WellFoundedInduction, TLAPS

-----------------------------------------------------------------------------
(* The order of the categories.                                            *)

LEMMA Nine ==
    /\ Len(Categories) = 9 /\ DOMAIN Categories = 1 .. 9
    /\ CategoryNames = {"keeper", "storage", "replica", "replication_queue", "parts",
                        "merges", "mutations", "write_client_stats", "write_quality"}
<1>1. Len(Categories) = 9 /\ DOMAIN Categories = 1 .. 9
  BY DEF Categories
<1>2. CategoryNames = {Categories[i] : i \in {1, 2, 3, 4, 5, 6, 7, 8, 9}}
  BY <1>1 DEF CategoryNames
<1> QED
  BY <1>1, <1>2 DEF Categories

LEMMA NoTwoPlaces ==
    \A i, j \in 1 .. 9 : Categories[i] = Categories[j] => i = j
BY DEF Categories

LEMMA PositionOfPlace ==
    ASSUME NEW i \in 1 .. 9
    PROVE  Position(Categories[i]) = i
<1>1. Position(Categories[i]) \in 1 .. 9
         /\ Categories[Position(Categories[i])] = Categories[i]
  BY Nine DEF Position
<1> QED
  BY <1>1, NoTwoPlaces

LEMMA PlaceOf ==
    ASSUME NEW c \in CategoryNames
    PROVE  /\ Position(c) \in 1 .. 9
           /\ Categories[Position(c)] = c
           /\ Position(c) = 9 <=> c = "write_quality"
<1>1. PICK i \in 1 .. 9 : c = Categories[i]
  BY Nine DEF CategoryNames
<1>2. Position(c) = i
  BY <1>1, PositionOfPlace
<1>3. Categories[9] = "write_quality"
  BY DEF Categories
<1> QED
  BY <1>1, <1>2, <1>3, NoTwoPlaces

(* What After returns: the category at the next place, or the end.         *)
LEMMA NextPlace ==
    ASSUME NEW c \in CategoryNames
    PROVE  IF c = "write_quality" THEN After(c) = "finalize"
           ELSE After(c) \in CategoryNames /\ Position(After(c)) = Position(c) + 1
<1>1. CASE c = "write_quality"
  BY <1>1 DEF After
<1>2. CASE c # "write_quality"
  <2>1. Position(c) + 1 \in 1 .. 9
    BY <1>2, PlaceOf
  <2>2. After(c) = Categories[Position(c) + 1]
    BY <1>2 DEF After
  <2>3. After(c) \in CategoryNames
    BY <2>1, <2>2, Nine DEF CategoryNames
  <2> QED
    BY <1>2, <2>1, <2>2, <2>3, PositionOfPlace
<1> QED
  BY <1>1, <1>2

-----------------------------------------------------------------------------
(* Types.                                                                  *)

Steps == {"idle", "cluster", "pods", "finalize", "answered", "refused"} \cup CategoryNames
Told == [category : CategoryNames \cup {"cluster"}, severity : Severities]
RowsFit(h, b) == \A q \in Queries : b[q] \subseteq h[q] /\ h[q] \subseteq Rows[q]

LEMMA AfterIsAStep == \A c \in CategoryNames : After(c) \in Steps
BY NextPlace DEF Steps

LEMMA FindingIsTold ==
    \A c \in CategoryNames \cup {"cluster"}, s \in Severities : Finding(c, s) \in Told
BY DEF Finding, Told

LEMMA NothingFits == RowsFit(Nothing, Nothing)
BY DEF RowsFit, Nothing

(* A report of one more category.                                          *)
LEMMA OneMoreIsTold ==
    ASSUME findings \in Seq(Told), NEW c \in CategoryNames \cup {"cluster"},
           NEW s \in Severities
    PROVE  /\ Append(findings, Finding(c, s)) \in Seq(Told)
           /\ Len(Append(findings, Finding(c, s))) = Len(findings) + 1
           /\ \A i \in 1 .. Len(findings) :
                 Append(findings, Finding(c, s))[i] = findings[i]
           /\ Append(findings, Finding(c, s))[Len(findings) + 1] = Finding(c, s)
BY FindingIsTold

(* The answer without a server: seven findings at once.                    *)
SevenCritical == [i \in 1 .. 7 |-> Finding(Categories[i + 2], "CRITICAL")]
LEMMA SevenAreTold ==
    ASSUME findings \in Seq(Told)
    PROVE  /\ SevenCritical \in Seq(Told) /\ Len(SevenCritical) = 7
           /\ findings \o SevenCritical \in Seq(Told)
           /\ Len(findings \o SevenCritical) = Len(findings) + 7
           /\ \A i \in 1 .. Len(findings) : (findings \o SevenCritical)[i] = findings[i]
           /\ \A i \in 1 .. 7 : (findings \o SevenCritical)[Len(findings) + i]
                                  = Finding(Categories[i + 2], "CRITICAL")
<1>1. \A i \in 1 .. 7 : Categories[i + 2] \in CategoryNames
  BY Nine DEF CategoryNames
<1>2. \A i \in 1 .. 7 : SevenCritical[i] \in Told
  BY <1>1, FindingIsTold DEF SevenCritical, Severities
<1>3. SevenCritical \in Seq(Told) /\ Len(SevenCritical) = 7
  <2>1. SevenCritical \in [1 .. 7 -> Told]
    BY <1>2 DEF SevenCritical
  <2>2. Len(SevenCritical) = 7 /\ DOMAIN SevenCritical = 1 .. 7
    BY DEF SevenCritical
  <2> QED
    BY <2>1, <2>2, SeqDef
<1>4. \A i \in 1 .. 7 : SevenCritical[i] = Finding(Categories[i + 2], "CRITICAL")
  BY DEF SevenCritical
<1> HIDE DEF SevenCritical
<1>5. /\ findings \o SevenCritical \in Seq(Told)
      /\ Len(findings \o SevenCritical) = Len(findings) + Len(SevenCritical)
      /\ \A i \in 1 .. Len(findings) + Len(SevenCritical) :
            (findings \o SevenCritical)[i] =
              IF i <= Len(findings) THEN findings[i] ELSE SevenCritical[i - Len(findings)]
  BY <1>3, ConcatProperties, Zenon
<1>6. Len(findings) \in Nat
  BY LenProperties
<1>7. \A i \in 1 .. Len(findings) : (findings \o SevenCritical)[i] = findings[i]
  BY <1>3, <1>5, <1>6
<1>8. \A i \in 1 .. 7 : (findings \o SevenCritical)[Len(findings) + i] = SevenCritical[i]
  <2> SUFFICES ASSUME NEW i \in 1 .. 7
               PROVE  (findings \o SevenCritical)[Len(findings) + i] = SevenCritical[i]
    OBVIOUS
  <2>1. /\ Len(findings) + i \in 1 .. Len(findings) + Len(SevenCritical)
        /\ ~(Len(findings) + i <= Len(findings))
        /\ Len(findings) + i - Len(findings) = i
    BY <1>3, <1>6
  <2> QED
    BY <1>5, <2>1
<1> QED
  BY <1>3, <1>4, <1>5, <1>7, <1>8

LEMMA SeverestIsOne == \A s : Severest(s) \in Severities
BY DEF Severest, Severities

(* What the queries of a category find and return, one by one.             *)
LEMMA QueriesOfCategory ==
    /\ \A c \in CategoryNames : QueriesOf(c) \subseteq Queries
    /\ QueriesOf("parts") = {"tables", "partitions"}
    /\ QueriesOf("replica") = {"replica"} /\ QueriesOf("merges") = {"merges"}
BY DEF QueriesOf, Queries

LEMMA Columns ==
    /\ DOMAIN Nothing = Queries /\ \A q \in Queries : Nothing[q] = {}
    /\ \A f : DOMAIN Tables(f) = Queries
    /\ \A f : \A q \in Queries : Tables(f)[q] = IF q \in DOMAIN f THEN f[q] ELSE {}
BY DEF Nothing, Tables

(* A category that could be asked for.                                     *)
SeveritiesOf(c, rows) ==
    UNION {UNION {RowSeverities(q, row) : row \in rows[q]} : q \in QueriesOf(c)}
LEMMA RowsEffect ==
    ASSUME NEW c \in CategoryNames, QueryRows(c)
    PROVE  /\ RowsFit(held', back')
           /\ \A q \in QueriesOf(c) : Returns(q, held'[q], back'[q])
           /\ \A q \in Queries \ QueriesOf(c) : held'[q] = {}
           /\ Report(c, Severest(SeveritiesOf(c, back')))
<1>1. PICK h, b \in [QueriesOf(c) -> UNION {FewRows(q) : q \in QueriesOf(c)}] :
         /\ \A q \in QueriesOf(c) : h[q] \in FewRows(q) /\ Returns(q, h[q], b[q])
         /\ held' = Tables(h) /\ back' = Tables(b)
         /\ Report(c, Severest(SeveritiesOf(c, b)))
  BY DEF QueryRows, SeveritiesOf
<1>2. DOMAIN h = QueriesOf(c) /\ DOMAIN b = QueriesOf(c)
  BY <1>1
<1>3. \A q \in QueriesOf(c) : held'[q] = h[q] /\ back'[q] = b[q]
  BY <1>1, <1>2, QueriesOfCategory, Columns
<1>4. \A q \in Queries \ QueriesOf(c) : held'[q] = {} /\ back'[q] = {}
  BY <1>1, <1>2, Columns
<1>5. \A q \in QueriesOf(c) : back'[q] \subseteq held'[q] /\ held'[q] \subseteq Rows[q]
  BY <1>1, <1>3 DEF Returns, FewRows
<1>6. SeveritiesOf(c, b) = SeveritiesOf(c, back')
  BY <1>3 DEF SeveritiesOf
<1> QED
  BY <1>1, <1>3, <1>4, <1>5, <1>6 DEF RowsFit

LEMMA TypeInit == Init => TypeOK
BY LimitAssumption, NothingFits, EmptySeq DEF Init, TypeOK, RowsFit, Told

(* A step that reports one category.                                       *)
LEMMA ReportTypes ==
    ASSUME TypeOK, NEW c \in CategoryNames, NEW s \in Severities, Report(c, s)
    PROVE  step' \in Steps /\ findings' \in Seq(Told)
BY OneMoreIsTold, AfterIsAStep DEF Report, TypeOK, Told

(* The first of some places is one of them.                                *)
LEMMA FirstIsOne ==
    ASSUME NEW places \in SUBSET Nat, places # {}
    PROVE  First(places) \in places
<1>1. PICK x \in places : \A y \in places : ~(<<y, x>> \in OpToRel(<, Nat))
  BY NatLessThanWellFounded, WFMin
<1>2. \A y \in places : x <= y
  <2> SUFFICES ASSUME NEW y \in places PROVE ~(y < x)
    OBVIOUS
  <2> QED
    BY <1>1 DEF OpToRel
<1> QED
  BY <1>2 DEF First

LEMMA NumbersUpTo == \A n \in Nat : 1 .. n \subseteq Nat
OBVIOUS

LEMMA StatusIsOne ==
    ASSUME NEW kept, kept \subseteq Nat
    PROVE  /\ StatusOf(kept) \in {"UNKNOWN", "PASS", "WARN", "FAIL"}
           /\ Of(kept, {"WARN", "UNKNOWN", "CRITICAL"}) # {} => StatusOf(kept) # "PASS"
<1> DEFINE doubts == Of(kept, {"WARN", "UNKNOWN"})
<1>1. CASE doubts = {}
  BY <1>1 DEF StatusOf, Of
<1>2. CASE doubts # {}
  <2>1. doubts \in SUBSET Nat
    BY DEF Of
  <2>2. First(doubts) \in doubts
    BY <1>2, <2>1, FirstIsOne
  <2>3. findings[First(doubts)].severity \in {"WARN", "UNKNOWN"}
    BY <2>2 DEF Of
  <2> QED
    BY <1>2, <2>3 DEF StatusOf
<1> QED
  BY <1>1, <1>2

(* TypeOK with its parts named.                                            *)
Types ==
    /\ step \in Steps /\ limit \in 1 .. MaxLimit
    /\ ctxDone \in BOOLEAN /\ server \in BOOLEAN
    /\ findings \in Seq(Told) /\ RowsFit(held, back)
    /\ severity \in Severities \cup {""}
    /\ status \in {"UNKNOWN", "PASS", "WARN", "FAIL"}
    /\ blind \in BOOLEAN

LEMMA TypeStep == TypeOK /\ [Next]_vars => TypeOK'
<1> SUFFICES ASSUME TypeOK, Types, [Next]_vars PROVE Types'
  BY DEF TypeOK, Types, Steps, Told, RowsFit
<1> USE DEF Types
<1>n. CategoryNames \subseteq Steps /\ {"idle", "cluster", "pods", "finalize", "answered", "refused"} \subseteq Steps
  BY DEF Steps
<1>c. {"keeper", "storage", "write_quality"} \subseteq CategoryNames
  BY Nine
<1>s. {"INFO", "UNKNOWN", "WARN", "CRITICAL"} = Severities
  BY DEF Severities
<1>f. \A c \in CategoryNames \cup {"cluster"}, s \in Severities :
         Append(findings, Finding(c, s)) \in Seq(Told)
  BY OneMoreIsTold
<1>t. RowsFit(held, back) /\ held' = held /\ back' = back => RowsFit(held', back')
  BY DEF RowsFit
<1>o. NoRows => RowsFit(held', back')
  BY NothingFits DEF NoRows
<1>1. CASE Receive
  BY <1>1, <1>n, <1>t, LimitAssumption DEF Receive
<1>2. CASE GetCluster
  BY <1>2, <1>n, <1>t DEF GetCluster
<1>3. CASE ListPods
  BY <1>3, <1>n, <1>t, <1>o, <1>f, <1>c, <1>s DEF ListPods, CouldNotRead
<1>4. CASE Keeper
  <2>1. PICK s \in Severities : Report("keeper", s)
    BY <1>4, <1>s DEF Keeper
  <2>2. blind' \in BOOLEAN
    BY <1>4 DEF Keeper
  <2> QED
    BY <1>4, <2>1, <2>2, <1>t, <1>c, ReportTypes DEF Keeper
<1>5. CASE Storage
  <2>1. PICK s \in Severities : findings' = Append(findings, Finding("storage", s))
    BY <1>5, <1>s DEF Storage
  <2>2. step' \in Steps
    BY <1>5, <1>c, AfterIsAStep DEF Storage
  <2>3. blind' \in BOOLEAN /\ RowsFit(held', back')
    BY <1>5, <1>t, <1>o DEF Storage, CouldNotRead
  <2> QED
    BY <1>5, <2>1, <2>2, <2>3, <1>f, <1>c DEF Storage
<1>6. CASE NoServer
  BY <1>6, <1>n, <1>t, SevenAreTold DEF NoServer, SevenCritical
<1>7. ASSUME NEW c \in CategoryNames, QueryFails(c) PROVE Types'
  BY <1>7, <1>o, <1>s, ReportTypes DEF QueryFails, CouldNotRead
<1>8. ASSUME NEW c \in CategoryNames, QueryRows(c) PROVE Types'
  <2>1. PICK s \in Severities : Report(c, s)
    BY <1>8, RowsEffect, SeverestIsOne
  <2> QED
    BY <1>8, <2>1, RowsEffect, ReportTypes DEF QueryRows
<1>9. CASE WriteQuality
  <2>1. PICK s \in Severities : Report("write_quality", s)
    BY <1>9, <1>s DEF WriteQuality
  <2> QED
    BY <1>9, <2>1, <1>o, <1>c, ReportTypes DEF WriteQuality
<1>10. CASE Expire
  BY <1>10, <1>t DEF Expire
<1>11. CASE Finalize
  <2>0. findings' = findings /\ Len(findings) \in Nat
    BY <1>11, LenProperties DEF Finalize
  <2>1. Kept' \subseteq Nat
    <3>1. Kept' \subseteq 1 .. Len(findings)
      BY <2>0 DEF Kept
    <3> QED
      BY <2>0, <3>1, NumbersUpTo
  <2>2. status' \in {"UNKNOWN", "PASS", "WARN", "FAIL"}
    BY <1>11, <2>1, StatusIsOne DEF Finalize
  <2> QED
    BY <1>11, <2>2, <1>n, <1>o DEF Finalize
<1>12. CASE UNCHANGED vars
  BY <1>12, <1>t DEF vars
<1> QED
  BY <1>1, <1>2, <1>3, <1>4, <1>5, <1>6, <1>7, <1>8, <1>9, <1>10, <1>11, <1>12 DEF Next

(* Every variable of the model of GET /diagnostics keeps its type: among   *)
(* them, that a query returns rows that are in its table.                  *)
THEOREM TypeCorrect == Spec => []TypeOK
<1> QED
  BY TypeInit, TypeStep, PTL DEF Spec

-----------------------------------------------------------------------------
(* Every category once.  Places is what the steps keep: what the report    *)
(* says so far are the categories before the one it is at.                 *)

InOrder(f) == Len(f) <= 9 /\ \A i \in 1 .. Len(f) : f[i].category = Categories[i]
Places ==
    /\ step \in {"idle", "cluster", "pods", "refused"} => findings = << >>
    /\ step \in CategoryNames => InOrder(findings) /\ Len(findings) = Position(step) - 1
    /\ step \in {"finalize", "answered"} =>
         \/ findings = <<Finding("cluster", "UNKNOWN")>>
         \/ InOrder(findings) /\ Len(findings) = 9

LEMMA PlacesEnough == TypeOK /\ Places => EveryCategoryOnce
<1> SUFFICES ASSUME TypeOK, Places PROVE EveryCategoryOnce
  OBVIOUS
<1>1. CASE step \in {"idle", "cluster", "pods", "refused"}
  <2>1. Len(findings) = 0 /\ step \notin CategoryNames
    BY <1>1, Nine DEF Places
  <2> QED
    BY <1>1, <2>1 DEF EveryCategoryOnce
<1>2. CASE step \in CategoryNames
  BY <1>2, Nine DEF Places, EveryCategoryOnce, InOrder
<1>3. CASE step \in {"finalize", "answered"}
  BY <1>3, Nine DEF Places, EveryCategoryOnce, InOrder
<1> QED
  BY <1>1, <1>2, <1>3 DEF TypeOK

(* A finding of the category that is its turn.                             *)
LEMMA ReportInOrder ==
    ASSUME findings \in Seq(Told), Places, NEW c \in CategoryNames, step = c,
           NEW s \in Severities, Report(c, s)
    PROVE  Places'
<1> DEFINE f == Append(findings, Finding(c, s))
<1>1. InOrder(findings) /\ Len(findings) = Position(c) - 1
  BY DEF Places
<1>2. /\ Len(f) = Position(c)
      /\ \A i \in 1 .. Len(findings) : f[i] = findings[i]
      /\ f[Position(c)] = Finding(c, s)
  BY <1>1, PlaceOf, OneMoreIsTold
<1>3. InOrder(f)
  <2>1. \A i \in 1 .. Len(f) : f[i].category = Categories[i]
    <3> SUFFICES ASSUME NEW i \in 1 .. Len(f) PROVE f[i].category = Categories[i]
      OBVIOUS
    <3>1. CASE i = Position(c)
      BY <3>1, <1>2, PlaceOf DEF Finding
    <3>2. CASE i # Position(c)
      <4>1. i \in 1 .. Len(findings)
        BY <3>2, <1>1, <1>2, PlaceOf
      <4> QED
        BY <4>1, <1>1, <1>2 DEF InOrder
    <3> QED
      BY <3>1, <3>2
  <2> QED
    BY <2>1, <1>2, PlaceOf DEF InOrder
<1> HIDE DEF f
<1>4. findings' = f /\ step' = After(c)
  BY DEF Report, f
<1>5. CASE c = "write_quality"
  BY <1>2, <1>3, <1>4, <1>5, NextPlace, PlaceOf, Nine DEF Places
<1>6. CASE c # "write_quality"
  <2>1. step' \in CategoryNames /\ Position(step') = Position(c) + 1
    BY <1>4, <1>6, NextPlace
  <2>2. Len(findings') = Position(step') - 1
    BY <2>1, <1>2, <1>4, PlaceOf
  <2>3. InOrder(findings')
    BY <1>3, <1>4
  <2>4. step' \notin {"idle", "cluster", "pods", "refused", "finalize", "answered"}
    BY <2>1, Nine
  <2> QED
    BY <2>1, <2>2, <2>3, <2>4 DEF Places
<1> QED
  BY <1>5, <1>6

LEMMA PlacesStep == TypeOK /\ Places /\ [Next]_vars => Places'
<1> SUFFICES ASSUME TypeOK, findings \in Seq(Told), Places, [Next]_vars PROVE Places'
  BY DEF TypeOK, Told
<1>c. {"keeper", "storage", "replica", "write_quality"} \subseteq CategoryNames
  BY Nine
<1>s. {"INFO", "UNKNOWN", "WARN", "CRITICAL"} = Severities
  BY DEF Severities
<1>n. CategoryNames \cap {"idle", "cluster", "pods", "refused", "finalize", "answered"} = {}
  BY Nine
<1>p. Categories[1] = "keeper" /\ Categories[3] = "replica"
  BY DEF Categories
<1>q. Position("keeper") = 1 /\ Position("replica") = 3
  BY <1>p, PositionOfPlace
<1>1. CASE Receive
  BY <1>1, <1>n DEF Receive, Places
<1>2. CASE GetCluster
  BY <1>2, <1>n DEF GetCluster, Places
<1>3. CASE ListPods
  <2>1. findings = << >>
    BY <1>3 DEF ListPods, Places
  <2>2. CASE findings' = Append(findings, Finding("cluster", "UNKNOWN")) /\ step' = "finalize"
    <3>1. findings' = <<Finding("cluster", "UNKNOWN")>>
      BY <2>1, <2>2
    <3> QED
      BY <2>2, <3>1, <1>n DEF Places
  <2>3. CASE step' = "keeper" /\ findings' = findings
    BY <2>1, <2>3, <1>n, <1>q, <1>c DEF Places, InOrder
  <2> QED
    BY <1>3, <2>2, <2>3 DEF ListPods
<1>4. CASE Keeper
  <2>1. PICK s \in Severities : Report("keeper", s)
    BY <1>4, <1>s DEF Keeper
  <2> QED
    BY <1>4, <2>1, <1>c, ReportInOrder DEF Keeper
<1>5. CASE Storage
  <2>1. PICK s \in Severities : findings' = Append(findings, Finding("storage", s))
    BY <1>5, <1>s DEF Storage
  <2>2. Report("storage", s)
    BY <1>5, <2>1 DEF Storage, Report
  <2> QED
    BY <1>5, <2>2, <1>c, ReportInOrder DEF Storage
<1>6. CASE NoServer
  <2>1. findings' = findings \o SevenCritical /\ step' = "finalize"
    BY <1>6 DEF NoServer, SevenCritical
  <2>2. InOrder(findings) /\ Len(findings) = 2
    BY <1>6, <1>c, <1>q DEF NoServer, Places
  <2>3. Len(findings') = 9 /\ \A i \in 1 .. 2 : findings'[i].category = Categories[i]
    BY <2>1, <2>2, SevenAreTold DEF InOrder
  <2>4. \A i \in 1 .. 7 : findings'[2 + i] = Finding(Categories[i + 2], "CRITICAL")
    BY <2>1, <2>2, SevenAreTold
  <2>5. \A i \in 3 .. 9 : findings'[i].category = Categories[i]
    <3> SUFFICES ASSUME NEW i \in 3 .. 9 PROVE findings'[i].category = Categories[i]
      OBVIOUS
    <3>1. i - 2 \in 1 .. 7 /\ 2 + (i - 2) = i /\ (i - 2) + 2 = i
      OBVIOUS
    <3>2. findings'[i] = Finding(Categories[i], "CRITICAL")
      BY <2>4, <3>1
    <3> QED
      BY <3>2 DEF Finding
  <2>6. InOrder(findings')
    BY <2>3, <2>5 DEF InOrder
  <2> QED
    BY <2>1, <2>3, <2>6, <1>n DEF Places
<1>7. ASSUME NEW c \in CategoryNames, QueryFails(c) PROVE Places'
  BY <1>7, <1>s, ReportInOrder DEF QueryFails
<1>8. ASSUME NEW c \in CategoryNames, QueryRows(c) PROVE Places'
  <2>1. PICK s \in Severities : Report(c, s)
    BY <1>8, RowsEffect, SeverestIsOne
  <2> QED
    BY <1>8, <2>1, ReportInOrder DEF QueryRows
<1>9. CASE WriteQuality
  <2>1. PICK s \in Severities : Report("write_quality", s)
    BY <1>9, <1>s DEF WriteQuality
  <2> QED
    BY <1>9, <2>1, <1>c, ReportInOrder DEF WriteQuality
<1>10. CASE Expire
  BY <1>10 DEF Expire, Places
<1>11. CASE Finalize
  BY <1>11, <1>n DEF Finalize, Places
<1>12. CASE UNCHANGED vars
  BY <1>12 DEF vars, Places
<1> QED
  BY <1>1, <1>2, <1>3, <1>4, <1>5, <1>6, <1>7, <1>8, <1>9, <1>10, <1>11, <1>12 DEF Next

LEMMA PlacesAlways == Spec => [](TypeOK /\ Places)
<1>1. Init => TypeOK /\ Places
  BY TypeInit, Nine DEF Init, Places
<1> QED
  BY <1>1, TypeStep, PlacesStep, PTL DEF Spec

(* Whatever fails and whenever the deadline passes, a report says one      *)
(* thing of every category, in their order.                                *)
THEOREM CategoriesOnce == Spec => []EveryCategoryOnce
<1> QED
  BY PlacesAlways, PlacesEnough, PTL

-----------------------------------------------------------------------------
(* What the report could not see.                                          *)

Confessed == blind => \E i \in 1 .. Len(findings) : findings[i].severity # "INFO"
Blindness ==
    /\ Confessed
    /\ step = "answered" /\ severity = "" /\ blind => status # "PASS"

(* A step adds no finding, one, or the seven of NoServer; one that fails   *)
(* to read something adds one that is not INFO.                            *)
Adds(c, s) == findings' = Append(findings, Finding(c, s))
LEMMA WhatIsAdded ==
    ASSUME Next, blind \in BOOLEAN
    PROVE  \/ findings' = findings /\ blind' = blind
           \/ findings' = findings \o SevenCritical /\ blind' = blind
           \/ \E c \in CategoryNames \cup {"cluster"}, s \in Severities :
                 Adds(c, s) /\ (blind' = blind \/ s # "INFO")
<1> DEFINE Goal == \/ findings' = findings /\ blind' = blind
                   \/ findings' = findings \o SevenCritical /\ blind' = blind
                   \/ \E c \in CategoryNames \cup {"cluster"}, s \in Severities :
                         Adds(c, s) /\ (blind' = blind \/ s # "INFO")
<1>c. {"keeper", "storage", "write_quality"} \subseteq CategoryNames
  BY Nine
<1>s. {"INFO", "UNKNOWN", "WARN", "CRITICAL"} = Severities
  BY DEF Severities
<1>1. CASE Receive \/ GetCluster \/ Expire \/ Finalize
  BY <1>1 DEF Receive, GetCluster, Expire, Finalize
<1>2. CASE ListPods
  BY <1>2, <1>s DEF ListPods, Adds
<1>3. CASE Keeper
  <2> DEFINE Asked(n, failed, roles) ==
          /\ LET leaders == {p \in 1 .. n : roles[p] = "leader"}
                 bad == {p \in 1 .. n : p \in failed \/ roles[p] = "other"}
             IN  Report("keeper", IF Cardinality(leaders) = 1 /\ bad = {}
                                  THEN "INFO" ELSE "CRITICAL")
          /\ blind' = (blind \/ failed # {})
  <2>0. PICK n \in 0 .. MaxKeepers : \E failed \in SUBSET (1 .. n) :
          \E roles \in [1 .. n -> {"leader", "follower", "other"}] : Asked(n, failed, roles)
    BY <1>3 DEF Keeper
  <2>1. PICK failed \in SUBSET (1 .. n), roles \in [1 .. n -> {"leader", "follower", "other"}] :
          Asked(n, failed, roles)
    BY <2>0
  <2>2. CASE failed = {}
    <3>1. PICK s \in Severities : Report("keeper", s)
      BY <2>1, <1>s
    <3>2. blind' = blind
      BY <2>1, <2>2
    <3> QED
      BY <3>1, <3>2, <1>c DEF Report, Adds
  <2>3. CASE failed # {}
    <3>1. PICK p \in 1 .. n : p \in failed
      BY <2>3
    <3>2. Report("keeper", "CRITICAL")
      BY <2>1, <3>1
    <3> QED
      BY <3>2, <1>c, <1>s DEF Report, Adds
  <2> QED
    BY <2>2, <2>3
<1>4. CASE Storage
  <2>1. CASE findings' = Append(findings, Finding("storage", "UNKNOWN"))
    BY <2>1, <1>s, <1>c DEF Adds
  <2>2. CASE blind' = blind /\ \E s \in {"INFO", "CRITICAL"} :
               findings' = Append(findings, Finding("storage", s))
    BY <2>2, <1>s, <1>c DEF Adds
  <2> QED
    BY <1>4, <2>1, <2>2 DEF Storage
<1>5. CASE NoServer
  BY <1>5 DEF NoServer, SevenCritical
<1>6. ASSUME NEW c \in CategoryNames, QueryFails(c) PROVE Goal
  BY <1>6, <1>s DEF QueryFails, Report, Adds
<1>7. ASSUME NEW c \in CategoryNames, QueryRows(c) PROVE Goal
  <2>1. PICK s \in Severities : Report(c, s)
    BY <1>7, RowsEffect, SeverestIsOne
  <2> QED
    BY <1>7, <2>1 DEF QueryRows, Report, Adds
<1>8. CASE WriteQuality
  <2>1. PICK s \in Severities : Report("write_quality", s)
    BY <1>8, <1>s DEF WriteQuality
  <2> QED
    BY <1>8, <2>1, <1>c DEF WriteQuality, Report, Adds
<1> QED
  BY <1>1, <1>2, <1>3, <1>4, <1>5, <1>6, <1>7, <1>8 DEF Next

LEMMA ConfessedStep == TypeOK /\ Confessed /\ [Next]_vars => Confessed'
<1> SUFFICES ASSUME findings \in Seq(Told), blind \in BOOLEAN,
                    Confessed, [Next]_vars, blind'
             PROVE  \E i \in 1 .. Len(findings') : findings'[i].severity # "INFO"
  BY DEF TypeOK, Told, Confessed
<1>0. Len(findings) \in Nat
  BY LenProperties
<1>1. CASE (findings' = findings /\ blind' = blind) \/ UNCHANGED vars
  BY <1>1 DEF Confessed, vars
<1>2. CASE findings' = findings \o SevenCritical
  <2>1. 1 \in 1 .. 7 /\ Len(findings) + 1 \in 1 .. Len(findings')
    BY <1>0, <1>2, SevenAreTold
  <2>2. findings'[Len(findings) + 1] = Finding(Categories[3], "CRITICAL")
    BY <1>2, <2>1, SevenAreTold
  <2> QED
    BY <2>1, <2>2 DEF Finding
<1>3. ASSUME NEW c \in CategoryNames \cup {"cluster"}, NEW s \in Severities,
             Adds(c, s), blind' = blind \/ s # "INFO"
      PROVE  \E i \in 1 .. Len(findings') : findings'[i].severity # "INFO"
  <2>1. /\ Len(findings') = Len(findings) + 1
        /\ \A i \in 1 .. Len(findings) : findings'[i] = findings[i]
        /\ findings'[Len(findings) + 1] = Finding(c, s)
    BY <1>3, OneMoreIsTold DEF Adds
  <2>2. CASE s # "INFO"
    BY <2>1, <2>2, <1>0 DEF Finding
  <2>3. CASE blind' = blind
    <3>1. PICK i \in 1 .. Len(findings) : findings[i].severity # "INFO"
      BY <2>3 DEF Confessed
    <3>2. i \in 1 .. Len(findings')
      BY <2>1, <3>1, <1>0
    <3> QED
      BY <2>1, <3>1, <3>2
  <2> QED
    BY <1>3, <2>2, <2>3
<1> QED
  BY <1>1, <1>2, <1>3, WhatIsAdded

LEMMA OnlyFinalizeAnswers == Next /\ step' = "answered" => Finalize
<1> SUFFICES ASSUME Next, ~Finalize PROVE step' # "answered"
  OBVIOUS
<1>c. {"keeper", "storage", "write_quality"} \subseteq CategoryNames
  BY Nine
<1>a. \A c \in CategoryNames : After(c) # "answered"
  BY NextPlace, Nine
<1>1. CASE Receive \/ GetCluster \/ ListPods \/ Expire \/ NoServer
  BY <1>1 DEF Receive, GetCluster, ListPods, Expire, NoServer
<1>2. CASE Keeper
  <2>1. step' = After("keeper")
    BY <1>2 DEF Keeper, Report
  <2> QED
    BY <2>1, <1>a, <1>c
<1>3. CASE Storage \/ WriteQuality
  BY <1>3, <1>a, <1>c DEF Storage, WriteQuality, Report
<1>4. ASSUME NEW c \in CategoryNames, QueryFails(c) \/ QueryRows(c)
      PROVE  step' # "answered"
  <2>1. step' = After(c)
    BY <1>4 DEF QueryFails, QueryRows, Report
  <2> QED
    BY <2>1, <1>a
<1> QED
  BY <1>1, <1>2, <1>3, <1>4 DEF Next

LEMMA BlindnessStep == TypeOK /\ Blindness /\ [Next]_vars => Blindness'
<1> SUFFICES ASSUME TypeOK, findings \in Seq(Told), Blindness, [Next]_vars PROVE Blindness'
  BY DEF TypeOK, Told
<1>1. Confessed'
  BY ConfessedStep DEF Blindness
<1>2. CASE UNCHANGED vars
  BY <1>1, <1>2 DEF vars, Blindness
<1>3. CASE Finalize
  <2> SUFFICES ASSUME severity' = "", blind PROVE status' # "PASS"
    BY <1>1, <1>3 DEF Blindness, Finalize
  <2>1. PICK i \in 1 .. Len(findings) : findings[i].severity # "INFO"
    BY DEF Blindness, Confessed
  <2>2. findings[i].severity \in {"WARN", "UNKNOWN", "CRITICAL"}
    <3>1. findings[i] \in Told
      BY <2>1, ElementOfSeq
    <3> QED
      BY <2>1, <3>1 DEF Told, Severities
  <2>3. Kept' = 1 .. Len(findings)
    BY <1>3 DEF Kept, Finalize
  <2>4. Kept' \subseteq Nat
    BY <2>3, LenProperties, NumbersUpTo
  <2>5. i \in Of(Kept', {"WARN", "UNKNOWN", "CRITICAL"})
    BY <2>1, <2>2, <2>3 DEF Of
  <2>6. StatusOf(Kept') # "PASS"
    BY <2>4, <2>5, StatusIsOne
  <2> QED
    BY <1>3, <2>6 DEF Finalize
<1>4. CASE Next /\ step' # "answered"
  BY <1>1, <1>4 DEF Blindness
<1> QED
  BY <1>2, <1>3, <1>4, OnlyFinalizeAnswers

(* A call that failed or a deadline that passed never makes a report look  *)
(* like good health: a finding says it, and the status is not PASS.        *)
THEOREM BlindReportsSaySo == Spec => []BlindIsNotHealthy
<1>1. Init => Blindness
  BY DEF Init, Blindness, Confessed
<1>2. TypeOK /\ Blindness => BlindIsNotHealthy
  BY DEF Blindness, Confessed, BlindIsNotHealthy
<1> QED
  BY <1>1, <1>2, TypeInit, TypeStep, BlindnessStep, PTL DEF Spec

-----------------------------------------------------------------------------
(* What the limit leaves.                                                  *)

(* A row that is cut off has one in front of it that is not.               *)
LEMMA SomeRowInFront ==
    ASSUME limit \in 1 .. MaxLimit, NEW q, NEW all, NEW some, IsFiniteSet(all),
           Returns(q, all, some), NEW row \in all
    PROVE  \E x \in some : x = row \/ ~Before(q, row, x)
<1>1. limit \in Nat /\ limit # 0
  BY LimitAssumption
<1>2. some \subseteq all /\ IsFiniteSet(some)
  BY FS_Subset DEF Returns
<1>3. CASE row \in some
  BY <1>3
<1>4. CASE row \notin some
  <2>1. Cardinality(some) # Cardinality(all)
    BY <1>2, <1>4, FS_Subset
  <2>2. Cardinality(some) = limit
    BY <2>1 DEF Returns
  <2>3. some # {}
    BY <1>1, <1>2, <2>2, FS_EmptySet
  <2> QED
    BY <1>4, <2>3 DEF Returns
<1> QED
  BY <1>3, <1>4

LEMMA RowsAreFinite ==
    ASSUME NEW q \in Queries, NEW all, all \subseteq Rows[q]
    PROVE  /\ IsFiniteSet(all)
           /\ \A row \in all : row \in RowTypes[q]
BY RowsAssumption, FS_Subset

LEMMA OrderOfReplicas ==
    \A x, y \in RowTypes["replica"] : ~Before("replica", x, y) => y.delay >= x.delay
BY DEF Before, RowTypes
LEMMA OrderOfPartitions ==
    \A x, y \in RowTypes["partitions"] : ~Before("partitions", x, y) => y.active >= x.active
BY DEF Before, RowTypes
LEMMA OrderOfMerges ==
    \A x, y \in RowTypes["merges"] : ~Before("merges", x, y) => y.elapsed >= x.elapsed
BY DEF Before, RowTypes

LEMMA RowLevels ==
    /\ \A x \in RowTypes["replica"] :
         /\ x.delay >= Thresholds.delayWarn =>
               RowSeverities("replica", x) \cap {"WARN", "CRITICAL"} # {}
         /\ x.delay >= Thresholds.delayCritical => "CRITICAL" \in RowSeverities("replica", x)
    /\ \A x \in RowTypes["partitions"] :
         x.active >= Thresholds.partsWarn => "WARN" \in RowSeverities("partitions", x)
    /\ \A x \in RowTypes["merges"] :
         x.elapsed >= Thresholds.elapsedWarn => "WARN" \in RowSeverities("merges", x)
<1>1. ASSUME NEW x, NEW q \in {"replica", "partitions", "merges"}
      PROVE  Issues(q, x) \subseteq RowSeverities(q, x)
  BY <1>1 DEF RowSeverities, IsShort
<1>2. \A x : /\ Issues("replica", x) = ReplicaIssues(x)
             /\ Issues("partitions", x) = PartitionIssues(x)
             /\ Issues("merges", x) = MergeIssues(x)
  BY Zenon DEF Issues
<1>3. \A x : /\ x.delay >= Thresholds.delayCritical => "CRITICAL" \in ReplicaIssues(x)
             /\ x.delay >= Thresholds.delayWarn =>
                   "WARN" \in ReplicaIssues(x) \/ "CRITICAL" \in ReplicaIssues(x)
  BY DEF ReplicaIssues, Level, When
<1>4. \A x : /\ x.active >= Thresholds.partsWarn => "WARN" \in PartitionIssues(x)
             /\ x.elapsed >= Thresholds.elapsedWarn => "WARN" \in MergeIssues(x)
  BY DEF PartitionIssues, MergeIssues, When
<1> QED
  BY <1>1, <1>2, <1>3, <1>4

LEMMA SeverestCovers ==
    ASSUME NEW s
    PROVE  /\ "CRITICAL" \in s => Severest(s) = "CRITICAL"
           /\ "WARN" \in s => Severest(s) \in {"WARN", "CRITICAL"}
BY DEF Severest

Nowhere == step \in {"idle", "cluster", "pods", "refused", "keeper", "storage", "replica"}
             => held = Nothing

LEMMA NothingIsHidden == held = Nothing => OrderSurvivesLimit
BY Columns DEF OrderSurvivesLimit, Queries

(* A category whose queries returned: what it reports.                     *)
LEMMA LastOfRows ==
    ASSUME findings \in Seq(Told), NEW c \in CategoryNames, QueryRows(c)
    PROVE  Last'.severity = Severest(SeveritiesOf(c, back'))
<1>1. findings' = Append(findings, Finding(c, Severest(SeveritiesOf(c, back'))))
  BY RowsEffect DEF Report
<1>2. Severest(SeveritiesOf(c, back')) \in Severities
  BY SeverestIsOne
<1> QED
  BY <1>1, <1>2, OneMoreIsTold DEF Last, Finding

LEMMA RowIsCovered ==
    ASSUME TypeOK, NEW c \in CategoryNames, QueryRows(c), NEW q \in QueriesOf(c),
           NEW row \in held'[q]
    PROVE  /\ row \in RowTypes[q]
           /\ \E x \in RowTypes[q] :
                 /\ x = row \/ ~Before(q, row, x)
                 /\ RowSeverities(q, x) \subseteq SeveritiesOf(c, back')
<1>1. q \in Queries /\ RowsFit(held', back') /\ Returns(q, held'[q], back'[q])
  BY QueriesOfCategory, RowsEffect
<1>2. IsFiniteSet(held'[q]) /\ \A x \in held'[q] : x \in RowTypes[q]
  BY <1>1, RowsAreFinite DEF RowsFit
<1>3. PICK x \in back'[q] : x = row \/ ~Before(q, row, x)
  BY <1>1, <1>2, SomeRowInFront DEF TypeOK
<1>4. RowSeverities(q, x) \subseteq SeveritiesOf(c, back')
  BY DEF SeveritiesOf
<1>5. x \in RowTypes[q]
  BY <1>1, <1>2 DEF RowsFit
<1> QED
  BY <1>2, <1>3, <1>4, <1>5

LEMMA RowsAreReported ==
    ASSUME TypeOK, NEW c \in CategoryNames \ {"keeper", "storage", "write_quality"},
           QueryRows(c)
    PROVE  OrderSurvivesLimit'
<1> DEFINE told == SeveritiesOf(c, back')
<1>0. Last'.severity = Severest(told)
  BY LastOfRows DEF TypeOK, Told
<1>s. /\ "CRITICAL" \in told => Last'.severity = "CRITICAL"
      /\ "WARN" \in told => Last'.severity \in {"WARN", "CRITICAL"}
  <2>1. /\ "CRITICAL" \in told => Severest(told) = "CRITICAL"
        /\ "WARN" \in told => Severest(told) \in {"WARN", "CRITICAL"}
    BY SeverestCovers
  <2> HIDE DEF told
  <2> QED
    BY <1>0, <2>1
<1> HIDE DEF told
<1>q. {"replica", "partitions", "merges"} \subseteq Queries
  BY DEF Queries
<1>r. \A x \in RowTypes["replica"] : x.delay \in Nat
  BY DEF RowTypes
<1>p. \A x \in RowTypes["partitions"] : x.active \in Nat
  BY DEF RowTypes
<1>m. \A x \in RowTypes["merges"] : x.elapsed \in Nat
  BY DEF RowTypes
<1>t. /\ Thresholds.delayWarn \in Nat /\ Thresholds.delayCritical \in Nat
      /\ Thresholds.partsWarn \in Nat /\ Thresholds.elapsedWarn \in Nat
  BY ThresholdsAssumption
<1>1. ASSUME NEW row \in held'["replica"]
      PROVE  /\ row.delay >= Thresholds.delayWarn => Last'.severity \in {"WARN", "CRITICAL"}
             /\ row.delay >= Thresholds.delayCritical => Last'.severity = "CRITICAL"
  <2>1. "replica" \in QueriesOf(c)
    BY <1>1, <1>q, RowsEffect
  <2>2. row \in RowTypes["replica"]
    BY <1>1, <2>1, RowIsCovered
  <2>3. PICK x \in RowTypes["replica"] :
          (x = row \/ ~Before("replica", row, x)) /\ RowSeverities("replica", x) \subseteq told
    BY <1>1, <2>1, RowIsCovered DEF told
  <2>4. x.delay >= row.delay /\ x.delay \in Nat /\ row.delay \in Nat
    BY <2>2, <2>3, <1>r, OrderOfReplicas
  <2>5. CASE row.delay >= Thresholds.delayCritical
    <3>1. "CRITICAL" \in told
      BY <2>3, <2>4, <2>5, <1>t, RowLevels
    <3> QED
      BY <3>1, <1>s
  <2>6. CASE row.delay >= Thresholds.delayWarn
    <3>1. RowSeverities("replica", x) \cap {"WARN", "CRITICAL"} # {}
      BY <2>3, <2>4, <2>6, <1>t, RowLevels
    <3>2. "WARN" \in told \/ "CRITICAL" \in told
      BY <2>3, <3>1
    <3> QED
      BY <3>2, <1>s, <2>5
  <2> QED
    BY <2>5, <2>6
<1>2. ASSUME NEW row \in held'["partitions"], row.active >= Thresholds.partsWarn
      PROVE  Last'.severity \in {"WARN", "CRITICAL"}
  <2>1. "partitions" \in QueriesOf(c)
    BY <1>2, <1>q, RowsEffect
  <2>2. row \in RowTypes["partitions"]
    BY <1>2, <2>1, RowIsCovered
  <2>3. PICK x \in RowTypes["partitions"] :
          (x = row \/ ~Before("partitions", row, x)) /\ RowSeverities("partitions", x) \subseteq told
    BY <1>2, <2>1, RowIsCovered DEF told
  <2>4. x.active >= row.active /\ x.active \in Nat /\ row.active \in Nat
    BY <2>2, <2>3, <1>p, OrderOfPartitions
  <2>5. "WARN" \in told
    BY <1>2, <2>3, <2>4, <1>t, RowLevels
  <2> QED
    BY <2>5, <1>s
<1>3. ASSUME NEW row \in held'["merges"], row.elapsed >= Thresholds.elapsedWarn
      PROVE  Last'.severity \in {"WARN", "CRITICAL"}
  <2>1. "merges" \in QueriesOf(c)
    BY <1>3, <1>q, RowsEffect
  <2>2. row \in RowTypes["merges"]
    BY <1>3, <2>1, RowIsCovered
  <2>3. PICK x \in RowTypes["merges"] :
          (x = row \/ ~Before("merges", row, x)) /\ RowSeverities("merges", x) \subseteq told
    BY <1>3, <2>1, RowIsCovered DEF told
  <2>4. x.elapsed >= row.elapsed /\ x.elapsed \in Nat /\ row.elapsed \in Nat
    BY <2>2, <2>3, <1>m, OrderOfMerges
  <2>5. "WARN" \in told
    BY <1>3, <2>3, <2>4, <1>t, RowLevels
  <2> QED
    BY <2>5, <1>s
<1> QED
  BY <1>1, <1>2, <1>3 DEF OrderSurvivesLimit

LEMMA OrderStep == TypeOK /\ Nowhere /\ OrderSurvivesLimit /\ [Next]_vars
                     => Nowhere' /\ OrderSurvivesLimit'
<1> SUFFICES ASSUME TypeOK, Nowhere, OrderSurvivesLimit, [Next]_vars
             PROVE  Nowhere' /\ OrderSurvivesLimit'
  OBVIOUS
<1>p. After("keeper") = "storage" /\ After("storage") = "replica"
  <2>1. /\ Categories[1] = "keeper" /\ Categories[2] = "storage" /\ Categories[3] = "replica"
    BY DEF Categories
  <2>2. Position("keeper") = 1 /\ Position("storage") = 2
    BY <2>1, PositionOfPlace
  <2> QED
    BY <2>1, <2>2 DEF After
<1>0. held' = Nothing => Nowhere' /\ OrderSurvivesLimit'
  BY Columns DEF Nowhere, OrderSurvivesLimit, Queries
<1>1. CASE Receive \/ GetCluster \/ Keeper \/ NoServer
  BY <1>0, <1>1 DEF Receive, GetCluster, Keeper, NoServer, Nowhere
<1>2. CASE ListPods \/ Storage
  BY <1>0, <1>2 DEF ListPods, Storage, CouldNotRead, NoRows, Nowhere
<1>3. CASE WriteQuality \/ Finalize
  BY <1>0, <1>3 DEF WriteQuality, Finalize, NoRows
<1>4. ASSUME NEW c \in CategoryNames, QueryFails(c) PROVE Nowhere' /\ OrderSurvivesLimit'
  BY <1>0, <1>4 DEF QueryFails, CouldNotRead, NoRows
<1>5. ASSUME NEW c \in CategoryNames \ {"keeper", "storage", "write_quality"}, QueryRows(c)
      PROVE  Nowhere' /\ OrderSurvivesLimit'
  <2>1. step' = After(c)
    BY <1>5 DEF QueryRows, Report
  <2>2. Position(c) >= 3
    <3>1. Position(c) \in 1 .. 9 /\ Categories[Position(c)] = c
      BY PlaceOf
    <3>2. Categories[1] = "keeper" /\ Categories[2] = "storage"
      BY DEF Categories
    <3> QED
      BY <1>5, <3>1, <3>2
  <2>3. step' \notin {"idle", "cluster", "pods", "refused", "keeper", "storage", "replica"}
    <3>1. step' \in CategoryNames /\ Position(step') = Position(c) + 1
      BY <2>1, NextPlace
    <3>2. /\ Categories[1] = "keeper" /\ Categories[2] = "storage" /\ Categories[3] = "replica"
      BY DEF Categories
    <3>3. Position("keeper") = 1 /\ Position("storage") = 2 /\ Position("replica") = 3
      BY <3>2, PositionOfPlace
    <3>4. Position(c) \in 1 .. 9
      BY PlaceOf
    <3> QED
      BY <2>2, <3>1, <3>3, <3>4, Nine
  <2> QED
    BY <1>5, <2>3, RowsAreReported DEF Nowhere
<1>6. CASE Expire \/ UNCHANGED vars
  BY <1>6 DEF Expire, vars, Nowhere, OrderSurvivesLimit, Last
<1> QED
  BY <1>1, <1>2, <1>3, <1>4, <1>5, <1>6 DEF Next

(* However few rows a request asks for, the limit does not hide what a     *)
(* query is sorted by: a late replica, a partition of many parts or a long *)
(* merge is at least WARN, and a very late replica CRITICAL.               *)
THEOREM LimitHidesNoneOfThese == Spec => []OrderSurvivesLimit
<1>1. Init => Nowhere /\ OrderSurvivesLimit
  BY NothingIsHidden DEF Init, Nowhere
<1> QED
  BY <1>1, TypeInit, TypeStep, OrderStep, PTL DEF Spec
=============================================================================
