------------------------ MODULE MCDiagnosticsReport ------------------------
(* Levels 1 and 2 are the WARN and the CRITICAL thresholds, 0 is below.    *)
EXTENDS DiagnosticsReport

MCThresholds ==
    [t \in {"delayWarn", "delayCritical", "queueWarn", "queueCritical",
            "partsWarn", "inactiveWarn", "elapsedWarn", "ageWarn"} |->
        IF t \in {"delayCritical", "queueCritical"} THEN 2 ELSE 1]

Replica(delay, queue, readonly, expired, unreadable) ==
    [delay |-> delay, queue |-> queue, readonly |-> readonly,
     expired |-> expired, unreadable |-> unreadable]
MCRows ==
    [replica |-> {Replica(d, 0, FALSE, FALSE, FALSE) : d \in 0 .. 2}
                   \cup {Replica(0, q, FALSE, FALSE, FALSE) : q \in 1 .. 2}
                   \cup {Replica(0, 0, TRUE, FALSE, FALSE), Replica(1, 0, FALSE, TRUE, TRUE)},
     replication_queue |->
         [queue : 0 .. 2, exception : BOOLEAN, unreadable : {FALSE}]
             \cup {[queue |-> 1, exception |-> TRUE, unreadable |-> TRUE]},
     tables |-> {[active |-> 1, inactive |-> 0, unreadable |-> FALSE],
                 [active |-> 0, inactive |-> 1, unreadable |-> FALSE]},
     partitions |-> {[active |-> 1, unreadable |-> FALSE], [active |-> 0, unreadable |-> TRUE]},
     merges |-> {[elapsed |-> 0, unreadable |-> FALSE], [elapsed |-> 1, unreadable |-> FALSE],
                 [elapsed |-> 0, unreadable |-> TRUE]},
     mutations |-> {[age |-> 0, done |-> TRUE, reason |-> FALSE, unreadable |-> FALSE],
                    [age |-> 1, done |-> FALSE, reason |-> FALSE, unreadable |-> FALSE],
                    [age |-> 1, done |-> FALSE, reason |-> TRUE, unreadable |-> FALSE]},
     write_client_stats |-> {[count |-> 1, user |-> TRUE, unreadable |-> FALSE],
                             [count |-> 2, user |-> FALSE, unreadable |-> FALSE]}]
=============================================================================
