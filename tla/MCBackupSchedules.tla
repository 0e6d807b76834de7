------------------------- MODULE MCBackupSchedules -------------------------
(* Clusters "a" and "a-backup-b" with schedules "b-backup-x" and "x": one  *)
(* CronJob name is shared by two pairs and may be taken by a CronJob of    *)
(* others, with the labels of one pair or with none; one is too long.      *)
EXTENDS BackupSchedules, TLC

MCPairs == {<<"a", "x">>, <<"a", "bx">>, <<"ab", "x">>, <<"ab", "bx">>}
MCNames == {"a-x", "a-b-x", "a-b-bx"}
MCResourceName ==
    [p \in MCPairs |-> IF p = <<"a", "x">> THEN "a-x"
                       ELSE IF p = <<"ab", "bx">> THEN "a-b-bx" ELSE "a-b-x"]
MCTooLong == {"a-b-bx"}
MCInitialCronJobs ==
    {f \in [MCNames -> Foreign \cup {Absent}] :
        /\ f["a-b-x"] # Absent => f["a-b-x"].pair \in {<<"ab", "x">>, Unlabelled}
        /\ f["a-x"] = Absent /\ f["a-b-bx"] = Absent}
MCSymmetry == Permutations(Requests)
=============================================================================
