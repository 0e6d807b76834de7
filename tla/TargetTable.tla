---------------------------- MODULE TargetTable -----------------------------
(***************************************************************************)
(* What restores promise about the tables of a ClickHouse cluster: a       *)
(* restore claims a table that does not exist, only the restore that       *)
(* claimed a table fills it, and a table of somebody else is never filled. *)
(***************************************************************************)
EXTENDS Naturals

CONSTANTS Tables, Tasks

VARIABLES
    phase, \* where a table is between being absent and being filled
    hands  \* the restores that created the table or wrote to it

tableVars == <<phase, hands>>

Phases == {"absent", "foreign", "claimed", "filling", "filled"}

Init ==
    /\ phase \in [Tables -> {"absent", "foreign"}]
    /\ hands = [t \in Tables |-> {}]

Move(t, from, to) ==
    /\ phase[t] = from
    /\ phase' = [phase EXCEPT ![t] = to]

Claim(t, j) ==
    /\ Move(t, "absent", "claimed")
    /\ hands' = [hands EXCEPT ![t] = {j}]

(* No other restore gets its hands on a claimed table. *)
Fill(t) == Move(t, "claimed", "filling") /\ UNCHANGED hands
Complete(t) == Move(t, "filling", "filled") /\ UNCHANGED hands

(* Somebody else creates or drops a table. *)
Take(t) == Move(t, "absent", "foreign") /\ UNCHANGED hands
Drop(t) ==
    /\ \E p \in Phases \ {"absent"} : Move(t, p, "absent")
    /\ hands' = [hands EXCEPT ![t] = {}]

Next == \E t \in Tables :
    \/ \E j \in Tasks : Claim(t, j)
    \/ Fill(t) \/ Complete(t) \/ Take(t) \/ Drop(t)

Spec == Init /\ [][Next]_tableVars

=============================================================================
