-------------------------- MODULE ScheduleRegistry --------------------------
(***************************************************************************)
(* What the schedule requests of upm-api-server promise: a registry of     *)
(* <<cluster, schedule>> pairs on which every request takes effect at one  *)
(* moment between its arrival and its answer, on its own pair alone.  A    *)
(* request that ends in an error may have taken effect, and a write that   *)
(* lost its caller may still do so afterwards.                             *)
(***************************************************************************)
CONSTANTS
    Requests,
    Pairs,    \* the <<cluster, schedule>> pairs of the registry
    Calls,    \* [op, pair]: requests that may be made
    NoCall

VARIABLES
    held,     \* whether a pair has its schedule
    call,     \* the request a client has made
    result,   \* "open" until the request has taken effect
    listed,   \* the pairs a list request has found
    loose     \* writes that lost their caller and may still be carried out

vars == <<held, call, result, listed, loose>>

Holders == {"absent", "managed"}

Init ==
    /\ held = [p \in Pairs |-> "absent"]
    /\ call = [r \in Requests |-> NoCall]
    /\ result = [r \in Requests |-> "idle"]
    /\ listed = [r \in Requests |-> {}]
    /\ loose = {}

Call(r) ==
    /\ call[r] = NoCall
    /\ \E c \in Calls : call' = [call EXCEPT ![r] = c]
    /\ result' = [result EXCEPT ![r] = "open"]
    /\ UNCHANGED <<held, listed, loose>>

Open(r, op) == call[r] # NoCall /\ result[r] = "open" /\ call[r].op = op
Decide(r, outcome) ==
    /\ result' = [result EXCEPT ![r] = outcome]
    /\ UNCHANGED <<call, loose>>

Create(r) ==
    /\ Open(r, "create")
    /\ \/ /\ held[call[r].pair] = "absent"
          /\ held' = [held EXCEPT ![call[r].pair] = "managed"]
          /\ Decide(r, "ACCEPTED")
       \/ held[call[r].pair] # "absent" /\ UNCHANGED held /\ Decide(r, "EXISTS")
    /\ UNCHANGED listed

List(r) ==
    /\ Open(r, "list")
    /\ listed' = [listed EXCEPT ![r] =
          {p \in Pairs : p[1] = call[r].pair[1] /\ held[p] = "managed"}]
    /\ Decide(r, "LISTED")
    /\ UNCHANGED held

Get(r) ==
    /\ Open(r, "get")
    /\ \/ held[call[r].pair] = "managed" /\ Decide(r, "SHOWN")
       \/ held[call[r].pair] = "absent" /\ Decide(r, "NOT_FOUND")
    /\ UNCHANGED <<held, listed>>

Delete(r) ==
    /\ Open(r, "delete")
    /\ \/ /\ held[call[r].pair] = "managed"
          /\ held' = [held EXCEPT ![call[r].pair] = "absent"]
          /\ Decide(r, "DELETED")
       \/ held[call[r].pair] # "managed" /\ UNCHANGED held /\ Decide(r, "NOT_FOUND")
    /\ UNCHANGED listed

Fail(r) ==
    /\ call[r] # NoCall
    /\ result' = [result EXCEPT ![r] = "ERROR"]
    /\ \/ UNCHANGED loose
       \/ /\ result[r] = "open" /\ call[r].op \in {"create", "delete"}
          /\ loose' = loose \cup {call[r]}
    /\ UNCHANGED <<held, call, listed>>

Return(r) ==
    /\ call[r] # NoCall /\ result[r] # "open"
    /\ call' = [call EXCEPT ![r] = NoCall]
    /\ result' = [result EXCEPT ![r] = "idle"]
    /\ listed' = [listed EXCEPT ![r] = {}]
    /\ UNCHANGED <<held, loose>>

Settle(c) ==
    /\ loose' = loose \ {c}
    /\ \/ UNCHANGED held
       \/ /\ c.op = "create" /\ held[c.pair] = "absent"
          /\ held' = [held EXCEPT ![c.pair] = "managed"]
       \/ /\ c.op = "delete" /\ held[c.pair] = "managed"
          /\ held' = [held EXCEPT ![c.pair] = "absent"]
    /\ UNCHANGED <<call, result, listed>>

(* An administrator deletes the CronJob of a schedule.                     *)
Withdraw(p) ==
    /\ held[p] = "managed"
    /\ held' = [held EXCEPT ![p] = "absent"]
    /\ UNCHANGED <<call, result, listed, loose>>

Next ==
    \/ \E r \in Requests : \/ Call(r) \/ Create(r) \/ List(r) \/ Get(r)
                           \/ Delete(r) \/ Fail(r) \/ Return(r)
    \/ \E c \in loose : Settle(c)
    \/ \E p \in Pairs : Withdraw(p)

Spec == Init /\ [][Next]_vars
=============================================================================
