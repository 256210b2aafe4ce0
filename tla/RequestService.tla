---------------------------- MODULE RequestService ----------------------------
(***************************************************************************)
(* What the executor promises about one request, without threads or locks: *)
(* it is refused, or accepted against a bounded capacity; an accepted      *)
(* request completes exactly once; its unit of capacity comes back exactly *)
(* once and never before it completed, unless submit itself failed.        *)
(***************************************************************************)
EXTENDS Naturals, FiniteSets

CONSTANTS Requests, Capacity

VARIABLES
    status,     \* status[r]: "idle", "refused", "accepted", "completed", "released"
    held        \* the requests that hold a unit of capacity

vars == <<status, held>>

Init ==
    /\ status = [r \in Requests |-> "idle"]
    /\ held = {}

Refuse(r) ==
    /\ status[r] = "idle"
    /\ status' = [status EXCEPT ![r] = "refused"]
    /\ UNCHANGED held

Accept(r) ==
    /\ status[r] = "idle"
    /\ Cardinality(held) < Capacity
    /\ status' = [status EXCEPT ![r] = "accepted"]
    /\ held' = held \cup {r}

(* submit failed after it had counted the request.                         *)
Withdraw(r) ==
    /\ status[r] = "accepted"
    /\ status' = [status EXCEPT ![r] = "refused"]
    /\ held' = held \ {r}

Complete(r) ==
    /\ status[r] = "accepted"
    /\ status' = [status EXCEPT ![r] = "completed"]
    /\ UNCHANGED held

Release(r) ==
    /\ status[r] = "completed"
    /\ status' = [status EXCEPT ![r] = "released"]
    /\ held' = held \ {r}

Next == \E r \in Requests :
          Refuse(r) \/ Accept(r) \/ Withdraw(r) \/ Complete(r) \/ Release(r)

Spec == Init /\ [][Next]_vars
=============================================================================
