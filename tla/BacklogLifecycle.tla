--------------------------- MODULE BacklogLifecycle ---------------------------
(***************************************************************************)
(* What the backlog promises about a task's entries                        *)
(* (docs/architecture/state-models.md, app/backlog/domain.py               *)
(* validate_transition), without durations, plans, locks or requests: at   *)
(* most one entry is open, an open entry may be put off, taken up again or *)
(* closed, and a closed one is history.                                    *)
(***************************************************************************)
CONSTANT Entry

VARIABLE status  (* of each entry, "absent" before it is filed             *)

OpenStatus == {"active", "deferred"}

Init == status = [e \in Entry |-> "absent"]

File(e) ==
  /\ \A f \in Entry : status[f] \notin OpenStatus
  /\ status[e] = "absent"
  /\ status' = [status EXCEPT ![e] = "active"]

Turn(e, s) ==
  /\ status[e] \in OpenStatus
  /\ status' = [status EXCEPT ![e] = s]

Next ==
  \E e \in Entry :
    \/ File(e)
    \/ \E s \in {"active", "deferred", "resolved", "cancelled"} : Turn(e, s)

Spec == Init /\ [][Next]_status
=============================================================================
