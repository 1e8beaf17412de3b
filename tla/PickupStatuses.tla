--------------------------- MODULE PickupStatuses ---------------------------
(***************************************************************************)
(* The states of a pickup request and its table of legal transitions,      *)
(* from backend/app/models/enums.py.                                       *)
(***************************************************************************)

PickupStatus ==
    {"REQUESTED", "ASSIGNED", "EN_ROUTE", "ARRIVED",
     "COLLECTED", "FAILED", "MISSED", "CANCELLED"}

\* The status of a pickup whose row has not been inserted.
Absent == "ABSENT"

PICKUP_TRANSITIONS ==
    [s \in PickupStatus |->
        CASE s = "REQUESTED" -> {"ASSIGNED", "CANCELLED"}
          [] s = "ASSIGNED"  -> {"EN_ROUTE", "CANCELLED", "MISSED"}
          [] s = "EN_ROUTE"  -> {"ARRIVED", "FAILED", "MISSED"}
          [] s = "ARRIVED"   -> {"COLLECTED", "FAILED"}
          [] OTHER           -> {}]

=============================================================================
