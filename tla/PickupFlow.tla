----------------------------- MODULE PickupFlow -----------------------------
(***************************************************************************)
(* What the pickup service promises of each pickup, one atomic step at a   *)
(* time: its stage moves only along PICKUP_TRANSITIONS, and the outcome of *)
(* the collection is recorded at most once, together with the stage it     *)
(* stands for and with the points it earns.                                *)
(***************************************************************************)
EXTENDS PickupStatuses, Naturals

CONSTANT Pickups    \* the pickups that may ever be requested

VARIABLES
    stage,          \* where each pickup is in its life
    outcome,        \* what its proof of collection says, if there is one
    points          \* the points credited for it

flowVars == <<stage, outcome, points>>

Outcomes == {"none", "success", "failure"}

FlowInit ==
    /\ stage = [p \in Pickups |-> Absent]
    /\ outcome = [p \in Pickups |-> "none"]
    /\ points = [p \in Pickups |-> 0]

Open(p) ==
    /\ stage[p] = Absent
    /\ stage' = [stage EXCEPT ![p] = "REQUESTED"]
    /\ UNCHANGED <<outcome, points>>

Legal(p, s) == stage[p] # Absent /\ s \in PICKUP_TRANSITIONS[stage[p]]

\* A change of stage that records no outcome.
Advance(p, s) ==
    /\ Legal(p, s)
    /\ stage' = [stage EXCEPT ![p] = s]
    /\ UNCHANGED <<outcome, points>>

\* The collector proves the collection: the one step that may credit points.
Prove(p) ==
    /\ Legal(p, "COLLECTED")
    /\ outcome[p] = "none"
    /\ stage' = [stage EXCEPT ![p] = "COLLECTED"]
    /\ outcome' = [outcome EXCEPT ![p] = "success"]
    /\ \E n \in 0 .. 1 : points' = [points EXCEPT ![p] = n]

\* The collector reports that the collection failed.
Disprove(p) ==
    /\ Legal(p, "FAILED")
    /\ outcome[p] = "none"
    /\ stage' = [stage EXCEPT ![p] = "FAILED"]
    /\ outcome' = [outcome EXCEPT ![p] = "failure"]
    /\ UNCHANGED points

FlowNext ==
    \E p \in Pickups :
        \/ Open(p)
        \/ \E s \in PickupStatus : Advance(p, s)
        \/ Prove(p)
        \/ Disprove(p)

FlowSpec == FlowInit /\ [][FlowNext]_flowVars

=============================================================================
