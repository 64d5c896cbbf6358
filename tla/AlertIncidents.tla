---------------------------- MODULE AlertIncidents ----------------------------
(***************************************************************************)
(* What the alerts of KasaBuena promise about reachability (api/alerts.py: *)
(* "one incident yields one alert, not one per cycle"): the user is told   *)
(* once that a device is gone and once that it is back.  What it is told   *)
(* first may be either: a device that was away when the evaluator saw it   *)
(* first is seeded silently, and its return is announced.                  *)
(***************************************************************************)
CONSTANT Device

VARIABLE told     \* told[d]: the last thing said about d, if anything

Nothing == [d \in Device |-> "nothing"]

Init == told = Nothing

Gone(d) == told[d] # "down" /\ told' = [told EXCEPT ![d] = "down"]

Back(d) == told[d] # "up" /\ told' = [told EXCEPT ![d] = "up"]

\* The history is not kept across a restart.
Restart == told' = Nothing

Next == Restart \/ \E d \in Device : Gone(d) \/ Back(d)

Spec == Init /\ [][Next]_told

=============================================================================
