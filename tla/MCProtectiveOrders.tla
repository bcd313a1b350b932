------------------------- MODULE MCProtectiveOrders -------------------------
(* Levels requests: one that keeps the stop and moves the targets, and one *)
(* whose target is on the wrong side of its stop.                          *)
EXTENDS ProtectiveOrders

MCLevelSets == {[sl |-> 1, tp |-> 4], [sl |-> 3, tp |-> 2]}

(* Two entries; or one, with a levels request or a cancellation, and one   *)
(* fault anywhere.                                                         *)
MCBudgets == {[entries |-> 2, levels |-> 0, cancels |-> 0, faults |-> 0],
              [entries |-> 1, levels |-> 1, cancels |-> 0, faults |-> 1],
              [entries |-> 1, levels |-> 0, cancels |-> 1, faults |-> 1]}
=============================================================================
