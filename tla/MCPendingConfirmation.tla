----------------------- MODULE MCPendingConfirmation -----------------------
(* PendingConfirmation with a symmetry set for runs of safety properties:  *)
(* no definition tells two dashboards, two monitors or the two sides apart *)
(* (its CHOOSEs are from singletons).                                      *)
EXTENDS PendingConfirmation, TLC

Interchangeable ==
  Permutations(Dashboards) \cup Permutations(Monitors) \cup Permutations(Sides)
=============================================================================
