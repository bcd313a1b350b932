---------------------------- MODULE MCOrderRoutes ----------------------------
(* Bodies for the model of the order routes.                                  *)
EXTENDS OrderRoutes, TLC

CONSTANTS k1

Body == [kind |-> "market", key |-> k1, size |-> 2, lev |-> "none", reduce |-> FALSE,
         confirm |-> TRUE, signalOverride |-> FALSE, policyOverride |-> FALSE]
MCShapes ==
  {[Body EXCEPT !.lev = "fine"],
   [Body EXCEPT !.kind = "limit", !.size = 0, !.signalOverride = TRUE, !.policyOverride = TRUE],
   [Body EXCEPT !.reduce = TRUE, !.size = 1]}
MCSymmetry == Permutations(Requests)
=============================================================================
