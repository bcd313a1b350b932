--------------------------- MODULE SignalCandidates ---------------------------
(* The life of a signal candidate (server/radarSignalCandidate.ts) and the two *)
(* ways the order handlers move it (server/index.ts): a candidate is a record  *)
(* of its state and of the order it was handed to, NoOrder before that.        *)

CONSTANT NoOrder

States == {"new", "validated", "actionable", "routed", "executed",
           "expired", "rejected", "postmortem_ready"}

(* ALLOWED_TRANSITIONS: postmortem_ready is the only terminal state. *)
Allowed ==
  [s \in States |->
     CASE s = "new"        -> {"validated", "rejected", "expired"}
       [] s = "validated"  -> {"actionable", "rejected", "expired"}
       [] s = "actionable" -> {"routed", "rejected", "expired"}
       [] s = "routed"     -> {"executed", "rejected", "expired"}
       [] s \in {"executed", "expired", "rejected"} -> {"postmortem_ready"}
       [] OTHER -> {}]

(* A transition the table does not allow leaves the candidate as it is; an    *)
(* order that is not given (NoOrder) keeps the one already there.             *)
Transition(c, to, order) ==
  IF to \notin Allowed[c.state] THEN c
  ELSE [state |-> to, order |-> IF order = NoOrder THEN c.order ELSE order]

(* A validated candidate is first made actionable; only an actionable one is  *)
(* routed.                                                                     *)
Route(c, order) ==
  LET ready == IF c.state = "validated" THEN Transition(c, "actionable", NoOrder) ELSE c
  IN  IF ready.state = "actionable" THEN Transition(ready, "routed", order) ELSE ready

(* The outcome of an order reaches the candidate that was handed to it. *)
Reconcile(c, order, status) ==
  IF order = NoOrder \/ c.order # order THEN c
  ELSE CASE status = "auto_order_placed" -> Transition(c, "executed", order)
         [] status = "rejected" -> Transition(c, "rejected", order)
         [] OTHER -> c

(* suggestNextSignalCandidateState: the move the context asks for, or none.   *)
(* validates and acts say that the score reaches the two thresholds.          *)
Suggested(state, expired, blocked, monitored, validates, acts) ==
  CASE Allowed[state] = {} -> {}
    [] Allowed[state] # {} /\ expired -> {"expired"}
    [] Allowed[state] # {} /\ ~expired /\ (blocked \/ ~monitored) -> {"rejected"}
    [] state = "new" /\ ~expired /\ ~blocked /\ monitored /\ validates -> {"validated"}
    [] state = "validated" /\ ~expired /\ ~blocked /\ monitored /\ acts -> {"actionable"}
    [] OTHER -> {}
===============================================================================
