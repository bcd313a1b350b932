--------------------------- MODULE RecordRegister ---------------------------
(***************************************************************************)
(* What the snapshot stores promise of the records they merge by id: an    *)
(* atomic register of timestamps in which a record, once stored, is there  *)
(* for ever and is replaced by one at least as new only.                   *)
(***************************************************************************)
EXTENDS Naturals

CONSTANT Kept    (* the records the promise is about *)

VARIABLE reg     (* timestamp of each stored record, 0 if there is none *)

Init == reg \in [Kept -> Nat]

Commit ==
  /\ reg' \in [Kept -> Nat]
  /\ \A i \in Kept : reg'[i] >= reg[i]

Spec == Init /\ [][Commit]_reg
=============================================================================
