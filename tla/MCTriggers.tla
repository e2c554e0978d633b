---------------------------- MODULE MCTriggers ----------------------------
(* Small instances of Triggers for TLC. *)
EXTENDS Triggers, TLC

CONSTANTS w1, w2, daily, pipelinesOwner

OneOwner == (daily :> pipelinesOwner)

(* A condition anchored by its first registration, and one that brings its  *)
(* own start, before or after the first registration.                       *)
Every2 == {[everySeconds |-> 2, startAt |-> NoStart]}

Every2OrStart1 ==
  {[everySeconds |-> 2, startAt |-> NoStart], [everySeconds |-> 1, startAt |-> 1]}

WorkerSymmetry == Permutations({w1, w2})
=============================================================================
