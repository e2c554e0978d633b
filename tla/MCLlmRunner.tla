---------------------------- MODULE MCLlmRunner ----------------------------
(* Small instances of LlmRunner for TLC. *)
EXTENDS LlmRunner, TLC

CONSTANTS w1, w2, r1, r2

WorkerSymmetry == Permutations({w1, w2})

WorkerAndRunSymmetry == Permutations({w1, w2}) \cup Permutations({r1, r2})
=============================================================================
