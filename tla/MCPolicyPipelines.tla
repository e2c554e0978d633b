------------------------- MODULE MCPolicyPipelines -------------------------
(* Small instances of PolicyPipelines for TLC. *)
EXTENDS PolicyPipelines

CONSTANTS unread, digest, summary, cyclic, c1, c2
=============================================================================
