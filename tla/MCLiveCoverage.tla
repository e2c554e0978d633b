--------------------------- MODULE MCLiveCoverage ---------------------------
(***************************************************************************)
(* LiveCoverage for TLC: a chat the account is in and one it enters later.  *)
(***************************************************************************)
EXTENDS LiveCoverage

CONSTANTS old, new

MCChats == {old, new}

MCOldChats == {old}
=============================================================================
