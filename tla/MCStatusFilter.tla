--------------------------- MODULE MCStatusFilter ---------------------------
(***************************************************************************)
(* An instance of StatusFilter for TLC: a name, another, one that begins   *)
(* with "!" (from a token with two of them), and none.                     *)
(***************************************************************************)
EXTENDS StatusFilter

TokenNames == {"healthy", "active", "!healthy", ""}

=============================================================================
