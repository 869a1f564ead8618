--------------------------- MODULE MCProcessRunner ---------------------------
(***************************************************************************)
(* ProcessRunner with the constants of its configuration.                  *)
(***************************************************************************)
EXTENDS ProcessRunner

=============================================================================
