---------------------------- MODULE MCStreamPath -----------------------------
(***************************************************************************)
(* StreamPath with the constants of its configurations.                    *)
(***************************************************************************)
EXTENDS StreamPath

=============================================================================
