----------------------------- MODULE MCConfSave ------------------------------
(***************************************************************************)
(* conf_write for one or two programs and three configurations.            *)
(***************************************************************************)
EXTENDS ConfSave, TLC

Symmetry == Permutations(Procs)
=============================================================================
