-------------------------- MODULE MCDbcGraduation --------------------------
(***************************************************************************)
(* Finite instances of the graduation keeper for TLC.  The configurations  *)
(* name the pools by what they are:                                        *)
(*   v1     creator reserve and compensation (a config of before 2026-10)  *)
(*   bound  a v2 pool bound to a quote token other than SOL                *)
(*   free   a v1 pool whose fee and cut are zero                           *)
(***************************************************************************)
EXTENDS DbcGraduationRefines

CONSTANTS v1, bound, free
=============================================================================
