------------------------------ MODULE MCDesktop ------------------------------
(***************************************************************************)
(* A small instance of Desktop: one employee, one machine.                 *)
(***************************************************************************)
EXTENDS DesktopProperties, TLC

CONSTANTS a, b, emp

MCSymmetry == Permutations(Ids)
=============================================================================
