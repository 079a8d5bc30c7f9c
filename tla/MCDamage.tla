------------------------------- MODULE MCDamage -------------------------------
(***************************************************************************)
(* Damage, with interchangeable calls.                                     *)
(***************************************************************************)
EXTENDS Damage, TLC

MCSymmetry == Permutations(Calls)
=============================================================================
