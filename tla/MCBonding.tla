----------------------------- MODULE MCBonding -----------------------------
(* Instances of Bonding for TLC. *)
EXTENDS Bonding

CONSTANTS a1, a2, a3, a4, a5

FiveAtoms == {a1, a2, a3, a4, a5}
=============================================================================
