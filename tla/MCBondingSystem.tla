-------------------------- MODULE MCBondingSystem --------------------------
(* Instances of BondingSystem for TLC. *)
EXTENDS BondingSystem

\* Bound on rand(): the atoms are created hydrogen, oxygen, hydrogen, ...
OneRandomSequence ==
    pc' # pc /\ creator = "forking" /\ creator' = "registering" =>
        kind'[threadsForked] = IF threadsForked % 3 = 1 THEN "o" ELSE "h"
=============================================================================
