-------------------------- MODULE MCBondingDriver --------------------------
(* Instances of BondingDriver for TLC. *)
EXTENDS BondingDriver

Lowest(S) == CHOOSE t \in S : \A u \in S : t <= u

\* Bound on Water's choice: molecules are made of the unbonded atoms with the
\* lowest numbers.
LowestAtomsFirst ==
    \A m \in molecules' \ molecules :
        LET hs == W!Unbonded("h")
            h1 == Lowest(hs)
        IN  /\ m.h1 = h1
            /\ m.h2 = Lowest(hs \ {h1})
            /\ m.o = Lowest(W!Unbonded("o"))
=============================================================================
