------------------------------- MODULE Water -------------------------------
(***************************************************************************)
(* What hydrogen(), oxygen() and Bond() of Lab-A-Bonding promise, with no   *)
(* locks, lists or condition variables: atoms arrive, two hydrogens and one *)
(* oxygen that are in no molecule become a molecule in one step, and an     *)
(* atom leaves only as part of a molecule.  Bonding.tla implements it.      *)
(***************************************************************************)
EXTENDS Integers, FiniteSets

CONSTANT Atoms      \* the ids of the atoms that may arrive

VARIABLES
    kind,       \* kind[t]: "none" until t arrives, then "h" or "o"
    molecules,  \* the molecules formed so far
    left        \* the atoms whose thread has returned

vars == <<kind, molecules, left>>

Members(m) == {m.h1, m.h2, m.o}

Bonded == UNION {Members(m) : m \in molecules}

Unbonded(k) == {t \in Atoms : kind[t] = k} \ Bonded

Init ==
    /\ kind = [t \in Atoms |-> "none"]
    /\ molecules = {}
    /\ left = {}

Arrive(t, k) ==
    /\ kind[t] = "none"
    /\ kind' = [kind EXCEPT ![t] = k]
    /\ UNCHANGED <<molecules, left>>

Form ==
    /\ \E h1, h2 \in Unbonded("h"), o \in Unbonded("o") :
         /\ h1 # h2
         /\ molecules' = molecules \cup {[h1 |-> h1, h2 |-> h2, o |-> o]}
    /\ UNCHANGED <<kind, left>>

Leave(t) ==
    /\ t \in Bonded \ left
    /\ left' = left \cup {t}
    /\ UNCHANGED <<kind, molecules>>

Next ==
    \/ \E t \in Atoms, k \in {"h", "o"} : Arrive(t, k)
    \/ Form
    \/ \E t \in Atoms : Leave(t)

Spec == Init /\ [][Next]_vars

\* No atom is made to arrive, but a molecule that can form does, and each of
\* its atoms leaves.
FairSpec ==
    /\ Spec
    /\ WF_vars(Form)
    /\ \A t \in Atoms : WF_vars(Leave(t))
=============================================================================
