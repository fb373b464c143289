--------------------------- MODULE BondingSystem ---------------------------
(***************************************************************************)
(* The program bonding: the driver of BondingDriver.tla with the threads of *)
(* Bonding.tla in place of Water's abstract atoms.  An action here is an    *)
(* action of one of the two, or of both where one calls the other:          *)
(* pthread_create, the call of Bond() and its return.                       *)
(***************************************************************************)
EXTENDS Integers, Sequences, FiniteSets

CONSTANTS NumMolecules, MaxOutstanding, IntMax

Atoms == 0..(3 * NumMolecules - 1)

VARIABLES
    kind, pc, lock, hydrogens, oxygens, mol, rv,        \* Bonding.tla
    glock, creator, toCreate, hToCreate, oToCreate,     \* BondingDriver.tla
    threadsForked, threadsJoined, hSpawned, oSpawned, moleculesCreated,
    tids, numbers, bondId, bonds, returning, joiner, joining, error

B == INSTANCE Bonding

D == INSTANCE BondingDriver WITH
        molecules <- {mol[t] : t \in Atoms} \ {B!NoMolecule},
        left <- {t \in Atoms : pc[t] = "exited"}

ASSUME ArgsAssumption == D!ArgsAssumption

bondingVars == <<kind, pc, lock, hydrogens, oxygens, mol, rv>>
driverVars == <<glock, creator, toCreate, hToCreate, oToCreate, threadsForked,
                threadsJoined, hSpawned, oSpawned, moleculesCreated, tids, numbers,
                bondId, bonds, returning, joiner, joining, error>>
vars == <<bondingVars, driverVars>>

Init == B!Init /\ D!Init

\* creator_thread calls pthread_create(..., hydrogen or oxygen, ...).
ForkHydrogen ==
    /\ threadsForked \in Atoms
    /\ B!Spawn(threadsForked, "h")
    /\ D!CreatorForksHydrogen

ForkOxygen ==
    /\ threadsForked \in Atoms
    /\ B!Spawn(threadsForked, "o")
    /\ D!CreatorForksOxygen

\* The steps of the driver threads that do not touch bonding.c.
CreatorStep ==
    \/ ForkHydrogen
    \/ ForkOxygen
    \/ /\ UNCHANGED bondingVars
       /\ D!CreatorSleep \/ D!CreatorPlan \/ D!CreatorRegisters \/ D!CreatorEndsRound

JoinerStep == UNCHANGED bondingVars /\ D!JoinerStep

\* hydrogen() or oxygen() calls Bond(x->h1, x->h2, x->o).
CallBond(t) ==
    /\ UNCHANGED bondingVars
    /\ pc[t] = "bonding" /\ t \notin returning
    /\ D!BondEnter(t, mol[t])

\* Bond() returns, and with it the thread.
ReturnBond(t) == B!Return(t, bondId[t]) /\ D!BondReturn(t)

AtomStep(t) ==
    \/ B!Step(t) /\ UNCHANGED driverVars
    \/ CallBond(t)
    \/ ReturnBond(t)

Terminated ==
    /\ D!Finished \/ ~D!Running
    /\ UNCHANGED vars

Next ==
    \/ D!Running /\ CreatorStep
    \/ D!Running /\ JoinerStep
    \/ D!Running /\ \E t \in Atoms : AtomStep(t)
    \/ Terminated

Spec == Init /\ [][Next]_vars

\* As Spec, when pthread_cond_wait may also return without a signal in the
\* atoms' threads.
SpuriousSpec ==
    Init /\ [][ \/ Next
                \/ /\ D!Running
                   /\ \E t \in Atoms : B!SpuriousWakeup(t)
                   /\ UNCHANGED driverVars ]_vars

-----------------------------------------------------------------------------
\* Every check of Bond(), set_bond() and joiner_thread() passes ("to have the
\* program run to completion without any errors").
NoError == error = "none"

\* With the threads of bonding.c for Water's atoms, the driver's steps are
\* those of BondingDriver, where nothing is said of locks and lists of
\* bonding.c: what is checked there for more molecules holds here.
ImplementsDriver == D!Spec
=============================================================================
