--------------------------- MODULE SystemProofs ---------------------------
(***************************************************************************)
(* The program bonding, for any number of molecules and any limit on the    *)
(* threads outstanding: what is proved of bonding.c in BondingProofs.tla    *)
(* and of bonding-driver.c in DriverProofs.tla holds of the two together.   *)
(* Each is proved over an abstraction of the other; here the abstractions   *)
(* are discharged.                                                          *)
(***************************************************************************)
EXTENDS BondingSystem, TLAPS

\* The proofs about bonding.c, and those about the driver over Water's atoms.
BP == INSTANCE BondingProofs
DP == INSTANCE DriverProofs WITH
        molecules <- {mol[t] : t \in Atoms} \ {B!NoMolecule},
        left <- {t \in Atoms : pc[t] = "exited"}

SInv == BP!IInv /\ DP!IInv

-----------------------------------------------------------------------------
(* The two modules' names for the same things *)

\* -1 is no thread's number.
LEMMA MinusOneIsNoAtom == -1 \notin Atoms
  BY DEF Atoms

\* Both number the threads from 0.
LEMMA SameAtoms == DP!Atoms = Atoms
  BY DEF DP!Atoms, DP!NumAtoms, Atoms

\* The actions of Bonding.tla are those BondingProofs.tla is about ...
LEMMA SameBonding ==
    ASSUME NEW t \in Atoms
    PROVE  /\ \A k : B!Spawn(t, k) => BP!Spawn(t, k)
           /\ B!HydrogenBonds(t) => BP!HydrogenBonds(t)
           /\ B!HydrogenWaits(t) => BP!HydrogenWaits(t)
           /\ B!OxygenBonds(t) => BP!OxygenBonds(t)
           /\ B!OxygenWaits(t) => BP!OxygenWaits(t)
           /\ B!Reacquire(t) => BP!Reacquire(t)
           /\ B!Unlock(t) => BP!Unlock(t)
           /\ \A r : B!Return(t, r) => BP!Return(t, r)
<1>1. \A k : B!Spawn(t, k) => BP!Spawn(t, k)
  BY DEF B!Spawn, BP!Spawn
<1>2. B!HydrogenBonds(t) => BP!HydrogenBonds(t)
  BY DEF B!HydrogenBonds, B!HydrogenCanBond, B!Acquire, B!MakeMolecule, B!Members, B!Ids,
         B!Signalled, B!Free, BP!HydrogenBonds, BP!HydrogenCanBond, BP!Acquire,
         BP!MakeMolecule, BP!Members, BP!Ids, BP!Signalled, BP!Free
<1>3. B!HydrogenWaits(t) => BP!HydrogenWaits(t)
  BY DEF B!HydrogenWaits, B!HydrogenCanBond, B!Wait, B!Free,
         BP!HydrogenWaits, BP!HydrogenCanBond, BP!Wait, BP!Free
<1>4. B!OxygenBonds(t) => BP!OxygenBonds(t)
  BY DEF B!OxygenBonds, B!OxygenCanBond, B!Acquire, B!MakeMolecule, B!Members, B!Ids,
         B!Signalled, B!Free, BP!OxygenBonds, BP!OxygenCanBond, BP!Acquire,
         BP!MakeMolecule, BP!Members, BP!Ids, BP!Signalled, BP!Free
<1>5. B!OxygenWaits(t) => BP!OxygenWaits(t)
  BY DEF B!OxygenWaits, B!OxygenCanBond, B!Wait, B!Free,
         BP!OxygenWaits, BP!OxygenCanBond, BP!Wait, BP!Free
<1>6. B!Reacquire(t) => BP!Reacquire(t)
  BY DEF B!Reacquire, B!Acquire, B!Free, BP!Reacquire, BP!Acquire, BP!Free
<1>7. B!Unlock(t) => BP!Unlock(t)
  BY DEF B!Unlock, B!Free, BP!Unlock, BP!Free
<1>8. \A r : B!Return(t, r) => BP!Return(t, r)
  BY DEF B!Return, BP!Return
<1> QED
  BY <1>1, <1>2, <1>3, <1>4, <1>5, <1>6, <1>7, <1>8

\* ... and those of BondingDriver.tla, the creator's, the joiner's and Bond()'s,
\* those DriverProofs.tla is about.
LEMMA SameCreator ==
    /\ D!CreatorSleep <=> DP!CreatorSleep
    /\ D!CreatorPlan <=> DP!CreatorPlan
    /\ D!CreatorForksOxygen <=> DP!CreatorForksOxygen
    /\ D!CreatorForksHydrogen <=> DP!CreatorForksHydrogen
    /\ D!CreatorRegisters <=> DP!CreatorRegisters
    /\ D!CreatorEndsRound <=> DP!CreatorEndsRound
<1>1. D!CreatorSleep <=> DP!CreatorSleep
  BY DEF D!CreatorSleep, DP!CreatorSleep, D!atomVars, DP!atomVars, D!creatorVars,
      DP!creatorVars, D!joinerVars, DP!joinerVars, D!treeVars, DP!treeVars,
      D!Outstanding, DP!Outstanding, D!Free, DP!Free
<1>2. D!CreatorPlan <=> DP!CreatorPlan
  BY DEF D!CreatorPlan, DP!CreatorPlan, D!atomVars, DP!atomVars, D!creatorVars,
      DP!creatorVars, D!joinerVars, DP!joinerVars, D!treeVars, DP!treeVars,
      D!Creator, DP!Creator, D!Free, DP!Free, D!Outstanding, DP!Outstanding,
      D!AllForked, DP!AllForked, D!BatchSize, DP!BatchSize, D!Plan, DP!Plan,
      D!Wrap, DP!Wrap, D!DivC, DP!DivC, D!Smaller, DP!Smaller, D!NumAtoms,
      DP!NumAtoms
<1>3. D!CreatorForksOxygen <=> DP!CreatorForksOxygen
  BY DEF D!CreatorForksOxygen, DP!CreatorForksOxygen, D!CreatorForks, DP!CreatorForks,
      D!W!Arrive, DP!W!Arrive, D!atomVars, DP!atomVars, D!creatorVars,
      DP!creatorVars, D!joinerVars, DP!joinerVars, D!treeVars, DP!treeVars
<1>4. D!CreatorForksHydrogen <=> DP!CreatorForksHydrogen
  BY DEF D!CreatorForksHydrogen, DP!CreatorForksHydrogen, D!CreatorForks,
      DP!CreatorForks, D!W!Arrive, DP!W!Arrive, D!atomVars, DP!atomVars,
      D!creatorVars, DP!creatorVars, D!joinerVars, DP!joinerVars, D!treeVars,
      DP!treeVars
<1>5. D!CreatorRegisters <=> DP!CreatorRegisters
  BY DEF D!CreatorRegisters, DP!CreatorRegisters, D!atomVars, DP!atomVars,
      D!creatorVars, DP!creatorVars, D!joinerVars, DP!joinerVars, D!treeVars,
      DP!treeVars
<1>6. D!CreatorEndsRound <=> DP!CreatorEndsRound
  BY DEF D!CreatorEndsRound, DP!CreatorEndsRound, D!Free, DP!Free, D!AllForked,
      DP!AllForked, D!NumAtoms, DP!NumAtoms, D!atomVars, DP!atomVars,
      D!creatorVars, DP!creatorVars, D!joinerVars, DP!joinerVars, D!treeVars,
      DP!treeVars
<1> QED
  BY <1>1, <1>2, <1>3, <1>4, <1>5, <1>6

\* The same of joiner_thread.
LEMMA SameJoiner == D!JoinerStep <=> DP!JoinerStep
<1>1. D!JoinerLocks <=> DP!JoinerLocks
  BY DEF D!JoinerLocks, DP!JoinerLocks, D!Free, DP!Free, D!Joiner, DP!Joiner,
      D!atomVars, DP!atomVars, D!creatorVars, DP!creatorVars, D!joinerVars,
      DP!joinerVars, D!treeVars, DP!treeVars
<1>2. D!JoinerTakes <=> DP!JoinerTakes
  BY DEF D!JoinerTakes, DP!JoinerTakes, D!Free, DP!Free, D!atomVars, DP!atomVars,
      D!creatorVars, DP!creatorVars, D!joinerVars, DP!joinerVars, D!treeVars,
      DP!treeVars
<1>3. D!JoinerJoins <=> DP!JoinerJoins
  BY DEF D!JoinerJoins, DP!JoinerJoins, D!NoBond, DP!NoBond, D!Free, DP!Free,
      D!atomVars, DP!atomVars, D!creatorVars, DP!creatorVars, D!joinerVars,
      DP!joinerVars, D!treeVars, DP!treeVars
<1>4. D!JoinerAccounts <=> DP!JoinerAccounts
  BY DEF D!JoinerAccounts, DP!JoinerAccounts, D!FreesMolecule, DP!FreesMolecule,
      D!Freed, DP!Freed, D!SignalCreator, DP!SignalCreator, D!Signalled,
      DP!Signalled, D!Free, DP!Free, D!Joiner, DP!Joiner, D!atomVars, DP!atomVars,
      D!creatorVars, DP!creatorVars, D!joinerVars, DP!joinerVars, D!treeVars,
      DP!treeVars
<1>5. D!JoinerExits <=> DP!JoinerExits
  BY DEF D!JoinerExits, DP!JoinerExits, D!AllJoined, DP!AllJoined, D!NumAtoms,
      DP!NumAtoms, D!Free, DP!Free, D!atomVars, DP!atomVars, D!creatorVars,
      DP!creatorVars, D!joinerVars, DP!joinerVars, D!treeVars, DP!treeVars
<1>6. D!JoinerSleeps <=> DP!JoinerSleeps
  BY DEF D!JoinerSleeps, DP!JoinerSleeps, D!AllJoined, DP!AllJoined, D!NumAtoms,
      DP!NumAtoms, D!Free, DP!Free, D!atomVars, DP!atomVars, D!creatorVars,
      DP!creatorVars, D!joinerVars, DP!joinerVars, D!treeVars, DP!treeVars
<1> QED
  BY <1>1, <1>2, <1>3, <1>4, <1>5, <1>6 DEF D!JoinerStep, DP!JoinerStep

\* The same of Bond().
LEMMA SameBond ==
    ASSUME NEW t, NEW m
    PROVE  /\ D!BondEnter(t, m) <=> DP!BondEnter(t, m)
           /\ D!BondReturn(t) <=> DP!BondReturn(t)
<1>1. D!BondEnter(t, m) <=> DP!BondEnter(t, m)
  <2>1. D!BondError(t, m) = DP!BondError(t, m)
    BY DEF D!BondError, DP!BondError, D!Members, DP!Members, D!NoBond, DP!NoBond, D!Free,
       DP!Free
  <2>2. D!Free = DP!Free /\ D!NoBond = DP!NoBond /\ D!Atoms = DP!Atoms
    BY DEF D!Free, DP!Free, D!NoBond, DP!NoBond, D!Atoms, DP!Atoms, D!NumAtoms, DP!NumAtoms
  <2>3. D!Members(m) = DP!Members(m) /\ D!HandOver(m) = DP!HandOver(m)
    BY DEF D!Members, DP!Members, D!HandOver, DP!HandOver
  <2>4. D!Signalled(joiner) = DP!Signalled(joiner)
    BY DEF D!Signalled, DP!Signalled
  <2> QED
    BY <2>1, <2>2, <2>3, <2>4, Zenon
    DEF D!BondEnter, DP!BondEnter, D!atomVars, DP!atomVars, D!creatorVars, DP!creatorVars
<1>2. D!BondReturn(t) <=> DP!BondReturn(t)
  BY DEF D!BondReturn, DP!BondReturn, D!W!Leave, DP!W!Leave, D!W!Bonded, DP!W!Bonded,
      D!W!Members, DP!W!Members, D!atomVars, DP!atomVars, D!creatorVars,
      DP!creatorVars, D!joinerVars, DP!joinerVars, D!treeVars, DP!treeVars
<1> QED
  BY <1>1, <1>2

\* The same of the step in which a molecule is formed.
LEMMA SameForm == D!AtomsForm <=> DP!AtomsForm
  BY DEF D!AtomsForm, DP!AtomsForm, D!W!Form, DP!W!Form, D!W!Unbonded, DP!W!Unbonded,
      D!W!Bonded, DP!W!Bonded, D!W!Members, DP!W!Members, D!Atoms, DP!Atoms, D!NumAtoms,
      DP!NumAtoms, D!creatorVars, DP!creatorVars, D!joinerVars, DP!joinerVars, D!treeVars,
      DP!treeVars

\* The driver of BondingSystem.tla is the driver of DriverProofs.tla.
LEMMA SameDriver == (DP!Init => D!Init) /\ ([DP!Next]_(DP!vars) => [D!Next]_(D!vars))
<1>1. DP!Init => D!Init
  BY DEF D!Init, DP!Init, D!W!Init, DP!W!Init, D!NoBond, DP!NoBond, D!Free, DP!Free,
         D!Atoms, DP!Atoms, D!NumAtoms, DP!NumAtoms
<1>2. DP!CreatorStep => D!CreatorStep
  BY SameCreator DEF DP!CreatorStep, D!CreatorStep
<1>3. \A t : DP!AtomCallsBond(t) => D!AtomCallsBond(t)
  <2> SUFFICES ASSUME NEW t, DP!AtomCallsBond(t)
               PROVE  D!AtomCallsBond(t)
    OBVIOUS
  <2>1. t \notin returning \cup {a \in Atoms : pc[a] = "exited"}
    BY DEF DP!AtomCallsBond
  <2>2. PICK m \in {mol[a] : a \in Atoms} \ {B!NoMolecule} :
               t \in DP!Members(m) /\ DP!BondEnter(t, m)
    BY DEF DP!AtomCallsBond
  <2>3. t \in D!Members(m) /\ D!BondEnter(t, m)
    BY <2>2, SameBond DEF D!Members, DP!Members
  <2> QED
    BY <2>1, <2>2, <2>3 DEF D!AtomCallsBond
<1>4. \A t : DP!BondReturn(t) => D!BondReturn(t)
  BY SameBond
<1>5. (D!Running <=> DP!Running) /\ (DP!Terminated => D!Terminated)
  BY DEF D!Running, DP!Running, D!Terminated, DP!Terminated, D!Finished, DP!Finished,
         D!Atoms, DP!Atoms, D!NumAtoms, DP!NumAtoms, D!vars, DP!vars, D!atomVars,
         DP!atomVars, D!creatorVars, DP!creatorVars, D!joinerVars, DP!joinerVars,
         D!treeVars, DP!treeVars
<1>6. UNCHANGED DP!vars => UNCHANGED D!vars
  BY DEF D!vars, DP!vars, D!atomVars, DP!atomVars, D!creatorVars, DP!creatorVars,
         D!joinerVars, DP!joinerVars, D!treeVars, DP!treeVars
<1>7. D!Atoms = DP!Atoms
  BY DEF D!Atoms, DP!Atoms, D!NumAtoms, DP!NumAtoms
<1> QED
  BY <1>1, <1>2, <1>3, <1>4, <1>5, <1>6, <1>7, SameForm, SameJoiner DEF D!Next, DP!Next

-----------------------------------------------------------------------------
(* What Bond() is called with, and what it returns *)

\* The bond_id of a thread that has been through Bond() is its own Molecule.
LEMMA ReturnsOwnMolecule ==
    ASSUME SInv, NEW t \in Atoms, t \in returning
    PROVE  bondId[t] = mol[t]
<1>1. /\ bondId[t] \in {mol[a] : a \in Atoms} \ {B!NoMolecule}
      /\ t \in DP!Members(bondId[t])
  BY SameAtoms DEF SInv, DP!IInv, DP!ReturnsOk, DP!NamesOk
<1>2. PICK a \in Atoms : bondId[t] = mol[a] /\ mol[a] # B!NoMolecule
  BY <1>1
<1>3. BP!HasBond(a) /\ t \in BP!Members(mol[a])
  BY <1>1, <1>2 DEF BP!HasBond, BP!NoMolecule, BP!Unset, B!NoMolecule, B!Unset,
                    BP!Members, DP!Members
<1> QED
  BY <1>2, <1>3 DEF SInv, BP!IInv, BP!Agreement

\* A thread of bonding.c calls Bond() once, with a molecule it is in.
LEMMA CallIsDrivers ==
    ASSUME SInv, NEW t \in Atoms, CallBond(t)
    PROVE  DP!AtomCallsBond(t)
<1>1. pc[t] = "bonding" /\ t \notin returning /\ D!BondEnter(t, mol[t])
  BY DEF CallBond
<1>2. BP!HasBond(t)
  BY <1>1 DEF SInv, BP!IInv, BP!IdsKnown, BP!PastBond
<1>3. t \in DP!Members(mol[t])
  BY <1>2 DEF SInv, BP!IInv, BP!Agreement, BP!Members, DP!Members
<1>4. mol[t] \in {mol[a] : a \in Atoms} \ {B!NoMolecule}
  BY <1>2 DEF BP!HasBond, BP!NoMolecule, BP!Unset, B!NoMolecule, B!Unset
<1>5. DP!BondEnter(t, mol[t])
  BY <1>1, SameBond
<1>6. t \notin returning \cup {a \in Atoms : pc[a] = "exited"}
  BY <1>1
<1> QED
  BY <1>3, <1>4, <1>5, <1>6 DEF DP!AtomCallsBond

-----------------------------------------------------------------------------
(* Every step of the program is a step of each of the two *)

\* Each step is a step of bonding.c, or does not touch it.
LEMMA BondingSteps ==
    ASSUME SInv, [Next]_vars
    PROVE  [BP!Next]_(BP!vars)
<1>1. ASSUME NEW t \in Atoms, NEW k \in {"h", "o"}, B!Spawn(t, k)
      PROVE  BP!Next
  BY <1>1, SameBonding DEF BP!Next
<1>2. ASSUME NEW t \in Atoms, B!Step(t)
      PROVE  BP!Next
  <2>1. BP!Step(t)
    BY <1>2, SameBonding DEF B!Step, BP!Step
  <2> QED
    BY <2>1 DEF BP!Next
<1>3. ASSUME NEW t \in Atoms, ReturnBond(t)
      PROVE  BP!Next
  <2>1. bondId[t] = mol[t]
    BY <1>3, ReturnsOwnMolecule DEF ReturnBond, D!BondReturn
  <2>2. BP!Return(t, mol[t])
    BY <1>3, <2>1, SameBonding DEF ReturnBond
  <2> QED
    BY <2>2 DEF BP!Next
<1>4. ASSUME UNCHANGED bondingVars
      PROVE  UNCHANGED BP!vars
  BY <1>4 DEF bondingVars, BP!vars
<1>5. ASSUME CreatorStep
      PROVE  [BP!Next]_(BP!vars)
  BY <1>1, <1>4, <1>5 DEF CreatorStep, ForkHydrogen, ForkOxygen
<1>6. ASSUME NEW t \in Atoms, AtomStep(t)
      PROVE  [BP!Next]_(BP!vars)
  BY <1>2, <1>3, <1>4, <1>6 DEF AtomStep, CallBond
<1>7. ASSUME JoinerStep \/ Terminated \/ UNCHANGED vars
      PROVE  UNCHANGED BP!vars
  BY <1>4, <1>7 DEF JoinerStep, Terminated, vars
<1> QED
  BY <1>5, <1>6, <1>7 DEF Next

\* A step of bonding.c forms a molecule, or the driver sees nothing of it.
LEMMA StepsSeenByDriver ==
    ASSUME SInv, NEW t \in Atoms, B!Step(t), UNCHANGED driverVars
    PROVE  DP!AtomsForm \/ UNCHANGED DP!vars
<1>1. UNCHANGED <<rv, glock, creator, toCreate, hToCreate, oToCreate, threadsForked,
                  threadsJoined, hSpawned, oSpawned, moleculesCreated, tids, numbers,
                  bondId, bonds, returning, joiner, joining, error>>
  <2>1. rv' = rv
    BY DEF B!Step, B!HydrogenBonds, B!HydrogenWaits, B!OxygenBonds, B!OxygenWaits,
           B!Reacquire, B!Unlock
  <2> QED
    BY <2>1 DEF driverVars
<1>2. BP!IInv
  BY DEF SInv
<1>3. ASSUME BP!HydrogenBonds(t) \/ BP!OxygenBonds(t)
      PROVE  DP!W!Form
  <2>1. BP!W!Form
    BY <1>2, <1>3, MinusOneIsNoAtom, BP!BondsForm DEF BP!AtomsAssumption, BP!Unset
  <2> QED
    BY <2>1, SameAtoms
    DEF BP!W!Form, DP!W!Form, BP!W!Unbonded, DP!W!Unbonded, BP!W!Bonded, DP!W!Bonded,
        BP!W!Members, DP!W!Members, BP!NoMolecule, B!NoMolecule, BP!Unset, B!Unset
<1>4. ASSUME BP!HydrogenWaits(t) \/ BP!OxygenWaits(t) \/ BP!Reacquire(t) \/ BP!Unlock(t)
      PROVE  UNCHANGED DP!W!vars
  <2>1. UNCHANGED BP!W!vars
    BY <1>2, <1>4, MinusOneIsNoAtom, BP!OthersAreUnseen DEF BP!AtomsAssumption, BP!Unset
  <2> QED
    BY <2>1
    DEF BP!W!vars, DP!W!vars, BP!NoMolecule, B!NoMolecule, BP!Unset, B!Unset
<1>5. ASSUME DP!W!Form
      PROVE  DP!AtomsForm
  BY <1>1, <1>5 DEF DP!AtomsForm, DP!creatorVars, DP!treeVars, DP!joinerVars
<1>6. ASSUME UNCHANGED DP!W!vars
      PROVE  UNCHANGED DP!vars
  BY <1>1, <1>6 DEF DP!vars, DP!atomVars, DP!creatorVars, DP!treeVars, DP!joinerVars, DP!W!vars
<1> QED
  BY <1>3, <1>4, <1>5, <1>6, SameBonding DEF B!Step

\* Each step is a step of the driver, or does not touch it.
LEMMA DriverSteps ==
    ASSUME SInv, [Next]_vars
    PROVE  [DP!Next]_(DP!vars)
<1>1. ASSUME UNCHANGED vars
      PROVE  UNCHANGED DP!vars
  BY <1>1 DEF vars, bondingVars, driverVars, DP!vars, DP!atomVars, DP!creatorVars,
              DP!treeVars, DP!joinerVars
<1>2. D!Running <=> DP!Running
  BY DEF D!Running, DP!Running
<1>3. ASSUME CreatorStep
      PROVE  DP!CreatorStep
  BY <1>3, SameCreator DEF CreatorStep, ForkHydrogen, ForkOxygen, DP!CreatorStep
<1>4. ASSUME JoinerStep
      PROVE  DP!JoinerStep
  BY <1>4, SameJoiner DEF JoinerStep
<1>5. ASSUME NEW t \in Atoms, AtomStep(t)
      PROVE  DP!AtomsForm \/ DP!AtomCallsBond(t) \/ DP!BondReturn(t) \/ UNCHANGED DP!vars
  <2>1. CASE B!Step(t) /\ UNCHANGED driverVars
    BY <2>1, StepsSeenByDriver
  <2>2. CASE CallBond(t)
    BY <2>2, CallIsDrivers
  <2>3. CASE ReturnBond(t)
    BY <2>3, SameBond DEF ReturnBond
  <2> QED
    BY <1>5, <2>1, <2>2, <2>3 DEF AtomStep
<1> QED
  BY <1>1, <1>2, <1>3, <1>4, <1>5, SameAtoms DEF Next, Terminated, DP!Next

-----------------------------------------------------------------------------
(* The program *)

\* The invariants hold when main() has started both driver threads.
LEMMA InitEstablishes ==
    ASSUME Init
    PROVE  SInv /\ BP!Init /\ DP!Init
<1>1. BP!Init
  BY DEF Init, B!Init, BP!Init, B!Free, BP!Free, B!NoMolecule, BP!NoMolecule, B!Unset, BP!Unset
<1>2. DP!Init
  BY DEF Init, D!Init, DP!Init, D!W!Init, DP!W!Init, D!NoBond, DP!NoBond, D!Free, DP!Free,
         D!Atoms, DP!Atoms, D!NumAtoms, DP!NumAtoms
<1>3. BP!IInv
  BY <1>1, MinusOneIsNoAtom, BP!InitEstablishes DEF BP!AtomsAssumption, BP!Unset
<1>4. DP!IInv
  BY <1>2, ArgsAssumption, DP!InitEstablishes
<1> QED
  BY <1>1, <1>2, <1>3, <1>4 DEF SInv

\* No step of the program breaks either invariant.
LEMMA NextPreserves ==
    ASSUME SInv, [Next]_vars
    PROVE  SInv'
<1>1. BP!IInv'
  BY BondingSteps, MinusOneIsNoAtom, BP!StepPreserves DEF SInv, BP!AtomsAssumption, BP!Unset
<1>2. [DP!SpuriousNext]_(DP!vars)
  BY DriverSteps DEF DP!SpuriousNext
<1>3. DP!IInv'
  BY <1>2, ArgsAssumption, DP!NextPreserves DEF SInv
<1> QED
  BY <1>1, <1>3 DEF SInv

\* The invariants of bonding.c and of the driver, of both at once.
THEOREM SystemInvariant == Spec => []SInv
<1>1. Init => SInv
  BY InitEstablishes
<1>2. SInv /\ [Next]_vars => SInv'
  BY NextPreserves
<1> QED
  BY <1>1, <1>2, PTL DEF Spec

\* The program prints no "Error ..." line, whatever order its threads run in:
\* bonding.c passes every check of Bond(), set_bond() and joiner_thread().
THEOREM SystemHasNoError == Spec => []NoError
<1>1. SInv => NoError
  BY DEF SInv, DP!IInv, DP!NoError, NoError
<1> QED
  BY <1>1, SystemInvariant, PTL

\* The driver cannot tell the threads of bonding.c from the atoms of Water: what
\* its theorems say of those holds of the program.
THEOREM SystemImplementsDriver == Spec => ImplementsDriver
<1>1. Init => D!Init
  BY InitEstablishes, SameDriver
<1>2. SInv /\ [Next]_vars => [D!Next]_(D!vars)
  BY DriverSteps, SameDriver
<1> QED
  BY <1>1, <1>2, SystemInvariant, PTL DEF Spec, ImplementsDriver, D!Spec

\* And bonding.c cannot tell the driver from one that creates threads at any
\* time, and whose Bond() returns what it is called with.
THEOREM SystemImplementsBonding == Spec => BP!Spec
<1>1. Init => BP!Init
  BY InitEstablishes
<1>2. SInv /\ [Next]_vars => [BP!Next]_(BP!vars)
  BY BondingSteps
<1> QED
  BY <1>1, <1>2, SystemInvariant, PTL DEF Spec, BP!Spec
=============================================================================
