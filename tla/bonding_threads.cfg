SPECIFICATION FairSpec
CONSTANTS
    Atoms <- FiveAtoms
    a1 = a1
    a2 = a2
    a3 = a3
    a4 = a4
    a5 = a5
INVARIANTS TypeOK LockDiscipline Agreement BondHasIds NoMissedBond ListsAreTheSleepers
PROPERTIES BondedAtomsReturn ImplementsWater
CHECK_DEADLOCK FALSE
