SPECIFICATION FairSpuriousSpec
CONSTANTS
    NumMolecules = 3
    MaxOutstanding = 7
    IntMax = 2147483647
ACTION_CONSTRAINT LowestAtomsFirst
INVARIANTS TypeOK NoError OutstandingBound Balance HandedOverOnce SleepersAreOwedASignal
PROPERTIES FreedByMolecule Termination
