SPECIFICATION Spec
CONSTANTS
    NumMolecules = 2
    MaxOutstanding = 6
    IntMax = 2147483647
ACTION_CONSTRAINT OneRandomSequence
INVARIANT NoError
PROPERTY ImplementsDriver
