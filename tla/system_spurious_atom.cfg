SPECIFICATION SpuriousSpec
CONSTANTS
    NumMolecules = 1
    MaxOutstanding = 3
    IntMax = 2147483647
INVARIANT NoError
