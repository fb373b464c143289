SPECIFICATION Spec
CONSTANTS
    Codewords <- PrefixCode
    MaxCodes = 3
    FileSizes = {5}
    StatedBits = {3}
INVARIANT IncompleteIsFlagged
