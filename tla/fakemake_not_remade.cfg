SPECIFICATION Spec
CONSTANTS
    c1 = c1
    c2 = c2
    h = h
    CFiles = {c1, c2}
    HFiles = {h}
    FMakefiles <- OneDescription
    MaxTime = 2
    MaxChanges = 1
PROPERTY RemadeAfterCompiling
