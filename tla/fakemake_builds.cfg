SPECIFICATION Spec
CONSTANTS
    c1 = c1
    c2 = c2
    h = h
    CFiles = {c1, c2}
    HFiles = {h}
    FMakefiles <- Descriptions
    MaxTime = 3
    MaxChanges = 2
INVARIANTS TypeOK ProductsAreCurrent NothingIsMadeTwice
