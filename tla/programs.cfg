SPECIFICATION OneProgramSpec
CONSTANTS
    Geometries <- MCGeometries
    Addresses <- MCAddresses
    MaxAccesses = 6
    People <- MCPeople
    MaxLines = 6
    Teams <- MCTeams
    Codewords <- MCCodewords
    MaxCodes = 3
    FileSizes = {3, 4, 5}
    StatedBits = {0, 5, 9}
    Disks <- SomeDisks
    Now = 99
INVARIANTS HitsByStackDistance LinesAreThereOnce LinksAgree PrintedAfterParents BestIsMax DecodesLeafCodes
           MadeIsRight RoundTrip MisreadOnlyIfResized
