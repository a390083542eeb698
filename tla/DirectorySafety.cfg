SPECIFICATION FairSpec
CONSTANTS
    Dirs <- MCDirs
    Files <- MCFiles
    Links <- MCLinks
    Names <- MCNames
    Parent <- MCParent
    Root = "root"
    Partial <- MCPartial
    Size <- MCSize
    PackTarget = 2
    Checksum = TRUE
    Destinations <- MCDestinations
    SourceFails = TRUE
    DiskFails = TRUE
    Loses = TRUE
INVARIANTS
    TypeOK
    SameTree
    ReceiptAgrees
PROPERTIES
    FilesAppearWhole
    BothEnd
