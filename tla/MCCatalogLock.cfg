SPECIFICATION Spec
CONSTANTS
    Procs = {p1, p2, p3}
    Inodes = {i1, i2, i3, i4}
    NoInode = NoInode
    NoProc = NoProc
SYMMETRY MCSymmetry
INVARIANTS
    TypeOK
    ExclusiveUnlessRaced
    StaleFileNeverBlocks
PROPERTIES
    RemovesOwnFile
