SPECIFICATION Spec
CONSTANTS
    Procs = {p1, p2}
    Inodes = {i1, i2, i3}
    NoInode = NoInode
    NoProc = NoProc
INVARIANT
    MutualExclusion
