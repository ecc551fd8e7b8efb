SPECIFICATION Spec
CONSTANTS
    StackID = {s1, s2}
    HostIP = {h1}
    NoHost = NoHost
    Timeout = 1
    Widths = {1, 3}
    Inode = {i1, i2, i3}
    NoInode = NoInode
    NoTable = NoTable
    Absent = Absent
    Broken = Broken
    MaxFaults = 2
INVARIANTS TypeOK SnapshotIsCurrent FreshAtRest
PROPERTIES PublishesTheMap OnlyOverlapTears LoneWriterPublishes
SYMMETRY Symmetry
