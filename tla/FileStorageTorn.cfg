SPECIFICATION Spec
CONSTANTS
    StackID = {s1}
    HostIP = {h1}
    NoHost = NoHost
    Timeout = 0
    Widths = {1, 3}
    Inode = {i1, i2, i3}
    NoInode = NoInode
    NoTable = NoTable
    Absent = Absent
    Broken = Broken
    MaxFaults = 0
INVARIANT ReaderNeverTorn
