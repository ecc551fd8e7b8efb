SPECIFICATION Spec
CONSTANTS
    s1 = s1
    s2 = s2
    Stack = {s1, s2}
    HostIP = {h1, h2}
    NoHost = NoHost
    Unread = Unread
    Interval = 2
    Timeout = 6
    MaxDelay = 1
    MaxLost = 1
    Reach <- ToObserver
    Queries <- ToObserver
    Faulty = {s1}
INVARIANTS TypeOK Departed Converged
PROPERTY DroppedOnlyWhenSilent
SYMMETRY Symmetry
