SPECIFICATION Spec
CONSTANTS
    s1 = s1
    s2 = s2
    n1 = n1
    n2 = n2
    v1 = v1
    v2 = v2
    v3 = v3
    s3 = s3
    Stack = {s1, s2, s3}
    HostIP = {h1, h2}
    NoHost = NoHost
    Absent = Absent
    Broken = Broken
    Configured = {s1, s2, s3}
    Subnet = {n1, n2}
    Hop = {v1, v2, v3}
    NoHop = NoHop
    SubnetOf <- ClashSubnetOf
    HopOf <- ClashHopOf
    MaxFailures = 1
    MaxCrashes = 1
INVARIANTS TypeOK TrackedIsInKernel EveryPeerReachable KernelIsExact StopLeavesNothing
SYMMETRY Symmetry
