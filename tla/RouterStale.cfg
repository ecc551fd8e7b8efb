SPECIFICATION Spec
CONSTANTS
    s1 = s1
    s2 = s2
    n1 = n1
    n2 = n2
    v1 = v1
    v2 = v2
    v3 = v3
    s3 = s3
    Stack = {s1, s2}
    HostIP = {h1, h2}
    NoHost = NoHost
    Absent = Absent
    Broken = Broken
    Configured = {s1, s2}
    Subnet = {n1, n2}
    Hop = {v1, v2}
    NoHop = NoHop
    SubnetOf <- MCSubnetOf
    HopOf <- MCHopOf
    MaxFailures = 0
    MaxCrashes = 1
INVARIANT NoStaleRoute
