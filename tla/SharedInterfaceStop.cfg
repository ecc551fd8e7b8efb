SPECIFICATION Spec
CONSTANTS
    p1 = p1
    p2 = p2
    a1 = a1
    a10 = a10
    Router = {p1, p2}
    Manager = {}
    HostIP = {h1}
    Address = {a1, a10}
    AddressOf <- MCAddressOf
    Within <- MCWithin
    MaxFailures = 0
    MaxKills = 0
    MaxStops = 1
INVARIANT KeepsInterface
