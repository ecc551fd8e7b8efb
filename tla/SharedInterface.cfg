SPECIFICATION FairSpec
CONSTANTS
    p1 = p1
    p2 = p2
    a1 = a1
    a10 = a10
    Router = {p1}
    Manager = {p2}
    HostIP = {h1}
    Address = {a1, a10}
    AddressOf <- MCAddressOf
    Within <- MCWithin
    MaxFailures = 1
    MaxKills = 1
    MaxStops = 2
INVARIANTS TypeOK InterfaceReady AgreedEntries
PROPERTIES StartsEventually ManagerFollows
