SPECIFICATION Spec
CONSTANTS
    k1 = k1
    k2 = k2
    u = u
    server = server
    cli = cli
    s1 = s1
    s2 = s2
    c = c
    Keys = {k1, k2}
    Users = {u}
    Owner <- OneUser
    Processes = {server, cli}
    Servers = {server}
    Actors = {s1, s2, c}
    Home <- Homes
    TTL = 1
    MaxTime = 1
    Faults = {"save", "io", "crash", "delete"}
    None = None
SYMMETRY AnyOrder
INVARIANTS
    OneActivePerUser
    StaleIsNoticed
PROPERTIES
    ImplementsRegister
    LookupTimely
