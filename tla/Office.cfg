SPECIFICATION Spec
CONSTANTS
    None = None
    tA = tA
    tB = tB
    s1 = s1
    a1 = a1
    a2 = a2
    b1 = b1
    d1 = d1
    d2 = d2
    d3 = d3
    v1 = v1
    v2 = v2
    c1 = c1
    c2 = c2
    r1 = r1
    r2 = r2
    o1 = o1
    o2 = o2
    Desks = {"regions", "freight", "approval", "vehicles", "drivers", "categories", "platform", "tenants", "intake", "notifications", "proofs"}
    Handlers = {h1, h2}
    Quoters = {q1}
    Tenants = {tA, tB}
    Users = {s1, a1, a2, b1}
    Drivers = {d1, d2, d3}
    Vehicles = {v1, v2}
    Categories = {c1, c2}
    Ids = {r1, r2}
    TenantOf <- MCTenantOf
    Names <- MCNames
    Fold <- MCFold
    Ceps <- MCCeps
    Text <- MCText
    Number <- MCText
    Drafts <- MCDrafts
    Patches <- MCPatches
    Baskets <- MCBaskets
    Valor <- MCValor
    Peso <- MCPeso
    CategoryValue = 5
    Distances = {3, 8}
    Settings <- MCSettings
    SettingsPatches <- MCSettingsPatches
    Keys = {1, 2}
    Root = s1
    Bodies <- MCBodies
    Inviters = {s1}
    Numbers = {1, 2, 3}
    Files <- MCFiles
    Sockets = {k1, k2, k3}
    Notes = {n1, n2}
    Uid <- MCUid
    Orders = {o1, o2}
    Extensions = {"jpg", "png"}
    LastMoment = 1
SYMMETRY HandlersAreAlike
INVARIANTS
    RegionsClashOnlyByRace
    FreightAgreesWithStatistics
    FleetIsWhole
    CodesAreConsecutive
    AnswersAreTrue
    SocketsAreFound
    ProofsHaveTheirPicture
PROPERTIES
    LastOneStays
CHECK_DEADLOCK FALSE
