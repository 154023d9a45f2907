SPECIFICATION CatalogueSpec
CONSTANTS
    a = a
    b = b
    front = front
    ga = ga
    gb = gb
    knowledge = knowledge
    web = web
    kn = kn
    wb = wb
    NoUrl = NoUrl
    Down = Down
    Absent = Absent
    Urls = {a, b, front}
    Processes = {ga, gb}
    ProcessAt <- MCProcessAt
    PublicUrl <- MCPublicUrl
    ServerIds = {knowledge, web}
    Names = {kn, wb}
    Registries <- MCRegistries
INVARIANTS CatalogueInv ShownGatewayIsUsed
PROPERTY RefusedMeansNotPermitted
