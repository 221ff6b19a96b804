SPECIFICATION Spec
CONSTANTS
    Null = Null
    p1 = p1
    p2 = p2
    dir = dir
    file = file
    search = search
    read = read
    Scopes = {search, read}
    Granularities = {"directory"}
    Proc = {p1, p2}
    Paths <- MCPaths
    Windows = {0, Null}
    Defaults = {0, 1}
    MaxGrants = 2
    MaxTime = 1
SYMMETRY Interchangeable
INVARIANTS
    TypeOK
    OneRevokeWins
PROPERTIES
    AccessBeginsWithGrant
    AccessEndsWithRevokeOrExpiry
    LeasesKept
