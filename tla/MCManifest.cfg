SPECIFICATION ManifestSpec
CONSTANTS
    Null = Null
    Files = {f1, f2}
    Versions = {v1, v2}
    MaxEdits = 3
    MaxInstalls = 2
SYMMETRY Interchangeable
INVARIANTS
    ManifestTypeOK
    AcceptedIsInstalled
    RejectionHasCause
