SPECIFICATION Spec
CONSTANTS
    Device = {d1, d2}
    Case = {c1}
    Transfer = {}
    Admin = {}
    Request = {r1}
    NomineeLists = {2}
    MaxFailedAttempts = 2
    AttemptBound = 2
    NomineeBound = 4
SYMMETRY Interchangeable
INVARIANTS OneActiveDevice
