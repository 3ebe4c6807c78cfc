SPECIFICATION Spec
CONSTANTS
    Device = {d1}
    Case = {c1, c2}
    Transfer = {}
    Admin = {}
    Request = {r1}
    NomineeLists = {0, 2}
    MaxFailedAttempts = 2
    AttemptBound = 2
    NomineeBound = 4
SYMMETRY Interchangeable
PROPERTIES OrderIsFinal
