SPECIFICATION Spec
CONSTANTS
    Requests = {r1, r2, r3}
    MaxId = 3
SYMMETRY Symmetry
INVARIANTS TypeOK
PROPERTIES FlipKeepsADefault EnforcementNeverCreates
