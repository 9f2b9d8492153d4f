SPECIFICATION Spec
CONSTANTS
    Workers = {w1}
    Requests = {r1}
    ExportIds = {e1, e2}
    ChunkSize = 2
    PageSize = 1
    MaxWrites = 2
INVARIANTS TypeOK LeftoversAreLate
PROPERTY EraseCompletes
