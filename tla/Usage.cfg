SPECIFICATION Spec
CONSTANTS
    Digests = {2}
    SizeOf <- MCSizeOf
    Roots = {r1}
    AddCauses = {1}
    RemoveCauses = {2}
    Removers = {p1, p2}
    Lag = 1
    MaxTime = 4
    MaxChanges = 3
    Queries <- MCQueries
    MaxWindow = 2
    MaxSamples = 2
    MaxScanRows = 2
    PageSize = 1
    Attempts = 2
    MaxQueries = 1
INVARIANTS TypeOK BytesBalance UploadsBalance
PROPERTIES SeriesExact UnstableJustified
CHECK_DEADLOCK FALSE
