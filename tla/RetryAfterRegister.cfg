SPECIFICATION Spec

CONSTANTS
    a1 = a1
    a2 = a2
    a3 = a3
    s1 = s1
    s2 = s2
    d1 = d1
    d2 = d2
    None = None
    Failed = Failed
    Spaces = {s1}
    Digests = {d1}
    Nodes = {n1, n2}
    Adds = {a1, a2}
    Uploads = {u1, u2, u3}
    Requests = {r1, r2}
    AddSpace <- SameKeySpace
    AddDigest <- SameKeyDigest
    Calls = {}
    MaxRuns = 2
    MaxFaults = 0
    n1 = n1
    n2 = n2
    r1 = r1
    r2 = r2
    u1 = u1
    u2 = u2
    u3 = u3

SYMMETRY Symmetry
INVARIANT RegisteredNotFailed
CHECK_DEADLOCK FALSE
