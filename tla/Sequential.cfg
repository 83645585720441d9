SPECIFICATION Spec

CONSTANTS
    a1 = a1
    a2 = a2
    a3 = a3
    s1 = s1
    s2 = s2
    d1 = d1
    d2 = d2
    None = None
    Failed = Failed
    Spaces = {s1, s2}
    Digests = {d1}
    Nodes = {n1, n2}
    Adds = {a1, a2, a3}
    Uploads = {u1, u2}
    Requests = {r1}
    AddSpace <- TwoSpaces
    AddDigest <- TwoSpacesDigest
    Calls = {"remove", "abort"}
    MaxRuns = 2
    MaxFaults = 1
    n1 = n1
    n2 = n2
    r1 = r1
    u1 = u1
    u2 = u2

SYMMETRY Symmetry
INVARIANT ClaimsReleased
INVARIANT DigestlessSingleUpload
CHECK_DEADLOCK FALSE
