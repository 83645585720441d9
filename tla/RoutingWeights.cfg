SPECIFICATION Spec

CONSTANTS
    Providers = {1, 2}
    Policies = {p1}
    Spaces = {s1}
    Requests = {r1}
    PageSize = 2
    MaxWeight = 1
    MaxChanges = 0
    None = None
    s1 = s1
    p1 = p1
    r1 = r1

SYMMETRY Symmetry
INVARIANT EveryWeightSelectable
CHECK_DEADLOCK FALSE
