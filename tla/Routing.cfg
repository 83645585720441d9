SPECIFICATION Spec

CONSTANTS
    Providers = {1, 2}
    Policies = {p1, p2}
    Spaces = {s1}
    Requests = {r1, r2}
    PageSize = 1
    MaxWeight = 1
    MaxChanges = 2
    None = None
    s1 = s1
    p1 = p1
    p2 = p2
    r1 = r1
    r2 = r2

SYMMETRY Symmetry
INVARIANT TypeOK
INVARIANT RoutedWithinPolicy
INVARIANT UnavailableJustified
CHECK_DEADLOCK FALSE
