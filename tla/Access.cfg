SPECIFICATION Spec
CONSTANTS
    Accounts = {a1, a2}
    Others = {k1}
    Mailto = {a1}
    Spaces = {s1}
    Services = {w1, w2}
    Allowed = {w1}
    Requests = {r1, r2}
    Backends = {"postgres", "memory"}
    Agents = {g1}
    Attenuations <- MCAttenuations
    Confirms = {c1}
    Jobs = {j1, j2}
    MaxFails = 1
    None = None
    a1 = a1
    a2 = a2
    k1 = k1
    s1 = s1
    w1 = w1
    w2 = w2
    r1 = r1
    r2 = r2
    g1 = g1
    c1 = c1
    j1 = j1
    j2 = j2
INVARIANTS TypeOK ProvisionedOnce SubscriptionAgrees StoredIsClaimable CommandsComeWithAccount Entitled
PROPERTIES ProvisionCompletes AgreementLasts
CHECK_DEADLOCK FALSE
