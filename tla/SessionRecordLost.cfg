SPECIFICATION Spec
CONSTANTS
    r1 = r1
    r2 = r2
    a = a
    b = b
    d = d
    k1 = k1
    k2 = k2
    v = v
    ann = ann
    bob = bob
    None = None
    Keep = Keep
    Replicas = {r1, r2}
    Requests = {a, d}
    Home <- HomeOf
    Users = {ann}
    Keys = {k1}
    Values = {v}
    Conflicts = 1
    MaxOps = 6
CHECK_DEADLOCK FALSE
INVARIANT
    AcknowledgedIsWritten
