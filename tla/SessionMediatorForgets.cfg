SPECIFICATION Spec
CONSTANTS
    r1 = r1
    r2 = r2
    a = a
    b = b
    c = c
    g = g
    s1 = s1
    s2 = s2
    None = None
    Replicas = {r1, r2}
    Requests = {a, b}
    Sweepers = {}
    Home <- HomeOf
    Ids = {s1}
    Lifetime = 1
    Retention = 2
    Margin = 0
    MaxTombstones = 2
    MaxPending = 1
    MaxTime = 3
PROPERTIES
    FailedRevocationIsOwed
