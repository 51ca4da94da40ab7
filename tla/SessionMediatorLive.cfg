SPECIFICATION LiveSpec
CONSTANTS
    r1 = r1
    r2 = r2
    a = a
    b = b
    c = c
    g = g
    s1 = s1
    s2 = s2
    None = None
    Replicas = {r1}
    Requests = {a, g}
    Sweepers = {g}
    Home <- HomeOf
    Ids = {s1, s2}
    Lifetime = 0
    Retention = 1
    Margin = 0
    MaxTombstones = 1
    MaxPending = 1
    MaxTime = 1
PROPERTIES
    OwedIsDischarged
