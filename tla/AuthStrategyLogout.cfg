SPECIFICATION Spec
CONSTANTS
    q1 = q1
    q2 = q2
    i1 = i1
    i2 = i2
    i3 = i3
    i4 = i4
    Requests = {q1, q2}
    Ids = {i1, i2, i3}
    Nobody = Nobody
    None = None
    Keep = Keep
    MaxFaults = 0
PROPERTY
    LogoutEndsIdentity
