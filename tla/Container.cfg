SPECIFICATION LiveSpec
CONSTANTS
    sa = sa
    sb = sb
    sc = sc
    ka = ka
    kb = kb
    kc = kc
    ia = ia
    kz = kz
    None = None
    Threads = {t1, t2, t3}
    Keys = {ka, kb, kc, ia, kz}
    Bindings = {sa, sb, sc}
    Wirings <- AllWirings
    MaxFailures = 1
INVARIANTS
    OneSingleton
    NoWaitCycle
PROPERTY
    ResolveReturns
CHECK_DEADLOCK FALSE
