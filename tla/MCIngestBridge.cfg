SPECIFICATION Spec
CONSTANTS
    Sqls = {a, b}
    Sources = {s1, s2}
    Pollers = {p1, p2}
    Conns = {c1, c2}
    None = None
    Disturbances = 2
    MaxEpoch = 4
    MaxUp = 1
INVARIANTS TypeOK HeldIsOurSql OnePoller
PROPERTIES KeepsItsEpoch Flows
CHECK_DEADLOCK FALSE
