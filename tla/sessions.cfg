\* One account, two requests at a time, two sessions.
SPECIFICATION Spec
CONSTANTS
    c1 = c1
    c2 = c2
    s1 = s1
    s2 = s2
    l1 = l1
    l2 = l2
    None = None
    Gone = Gone
    Clients = {c1, c2}
    Slots = {s1, s2}
    Links = {l1, l2}
    Invitation = l1
    Ttl = 2
    AbsoluteTtl = 3
    TouchInterval = 1
    KeepExpired = 0
    MaxFailed = 1
    Lockout = 1
    LinkTtl = 1
    LastIssue = 0
    LastDay = 3
    MaxTries = 1
CHECK_DEADLOCK FALSE
SYMMETRY MCSymmetry
INVARIANTS SlidesUnderCeiling SignedOutForEver
PROPERTIES OnlyInvitesActivate
