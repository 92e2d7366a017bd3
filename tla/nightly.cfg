\* One lease through a month's end, two processes that sweep, an owner and a
\* scoped reader.
SPECIFICATION FairSpec
CONSTANTS
    l1 = l1
    j1 = j1
    w1 = w1
    w2 = w2
    o1 = o1
    s1 = s1
    None = None
    Leases = {l1}
    Buttons = {}
    Jobs = {j1}
    Rents = {1}
    Starts = {0}
    Ends = {2}
    Months = {0}
    FirstDay <- MCFirstDay
    FinalDay <- MCFinalDay
    DueDay = 0
    LastDay = 1
    Workers = {w1, w2}
    Owners = {o1}
    Scoped = {s1}
    Milestones = {1}
    Cap = 1
CHECK_DEADLOCK FALSE
INVARIANTS ToldOnce ToldWhatTheySaw OverdueToldTruly
PROPERTIES ReadStaysRead OverdueIsAnnounced
