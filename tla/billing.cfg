\* One lease over two months, the button against the nightly job, under the
\* scheduler's fairness.
SPECIFICATION FairBillingSpec
CONSTANTS
    l1 = l1
    b1 = b1
    j1 = j1
    None = None
    Leases = {l1}
    Buttons = {b1}
    Jobs = {j1}
    Rents = {1, 2}
    Starts = {0, 1, 2}
    Ends = {1, 3}
    Months = {0, 1}
    FirstDay <- MCFirstDay
    FinalDay <- MCFinalDay
    DueDay = 0
    LastDay = 3
CHECK_DEADLOCK FALSE
INVARIANTS OneChargePerMonth
PROPERTIES ChargesStand SignedIsBilled
