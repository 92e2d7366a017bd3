\* One payment voided twice at once, beside another payment on the charge.
SPECIFICATION Spec
CONSTANTS
    Creates = {r1, r2}
    Voids = {v1, v2}
    LastDay = 1
    Inputs <- MCInputs
    c1 = c1
    c2 = c2
    Charges = {c1, c2}
    k1 = k1
    k2 = k2
    ref1 = ref1
    None = None
    Expected <- MCExpected
    DueDate <- MCDueDate
    YearOf <- MCYearOf
    PeriodOf <- MCPeriodOf
INVARIANT
    Reconciled
