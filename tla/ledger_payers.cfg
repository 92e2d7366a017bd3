\* Three payers and one voider on two charges.
SPECIFICATION Spec
CONSTANTS
    Creates = {r1, r2, r3}
    Voids = {v1}
    c1 = c1
    c2 = c2
    Charges = {c1, c2}
    k1 = k1
    k2 = k2
    ref1 = ref1
    None = None
    LastDay = 1
    Expected <- MCExpected
    DueDate <- MCDueDate
    YearOf <- MCYearOf
    PeriodOf <- MCPeriodOf
    Inputs <- MCBadInputs
SYMMETRY MCSymmetry
INVARIANTS Reconciled GaplessReceipts NoDoubleTaking AnswersTruthful PeriodsAddUp BasesAgree
PROPERTIES ImplementsBook AppendOnly
