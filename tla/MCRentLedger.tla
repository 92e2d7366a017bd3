---- MODULE MCRentLedger ----
(***************************************************************************)
(* TLC instances of RentLedger: a charge of 3 due on day 0, so that it     *)
(* turns late on day 1; the year turns between the two days.               *)
(***************************************************************************)
EXTENDS Figures, TLC

CONSTANTS c1, c2, k1, k2, ref1

MCExpected == [c \in Charges |-> 3]
MCDueDate == [c \in Charges |-> 0]
MCPeriodOf == [c \in Charges |-> IF c = c1 THEN 2025 ELSE 2026]
MCYearOf == [d \in Days |-> 2025 + d]

Body(c, amount, date, key, ref) ==
    [charge |-> c, amount |-> amount, date |-> date, key |-> key, ref |-> ref]

\* Part payments that do not all fit, a retry under one key, one reference on
\* two charges, one receipt book for two charges, back-dated and future days.
MCFewInputs == {Body(c1, 2, 0, k1, None), Body(c1, 1, 1, k2, ref1), Body(c2, 3, 0, k1, ref1)}
MCInputs == MCFewInputs \cup {Body(c1, 1, 0, None, None)}

\* ... and an amount of zero.
MCBadInputs == MCInputs \cup {Body(c1, 0, 0, None, None)}

MCSymmetry == Permutations(Creates) \cup Permutations(Voids)
=============================
