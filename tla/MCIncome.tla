----------------------------- MODULE MCIncome -------------------------------
(* Instances of Income for TLC.                                            *)
EXTENDS Income

IncomeSet == {0, 1, 3}
AdvanceSet == {-1, 1, 2, 7}
=============================================================================
