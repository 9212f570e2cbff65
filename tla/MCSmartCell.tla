----------------------------- MODULE MCSmartCell -----------------------------
(* Values of the constants of SmartCell for model checking.                *)
EXTENDS SmartCell

CONSTANTS small, large

TwoSizes == {small, large}
=============================================================================
