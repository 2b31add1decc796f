--------------------------- MODULE MCMatterVault ----------------------------
(* One container with a local driver, a clerk and an operator who runs the  *)
(* backup, restore and close commands one at a time.                        *)
EXTENDS MatterVault, TLC

CONSTANTS driver, clerk, operator, box

AllProcs == {driver, clerk, operator}
OneBox   == [p \in AllProcs |-> box]
=============================================================================
