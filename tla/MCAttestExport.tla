--------------------------- MODULE MCAttestExport ---------------------------
(* A case, which the second version of the drafts drops for a federal rule. *)
EXTENDS AttestExport

CONSTANTS case, rule, clerk

TwoDrafts == [d \in 0..2 |-> CASE d = 0 -> {} [] d = 1 -> {case} [] OTHER -> {rule}]
=============================================================================
