------------------------------ MODULE TurnGates ------------------------------
(***************************************************************************)
(* The gates an answer passes before its turn is completed (GateRunner     *)
(* over the catalog), the verdict of each, and how the statuses a request  *)
(* has collected weigh in the gate ledger.  A result of the gates is a     *)
(* function from the gates evaluated to their statuses.                    *)
(***************************************************************************)
EXTENDS FiniteSets

CONSTANTS
    Whole,          \* the texts that cover every required section
    Unsupported,    \* the texts that assert what no fact and no document supports
    Citing          \* the texts that name candidate citations

GateNames == {"degeneracy", "completeness", "fabrication", "rubric"}

DependsOn(gate) == CASE gate \in {"completeness", "fabrication"} -> {"degeneracy"}
                     [] gate = "rubric" -> {"completeness", "fabrication"}
                     [] OTHER -> {}

\* GateCatalog.order: an unknown gate, or one without its dependencies, is refused
Orderable(gates) == gates \subseteq GateNames /\ \A g \in gates : DependsOn(g) \subseteq gates

\* runs older than the fabrication gate selected it without naming it
Selected(gates) ==
    IF gates = {"degeneracy", "completeness", "rubric"} THEN GateNames ELSE gates

\* the gates of one turn: a review is only looked at for whether it says anything
Gating(gates, drafted) ==
    {g \in Selected(gates) \ {"rubric"} : g = "degeneracy" \/ drafted}

\* the presence criteria of the rubric
Completeness(text) == IF text \in Whole THEN "pass" ELSE "fail"

\* every amount, date and quotation has to be in a cited fact or in the corpus
Fabrication(text) == IF text \in Unsupported THEN "fail"
                     ELSE IF text \in Citing THEN "pending" ELSE "pass"

Verdict(gate, text) == CASE gate = "completeness" -> Completeness(text)
                         [] gate = "fabrication" -> Fabrication(text)
                         [] OTHER -> "pass"

\* the medians of a panel's scores reach the threshold or they do not
PanelStatuses == {"pass", "fail"}

\* of an answer that does its work
Results(gates, drafted, said) == [g \in Gating(gates, drafted) |-> Verdict(g, said)]

\* an empty or unfinished answer halts the gates, and is discarded
Degenerate(gates) == [g \in Gating(gates, FALSE) |-> "fail"]

-----------------------------------------------------------------------------
\* the gate ledger

\* the gates of a turn that keep a document from being served
BlockingGates == {"fabrication", "rubric"}

\* a later result of the same gate wins
Renewed(results, newer) ==
    [g \in DOMAIN results \cup DOMAIN newer |->
        IF g \in DOMAIN newer THEN newer[g] ELSE results[g]]

Worst(statuses) == IF "fail" \in statuses THEN "fail"
                   ELSE IF "pending" \in statuses THEN "pending" ELSE "pass"
=============================================================================
