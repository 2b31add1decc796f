------------------------------ MODULE MCRunLaunch ------------------------------
(***************************************************************************)
(* Small instances of RunLaunch.  Each part has a bound of its own; all of *)
(* them together are bounded by MaxTotal.                                  *)
(***************************************************************************)
EXTENDS RunLaunch, TLC

CONSTANTS d1, d2, pdf, txt, plain, i1, f1, f2, f3, MaxTotal, MaxMixed

\* Bytes of a PDF, and bytes that are a text; either may also come as the other.
MCKind   == [d \in Docs |-> [k \in Forms |-> IF k = txt THEN "plain"
                                           ELSE IF d = d1 THEN "convertible" ELSE "manual"]]
MCPlain  == [k \in Forms |-> plain]
MCCalls  == {[role |-> TRUE, privileged |-> "no"], [role |-> FALSE, privileged |-> Unknown]}

\* One fact and two corrections of it.
Siblings == [f \in Facts |-> IF f = f1 THEN 1 ELSE 2]
MCQuotes == [f \in Facts |-> [doc |-> d2, text |-> plain]]

MCLessonTask == [p \in Lessons |-> "discovery"]

Symmetry ==
  Permutations(Editions) \cup Permutations(Notes) \cup Permutations(Setters)
    \cup Permutations(Wordings) \cup Permutations(People) \cup Permutations(Judges)
    \cup Permutations(Builders)

Total  == intakes + factOps + approvals + noteOps + learnOps + profileOps

\* All the records move together for a few operations and launches only.  A document
\* that is converted, and the corrections of a fact, go on for longer by themselves.
Together    == /\ Total <= MaxTotal /\ Total + launches <= MaxTotal + 1
               /\ intakes <= 1 /\ factOps <= 1 /\ originals[d1] = {} /\ image = i1
RecordsOnly == Total = intakes + factOps /\ launches = 0
Converting  == RecordsOnly /\ factOps = 0 /\ originals[d2] = {}
Amending    == RecordsOnly /\ intakes <= 1 /\ originals[d1] = {}
Mixed       == RecordsOnly /\ Total <= MaxMixed
Budget      == Together \/ Converting \/ Amending \/ Mixed
================================================================================
