----------------------------- MODULE PanelFold ------------------------------
(***************************************************************************)
(* fold_objection_results: the votes a judge panel casts on the objections *)
(* of a draft.  An objection is its basis; a ruling is [basis, survives].  *)
(***************************************************************************)
EXTENDS FiniteSetsExt, SequencesExt

CONSTANTS
    Asserted,       \* the objections a draft may assert, in order
    Opinions        \* the rulings a judge may give

ASSUME PanelsAreLists == \A list \in Asserted \cup Opinions : list \in Seq(Range(list))

Nothing == 0

Reused(aligned, rulings) == DOMAIN rulings

\* a ruling is consumed once: by an objection on its basis first
Free(aligned, rulings) == (DOMAIN rulings) \ Range(aligned)

ClaimByBasis(objections, rulings, aligned, i) ==
    LET same == {j \in Free(aligned, rulings) : rulings[j].basis = objections[i]}
    IN  IF same = {} THEN aligned
        ELSE [aligned EXCEPT ![i] = IF i \in same THEN i ELSE Min(same)]

\* then by whatever objection is left at its position
ClaimByPlace(rulings, aligned, i) ==
    IF aligned[i] = Nothing /\ i \in Free(aligned, rulings)
    THEN [aligned EXCEPT ![i] = i] ELSE aligned

\* what is aligned after k objections of the first loop, and then of the second
Passes(objections, rulings) ==
    LET n == Len(objections)
        pass[k \in 0..2 * n] ==
          IF k = 0 THEN [i \in DOMAIN objections |-> Nothing]
          ELSE IF k <= n THEN ClaimByBasis(objections, rulings, pass[k - 1], k)
          ELSE ClaimByPlace(rulings, pass[k - 1], k - n)
    IN  pass

Align(objections, rulings) == Passes(objections, rulings)[2 * Len(objections)]

Aligned == [objections \in Asserted |-> [rulings \in Opinions |-> Align(objections, rulings)]]

\* heard : the rulings of each judge who has answered
Votes(objections, heard, i) == {j \in DOMAIN heard : Aligned[objections][heard[j]][i] # Nothing}

Survivals(objections, heard, i) ==
    {j \in Votes(objections, heard, i) : heard[j][Aligned[objections][heard[j]][i]].survives}

\* fewer survive than one in two: restructure_threshold is 0.5
Weak(objections, heard) ==
    {i \in DOMAIN objections :
        2 * Cardinality(Survivals(objections, heard, i))
            < Cardinality(Votes(objections, heard, i))}
=============================================================================
