---------------------------- MODULE MCRunEngine ----------------------------
(***************************************************************************)
(* One request of three turns: a draft, the oc attack on it and the final  *)
(* rubric seat; the draft raises one gate of each taxonomy.  And two       *)
(* requests of a draft and an oc attack each, which raise no gate.         *)
(***************************************************************************)
EXTENDS RunEngine, TLC

CONSTANTS w1, w2, o1, o2, h, p

MCStageOf == <<"associate_draft", "oc_attack", "rubric_gate">>
MCBefore  == <<{}, {1}, {1, 2}>>
MCRaises  == <<{h, p}, {}, {}>>

MCStageOfTwo == <<"associate_draft", "oc_attack", "associate_draft", "oc_attack">>
MCBeforeTwo  == <<{}, {1}, {}, {3}>>
MCRaisesTwo  == <<{}, {}, {}, {}>>
=============================================================================
