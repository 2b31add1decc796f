-------------------------- MODULE MCStagePipeline ---------------------------
(***************************************************************************)
(* Every set of personas but one opponent under two strategies, and two    *)
(* sets under deep-core, at two rounds and one attack, bolster, judge and  *)
(* restructure; a document with every persona; three rounds with a score   *)
(* and an attack, and with two bolsters, two judges and a jury; two        *)
(* requests side by side.  The settings come from all five layers, and     *)
(* some launches are refused for what a layer gives.                       *)
(***************************************************************************)
EXTENDS StagePipeline

CONSTANTS burden, scope

\* config/defaults.yaml and a smaller adapter than the shipped ones
Defaults == [ap |-> 2, oc |-> 1, bolster |-> 1, restructure |-> 1, judges |-> 3,
             jury |-> FALSE, jurors |-> 5, panel |-> 3, mode |-> "autonomous",
             attempts |-> 3, tier |-> "moderate", cap |-> Null]

Adapter(judges) == [judges |-> judges, panel |-> 1, jury |-> FALSE, jurors |-> 1,
                    stages |-> <<"assemble">>, gates |-> GateNames,
                    rubric_id |-> "v1", deliverables |-> {"draft"}]

Matter(panels, overlay) == [mode |-> "gated", tier |-> "low", cap |-> Null,
                            panels |-> panels, overlay |-> overlay]

Config(judges, firm, matter, flags) ==
    [defaults |-> Defaults, adapter |-> Adapter(judges), allowed |-> {"jury", "jurors"},
     firm |-> [at |-> "outside", layer |-> firm], matter |-> matter, flags |-> flags]

Launch(family, strategy, personas, config, n) ==
    [family |-> family, strategy |-> strategy, personas |-> personas, config |-> config,
     units |-> n]

NoLayer == << >>
Small == Config(1, NoLayer, Matter(NoLayer, NoLayer), NoLayer)
WithJury == Matter([jury |-> TRUE], NoLayer)
Seated == Config(1, [jurors |-> 3], Matter([jury |-> TRUE, jurors |-> 2], [jurors |-> 1]),
                 NoLayer)
Long == Config(1, [ap |-> 4], Matter(NoLayer, [ap |-> 3]), [attempts |-> 1])
Large == Config(2, NoLayer, Matter([jury |-> TRUE], [ap |-> 3, bolster |-> 2]), NoLayer)

\* refused: a panel the adapter does not leave to others, a group given as null, no jurors
Refused == {Config(1, [judges |-> 2], Matter(NoLayer, NoLayer), NoLayer),
            Config(1, [panels |-> Null], WithJury, NoLayer),
            Config(1, NoLayer, Matter([jury |-> TRUE, jurors |-> 0], NoLayer), NoLayer)}

MCLaunches ==
    {Launch("discovery", s, p, Small, 1) :
        s \in {"thin-full", "adversarial-first"}, p \in SUBSET (Personas \ {"oc_partner"})}
    \cup {Launch("discovery", "deep-core", p, Small, 1) :
            p \in {{"associate", "partner", "rubric_judge"},
                   {"associate", "partner", "oc_associate", "judge"}}}
    \cup {Launch("document", s, Personas, Small, 1) :
            s \in {"thin-full", "adversarial-first"}}
    \cup {Launch("discovery", "adversarial-first", Personas \ {"oc_partner", "rubric_judge"},
                 Large, 1)}
    \cup {Launch("discovery", "thin-full", Personas \ {"oc_partner", "judge"}, Long, 1)}
    \cup {Launch("discovery", "thin-full", {"associate", "judge"}, Seated, 2)}
    \cup {Launch("discovery", "thin-full", Personas, c, 1) : c \in Refused}

MCTexts == {"t1", "t2"}
MCAsserted == {<<burden, burden>>, <<scope, burden>>}
MCAsserts == [t \in MCTexts |-> IF t = "t1" THEN <<burden, burden>> ELSE <<scope, burden>>]

Ruling(b, s) == [basis |-> b, survives |-> s]
MCOpinions == {<<Ruling(burden, TRUE), Ruling(scope, TRUE)>>,
               <<Ruling(burden, TRUE), Ruling(burden, FALSE)>>,
               <<Ruling(scope, FALSE)>>}
=============================================================================
