----------------------------- MODULE Pipelines ------------------------------
(***************************************************************************)
(* compile_pipeline: the stages and caps a run is bound to, from the       *)
(* task's graph for the chosen strategy, the personas the matter has left  *)
(* on and the resolved settings; how many calls that may take, and what    *)
(* the estimate says of it before.                                         *)
(* A launch is [family, strategy, personas, config, units].                *)
(***************************************************************************)
EXTENDS TurnSlots, RunConfig, TurnGates, FiniteSetsExt, SequencesExt

Personas == {"associate", "partner", "oc_associate", "oc_partner", "judge", "rubric_judge"}

Opponents(launch) == launch.personas \cap {"oc_associate", "oc_partner"}

\* the graphs of config/tasks/*.yaml, without "assemble", which is no stage of a request
Graph(launch) ==
    IF launch.family = "discovery"
    THEN IF launch.strategy = "adversarial-first"
         THEN <<"associate_draft", "oc_attack", "bolster", "partner_loop",
                "judge_panel", "restructure", "jury_panel", "rubric_gate">>
         ELSE <<"associate_draft", "partner_loop", "oc_attack", "bolster",
                "judge_panel", "restructure", "jury_panel", "rubric_gate">>
    ELSE IF launch.strategy = "adversarial-first"
         THEN <<"associate_draft", "oc_attack", "bolster", "partner_loop",
                "narrative_assessment", "rubric_gate">>
         ELSE <<"associate_draft", "partner_loop", "oc_attack", "bolster",
                "narrative_assessment", "rubric_gate">>

StrategyRounds(strategy) == IF strategy = "deep-core" THEN 3 ELSE 2

\* the stages nobody is left to play
Unowned(launch) ==
    (IF "partner" \in launch.personas THEN {} ELSE {"partner_loop"})
    \cup (IF Opponents(launch) # {} THEN {} ELSE {"oc_attack", "bolster"})
    \cup (IF "judge" \in launch.personas
          THEN {} ELSE {"judge_panel", "narrative_assessment", "restructure"})
    \cup (IF "rubric_judge" \in launch.personas THEN {} ELSE {"rubric_gate"})

Staged(launch) == Range(Graph(launch)) \ Unowned(launch)

Precedes(graph, h, s) == \E i, j \in DOMAIN graph : i < j /\ graph[i] = h /\ graph[j] = s

\* the stages that are left stay in the order of the graph
Compiled(launch) ==
    LET m == Resolved(launch.config)
        opposed == Opponents(launch) # {}
        scored == "rubric_judge" \in launch.personas
    IN  [strategy |-> launch.strategy,
         family |-> launch.family,
         stages |-> Staged(launch),
         before |-> [s \in Staged(launch) |->
                        {h \in Staged(launch) : Precedes(Graph(launch), h, s)}],
         scored |-> scored,
         gates |-> IF scored THEN m["gates"] ELSE m["gates"] \ {"rubric"},
         ap |-> Max({m["ap"], StrategyRounds(launch.strategy)}),
         oc |-> IF opposed THEN Max({m["oc"], Cardinality(Opponents(launch))}) ELSE 0,
         bolster |-> IF opposed THEN m["bolster"] ELSE 0,
         judges |-> m["judges"],
         panel |-> m["panel"],
         restructure |-> IF "judge" \in launch.personas THEN m["restructure"] ELSE 0,
         jurors |-> IF m["jury"] THEN JurorsIn(m) ELSE 0]

Assessments == {"judge_panel", "narrative_assessment"}

\* ResolvedPipeline: a persona that is on has its stage, one that is off has none, and
\* the strategies keep their order
Owned(c, personas) ==
    /\ personas \cap {"associate", "partner"} # {}
    /\ "associate_draft" \in c.stages
    /\ "partner" \in personas => "partner_loop" \in c.stages
    /\ (personas \cap {"oc_associate", "oc_partner"} # {}) <=> "oc_attack" \in c.stages
    /\ "judge" \in personas <=> c.stages \cap Assessments # {}
    /\ "rubric_judge" \in personas <=> "rubric_gate" \in c.stages
    /\ "rubric_gate" \in c.stages <=> "rubric" \in c.gates
    /\ c.strategy = "deep-core" =>
          /\ {"associate", "partner"} \subseteq personas /\ c.ap >= 3
          /\ \A s \in c.stages \cap (Assessments \cup {"oc_attack", "rubric_gate"}) :
                "partner_loop" \in c.before[s]
    /\ c.strategy = "adversarial-first" =>
          /\ "oc_attack" \in c.stages
          /\ "partner_loop" \in c.stages => "oc_attack" \in c.before["partner_loop"]

\* what compile_pipeline refuses before it compiles
Selectable(launch) ==
    /\ "gates" \in DOMAIN launch.config.adapter /\ Orderable(launch.config.adapter["gates"])
    /\ launch.family = "document" => ~AdapterJury(launch.config)
    /\ launch.personas \cap {"associate", "partner"} # {}
    /\ launch.strategy = "deep-core" => {"associate", "partner"} \subseteq launch.personas
    /\ launch.strategy = "adversarial-first" => Opponents(launch) # {}

Compiles(launch) ==
    /\ Resolves(launch.config)
    /\ Selectable(launch)
    /\ Owned(Compiled(launch), launch.personas)

-----------------------------------------------------------------------------
\* the calls a request may take

If(condition, n) == IF condition THEN n ELSE 0

\* pipeline_turn_ceiling
Ceiling(c) ==
    (IF "partner_loop" \in c.stages THEN 2 * c.ap + If(c.scored, c.ap) ELSE 1)
      + If("oc_attack" \in c.stages, c.oc)
      + If("bolster" \in c.stages, c.bolster)
      + If(c.stages \cap Assessments # {}, c.judges)
      + If("restructure" \in c.stages, c.restructure)
      + If("jury_panel" \in c.stages, c.jurors)
      + If("rubric_gate" \in c.stages, c.panel)

\* estimate_run, the calls of one request with every cap hit: it counts a judge's
\* ruling on each objection as a call
EstimatedMost(c, objections) ==
    1 + If("partner_loop" \in c.stages,
           (c.ap - 1) + c.ap + If("rubric" \in c.gates, c.ap))
      + If("oc_attack" \in c.stages, c.oc)
      + If("bolster" \in c.stages, c.bolster)
      + If("narrative_assessment" \in c.stages, c.judges)
      + If("judge_panel" \in c.stages, c.judges * objections)
      + If("restructure" \in c.stages, c.restructure)
      + If("jury_panel" \in c.stages, c.jurors)
      + If("rubric_gate" \in c.stages, c.panel)

\* with every partner loop over after one round and no objection sunk
EstimatedLeast(c, objections) ==
    1 + If("partner_loop" \in c.stages, 1 + If("rubric" \in c.gates, 1))
      + If("oc_attack" \in c.stages, c.oc)
      + If("bolster" \in c.stages, c.bolster)
      + If("narrative_assessment" \in c.stages, c.judges)
      + If("judge_panel" \in c.stages, c.judges * objections)
      + If("jury_panel" \in c.stages, c.jurors)
      + If("rubric_gate" \in c.stages, c.panel)
=============================================================================
