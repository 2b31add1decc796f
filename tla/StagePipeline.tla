--------------------------- MODULE StagePipeline ----------------------------
(***************************************************************************)
(* The turns of a run, from the compiled pipeline to the last rubric seat. *)
(* Nothing but the completed turns is stored: what each stage asks next,   *)
(* and whether it is over, is read from them every time a worker plans.    *)
(* A worker asks a persona with the draft its plan names, and the answer   *)
(* is recorded against a plan made anew, after the gates of its turn.      *)
(***************************************************************************)
EXTENDS Pipelines, PanelFold

CONSTANTS
    Launches,       \* [family, strategy, personas, config, units]
    Texts,          \* what a draft says: equal when no more than the floor changed
    Asserts,        \* the objections a text asserts, in order
    TooLong,        \* the texts over the 32 KiB a jury is given to read
    MaxAsked,       \* bound: provider calls under way
    MaxRejects,     \* bound: answers discarded, or lost with the worker
    Losable,        \* bound: the kinds of turns whose answers are
    MaxSetbacks     \* bound: answers that cost another round or another draft

ASSUME TextsAreDrafts ==
    /\ Whole \cup Unsupported \cup Citing \subseteq Texts /\ Asserts \in [Texts -> Asserted]
    /\ TooLong \subseteq Texts
    /\ {MaxAsked, MaxRejects, MaxSetbacks} \subseteq Nat

ASSUME LaunchesAreKnown ==
    \A l \in Launches :
        /\ l.family \in {"discovery", "document"} /\ l.units \in Nat
        /\ IsLayer(l.config.firm.layer) /\ DOMAIN l.config.flags \subseteq {"mode", "attempts"}

VARIABLES
    pipeline,       \* the compiled pipeline, committed at launch
    units,          \* the requests of the run: 0 .. units - 1
    done,           \* completed_turns: turn -> [basis, said]; the code names a turn
                    \* by its Slot, which no other turn has (SlotsApart)
    latest,         \* the last result of each gate of each turn (GateEvaluated)
    ever,           \* every result on the journal: [turn, gate, status]
    asked,          \* the calls under way: [turn, basis, copy]
    rejected        \* answers discarded or lost

vars == <<pipeline, units, done, latest, ever, asked, rejected>>

NoDraft == Turn(0, "none", 0)

-----------------------------------------------------------------------------
\* StageContext: the accessors

Done(t) == t \in DOMAIN done

Said(t) == done[t].said

Answered(q, kind) == {k \in 1..Most(pipeline, kind) : Done(Turn(q, kind, k))}

Missing(q, kind) == (1..Most(pipeline, kind)) \ Answered(q, kind)

AllAnswered(q, kind) == Missing(q, kind) = {}

Latest(q, kind, ks) == Turn(q, kind, Max(ks))

LatestDraft(q) ==
    LET rounds == Answered(q, "draft")
    IN  IF rounds = {} THEN NoDraft ELSE Latest(q, "draft", rounds)

AdversarialFirst == pipeline.strategy = "adversarial-first"

PartnerDraftAnyStrategy(q, r) ==
    LET bolsters == Answered(q, "bolster")
    IN  IF r = 1 /\ bolsters # {} THEN Latest(q, "bolster", bolsters) ELSE Turn(q, "draft", r)

\* an attack and a bolster stand between the first draft and the first review
PartnerDraft(q, r) ==
    LET bolsters == Answered(q, "bolster")
    IN  IF r = 1 /\ AdversarialFirst /\ bolsters # {}
        THEN Latest(q, "bolster", bolsters) ELSE Turn(q, "draft", r)

JudgedDraft(q) ==
    LET redrafts == Answered(q, "draft") \ {1}
        bolsters == Answered(q, "bolster")
    IN  IF AdversarialFirst /\ redrafts # {} THEN Latest(q, "draft", redrafts)
        ELSE IF bolsters # {} THEN Latest(q, "bolster", bolsters)
        ELSE LatestDraft(q)

OperativeDraft(q) ==
    LET restructures == Answered(q, "restructure")
    IN  IF restructures # {} THEN Latest(q, "restructure", restructures) ELSE JudgedDraft(q)

\* the rulings of the judges who answered, by seat
Heard(q) == [k \in Answered(q, "judge") |-> Said(Turn(q, "judge", k))]

WeakObjections(q) ==
    IF pipeline.family = "document" \/ JudgedDraft(q) = NoDraft THEN {}
    ELSE Weak(Asserts[Said(JudgedDraft(q))], Heard(q))

-----------------------------------------------------------------------------
\* the partner loop

\* three floors: the score stood still, the text stood still, and it is complete
ConvergedAt(q, r) ==
    /\ 1 < r /\ r < pipeline.ap
    /\ Said(Turn(q, "loop", r)) = "still"
    /\ Said(PartnerDraft(q, r)) = Said(PartnerDraft(q, r - 1))
    /\ Said(PartnerDraft(q, r)) \in Whole

RoundTurns == {"draft", "critique"} \cup (IF pipeline.scored THEN {"loop"} ELSE {})

RoundComplete(q, r) == \A kind \in RoundTurns : Done(Turn(q, kind, r))

MinimumRounds == IF pipeline.strategy = "deep-core" THEN 3 ELSE 1

SettlesAt(q, r) ==
    \/ r = pipeline.ap
    \/ /\ r >= MinimumRounds
       /\ \/ Said(Turn(q, "critique", r)) = "approve"
          \/ pipeline.scored /\ ConvergedAt(q, r)

Settled(q) ==
    \E r \in 1..pipeline.ap : (\A i \in 1..r : RoundComplete(q, i)) /\ SettlesAt(q, r)

PlanRoundUnscored(q, r) ==
    IF ~Done(Turn(q, "draft", r))
    THEN [turn |-> Turn(q, "draft", r), basis |-> PartnerDraft(q, r - 1)]
    ELSE [turn |-> Turn(q, "critique", r), basis |-> PartnerDraft(q, r)]

PlanRoundOnDraft(q, r) ==
    IF ~Done(Turn(q, "draft", r))
    THEN [turn |-> Turn(q, "draft", r), basis |-> PartnerDraft(q, r - 1)]
    ELSE [turn |-> Turn(q, IF Done(Turn(q, "critique", r)) THEN "loop" ELSE "critique", r),
          basis |-> Turn(q, "draft", r)]

\* in a round: the draft, the critique of it, the score
PlanRound(q, r) ==
    IF ~Done(Turn(q, "draft", r))
    THEN [turn |-> Turn(q, "draft", r), basis |-> PartnerDraft(q, r - 1)]
    ELSE IF ~Done(Turn(q, "critique", r))
    THEN [turn |-> Turn(q, "critique", r), basis |-> PartnerDraft(q, r)]
    ELSE [turn |-> Turn(q, "loop", r), basis |-> PartnerDraft(q, r)]

PlanPartnerLoop(q) ==
    {PlanRound(q, r) : r \in
        {r \in 1..pipeline.ap : /\ ~Settled(q) /\ ~RoundComplete(q, r)
                                /\ \A i \in 1..r - 1 : RoundComplete(q, i)}}

-----------------------------------------------------------------------------
\* the stages

OneByOne(q, kind, basis) ==
    {[turn |-> Turn(q, kind, k), basis |-> basis] : k \in
        {k \in Missing(q, kind) : \A i \in 1..k - 1 : Done(Turn(q, kind, i))}}

AtOnce(q, kind, basis) == {[turn |-> Turn(q, kind, k), basis |-> basis] : k \in Missing(q, kind)}

StageComplete(q, stage) ==
    CASE stage = "associate_draft" -> Done(Turn(q, "draft", 1))
      [] stage = "partner_loop" -> Settled(q)
      [] stage = "oc_attack" -> AllAnswered(q, "oc")
      [] stage = "bolster" -> AllAnswered(q, "bolster")
      [] stage \in {"judge_panel", "narrative_assessment"} -> AllAnswered(q, "judge")
      [] stage = "restructure" -> /\ AllAnswered(q, "judge")
                                  /\ WeakObjections(q) = {} \/ AllAnswered(q, "restructure")
      [] stage = "jury_panel" -> AllAnswered(q, "juror")
      [] OTHER -> AllAnswered(q, "final")

\* a draft over the limit is not cut: the jury's plan raises TaskConfigError
JuryCannotRead(q) == Said(OperativeDraft(q)) \in TooLong

PlanStage(q, stage) ==
    CASE stage = "associate_draft" -> {[turn |-> Turn(q, "draft", 1), basis |-> NoDraft]}
      [] stage = "partner_loop" -> PlanPartnerLoop(q)
      [] stage = "oc_attack" -> OneByOne(q, "oc", LatestDraft(q))
      [] stage = "bolster" -> OneByOne(q, "bolster", LatestDraft(q))
      [] stage \in {"judge_panel", "narrative_assessment"} ->
            AtOnce(q, "judge", OperativeDraft(q))
      [] stage = "restructure" ->
            IF WeakObjections(q) = {} THEN {} ELSE OneByOne(q, "restructure", JudgedDraft(q))
      [] stage = "jury_panel" ->
            IF JuryCannotRead(q) THEN {} ELSE AtOnce(q, "juror", OperativeDraft(q))
      [] OTHER -> AtOnce(q, "final", OperativeDraft(q))

RequestComplete(q) == \A s \in pipeline.stages : StageComplete(q, s)

\* plan_request: the first incomplete stage plans
FirstIncomplete(q) ==
    {s \in pipeline.stages :
        /\ ~StageComplete(q, s)
        /\ \A h \in pipeline.before[s] : StageComplete(q, h)}

PlanRequest(q) == UNION {PlanStage(q, s) : s \in FirstIncomplete(q)}

OverLimit(q) == "jury_panel" \in FirstIncomplete(q) /\ JuryCannotRead(q)

\* _plan goes over all the requests: when the plan of one raises, that of the run does,
\* and no turn of any request is asked for, nor an answer recorded, any more
PlanFails == \E q \in 0..units - 1 : OverLimit(q)

-----------------------------------------------------------------------------
\* the run

Drafting == {"draft", "bolster", "restructure"}

\* a call for another round, a draft that differs from the one it revises, an opinion
\* that sinks an objection
Setback(turn, basis, said) ==
    \/ turn.kind = "critique" /\ said = "revise"
    \/ turn.kind \in Drafting /\ basis # NoDraft /\ said # Said(basis)
    \/ turn.kind = "judge" /\ \E j \in DOMAIN said : ~said[j].survives

Setbacks == Cardinality({t \in DOMAIN done : Setback(t, done[t].basis, done[t].said)})

\* a score counts for how far it is from the score before it, before the last round
Outputs(turn) ==
    CASE turn.kind \in Drafting -> Texts
      [] turn.kind = "critique" -> {"approve", "revise"}
      [] turn.kind = "loop" /\ 1 < turn.k /\ turn.k < pipeline.ap -> {"still", "moved"}
      [] turn.kind = "judge" -> IF pipeline.family = "document" THEN {<< >>} ELSE Opinions
      [] OTHER -> {"noted"}

\* plan_next, and a prompt with the draft the plan names; two workers may be given
\* the same turn
Call(spec, copy) == [turn |-> spec.turn, basis |-> spec.basis, copy |-> copy]

Learned(turn, record) ==
    [t \in DOMAIN done \cup {turn} |-> IF t = turn THEN record ELSE done[t]]

Ask ==
    /\ ~PlanFails /\ Cardinality(asked) < MaxAsked
    /\ \E q \in 0..units - 1 : \E spec \in PlanRequest(q), copy \in 1..MaxAsked :
          /\ {c \in 1..MaxAsked : Call(spec, c) \in asked} = 1..copy - 1
          /\ asked' = asked \cup {Call(spec, copy)}
    /\ UNCHANGED <<pipeline, units, done, latest, ever, rejected>>

\* record_turn on a turn another worker has completed: its record stays
AnswerTwice ==
    \E call \in asked :
        /\ Done(call.turn)
        /\ asked' = asked \ {call}
        /\ UNCHANGED <<pipeline, units, done, latest, ever, rejected>>

ResultsOf(turn) == IF turn \in DOMAIN latest THEN latest[turn] ELSE << >>

\* evaluate_turn_gates: results go to the journal one by one, before the turn is
\* completed or discarded
Evaluated(turn, results) ==
    /\ latest' = [t \in DOMAIN latest \cup {turn} |->
                    IF t = turn THEN Renewed(ResultsOf(turn), results) ELSE latest[t]]
    /\ ever' = ever \cup {[turn |-> turn, gate |-> g, status |-> results[g]] :
                              g \in DOMAIN results}

Gated(turn, said) == Results(pipeline.gates, turn.kind \in Drafting, said)

\* _maybe_emit_rubric_gate: the last seat of the final panel brings its verdict, once; when
\* the worker dies in between _finalize brings it (RunEngine has that crash)
PanelVerdicts(turn) ==
    IF /\ turn.kind = "final" /\ Missing(turn.unit, "final") = {turn.k}
       /\ ~\E e \in ever : e.gate = "rubric" /\ e.turn.unit = turn.unit
    THEN {[rubric |-> status] : status \in PanelStatuses} ELSE {<< >>}

\* record_turn on a turn that is still planned
Answer ==
    \E call \in asked :
        /\ ~Done(call.turn) /\ ~PlanFails
        /\ call.turn \in {spec.turn : spec \in PlanRequest(call.turn.unit)}
        /\ Orderable(pipeline.gates)
        /\ \E said \in Outputs(call.turn) :
              /\ \E verdict \in PanelVerdicts(call.turn) :
                    Evaluated(call.turn, Renewed(Gated(call.turn, said), verdict))
              /\ Setback(call.turn, call.basis, said) => Setbacks < MaxSetbacks
              /\ done' = Learned(call.turn, [basis |-> call.basis, said |-> said])
        /\ asked' = asked \ {call}
        /\ UNCHANGED <<pipeline, units, rejected>>

\* record_turn plans before it looks at the answer, and raises when the plan does: the
\* answer is paid for and lost, whatever request it is of
Refuse ==
    \E call \in asked :
        /\ ~Done(call.turn) /\ PlanFails
        /\ asked' = asked \ {call}
        /\ UNCHANGED <<pipeline, units, done, latest, ever, rejected>>

Lost(call) ==
    /\ ~Done(call.turn) /\ ~PlanFails /\ rejected < MaxRejects /\ call.turn.kind \in Losable
    /\ rejected' = rejected + 1
    /\ asked' = asked \ {call}
    /\ UNCHANGED <<pipeline, units, done>>

\* an answer that is no valid output: the turn is planned again under the same id
RejectInvalid == \E call \in asked : Lost(call) /\ UNCHANGED <<latest, ever>>

\* _discard of an answer that does not do its work, after its gates
RejectDegenerate ==
    /\ Orderable(pipeline.gates) /\ Degenerate(pipeline.gates) # << >>
    /\ \E call \in asked : Lost(call) /\ Evaluated(call.turn, Degenerate(pipeline.gates))

\* record_turn stops between the gates and TurnCompleted, because the worker dies or the
\* body of an earlier attempt says something else: another answer is asked for
LoseEvaluated ==
    /\ Orderable(pipeline.gates)
    /\ \E call \in asked :
          /\ Lost(call)
          /\ \E said \in Outputs(call.turn) : Evaluated(call.turn, Gated(call.turn, said))

Init ==
    /\ \E launch \in {l \in Launches : Compiles(l)} :
          pipeline = Compiled(launch) /\ units = launch.units
    /\ done = << >> /\ latest = << >> /\ ever = {} /\ asked = {} /\ rejected = 0

Next == AnswerTwice \/ Refuse \/ Ask \/ RejectInvalid \/ RejectDegenerate \/ LoseEvaluated \/ Answer

\* a worker drains the queue, and a call ends: no step can go on for ever without
\* the others, as the calls under way are few
Spec == Init /\ [][Next]_vars /\ WF_vars(Next)

-----------------------------------------------------------------------------
\* the gate ledger

\* only the events of completed turns count
Recorded(q, gate) ==
    {e.status : e \in {e \in ever : e.gate = gate /\ e.turn.unit = q /\ Done(e.turn)}}

\* the verdict on the draft that would be served, or the worst there has been
Standing(q, gate) ==
    IF Done(OperativeDraft(q)) /\ gate \in DOMAIN ResultsOf(OperativeDraft(q))
    THEN ResultsOf(OperativeDraft(q))[gate]
    ELSE IF Recorded(q, gate) = {} THEN "pending" ELSE Worst(Recorded(q, gate))

\* the gates of the turns that keep export_ready from being true
TurnBlockers ==
    {g \in BlockingGates \cap pipeline.gates :
        \E q \in 0..units - 1 : Standing(q, g) \in {"pending", "fail"}}

-----------------------------------------------------------------------------
\* properties

\* A stage that is over stays over (plan_request, Stage.is_complete): whether it is
\* is recomputed from all the completed turns at every plan, so a later draft must
\* not reopen a settled loop, nor change what the panel is held to have ruled on.
StagesStayComplete ==
    [][\A q \in 0..units - 1 : \A s \in pipeline.stages :
          StageComplete(q, s) => StageComplete(q, s)']_done

\* Every review is of the draft the run now holds it to be a review of
\* (partner_draft, judged_draft, operative_draft): a critique and a score are of the
\* draft their round is read with, a judge's rulings are of the draft whose
\* objections they are paired with, the last gate is of the draft that is exported.
ReviewsMatchDrafts ==
    \A t \in DOMAIN done :
        done[t].basis =
            CASE t.kind \in {"critique", "loop"} -> PartnerDraft(t.unit, t.k)
              [] t.kind = "judge" -> JudgedDraft(t.unit)
              [] t.kind \in {"final", "juror"} -> OperativeDraft(t.unit)
              [] OTHER -> done[t].basis

\* What was asked is wanted when it is answered (record_turn finds its spec in a new
\* plan): a paid answer is never refused as not schedulable, nor recorded against
\* another draft than the prompt showed, whatever other workers recorded meanwhile;
\* unless a jury's draft over the limit has stopped the plan of the whole run.
AnswersAreWanted ==
    ~PlanFails => \A call \in asked :
        \/ Done(call.turn)
        \/ [turn |-> call.turn, basis |-> call.basis] \in PlanRequest(call.turn.unit)

\* A request that is not complete can be taken further (is_complete and plan are
\* written apart): some turn is planned, none of them is completed already, and the
\* draft it works on exists.  The one exception is a draft that is over the limit when
\* the jury is the next to read it.
NeverStuck ==
    \A q \in 0..units - 1 : ~RequestComplete(q) /\ ~OverLimit(q) =>
        /\ PlanRequest(q) # {}
        /\ \A spec \in PlanRequest(q) :
              /\ ~Done(spec.turn)
              /\ spec.turn # Turn(q, "draft", 1) => Done(spec.basis)

\* where a basis is asserted, or ruled on
On(list, b) == {i \in DOMAIN list : list[i] = b}

CountOnce(objections, rulings, aligned) ==
    LET bases == [j \in DOMAIN rulings |-> rulings[j].basis]
    IN  /\ \A i, j \in DOMAIN aligned : aligned[i] = aligned[j] /\ i # j => aligned[i] = Nothing
        /\ \A b \in Range(objections) :
              Cardinality({i \in On(objections, b) : aligned[i] \in On(bases, b)})
                  = Min({Cardinality(On(objections, b)), Cardinality(On(bases, b))})

\* A judge's ruling counts for one objection and no objection on its basis goes
\* without (_align_rulings): of two objections on one basis the second is not scored
\* with the first one's ruling, which would leave a sunk objection in place.
RulingsCountOnce ==
    \A q \in 0..units - 1 :
        (pipeline.family = "discovery" /\ JudgedDraft(q) # NoDraft) =>
            \A n \in DOMAIN Heard(q) :
                LET objections == Asserts[Said(JudgedDraft(q))]
                IN  CountOnce(objections, Heard(q)[n], Aligned[objections][Heard(q)[n]])

\* What a request costs is what the operator was told (pipeline_turn_ceiling,
\* estimate_run, the caps of each stage): the completed turns never pass the ceiling of
\* the commitment, that is the most the estimate counts, and a complete request has taken
\* the least it counts; with one objection, as it charges a judge for each.
CallsWithinEstimate ==
    /\ Ceiling(pipeline) = EstimatedMost(pipeline, 1)
    /\ \A q \in 0..units - 1 :
          LET turns == {t \in DOMAIN done : t.unit = q}
          IN  /\ Cardinality(turns) <= Ceiling(pipeline)
              /\ RequestComplete(q) => EstimatedLeast(pipeline, 1) <= Cardinality(turns)

\* The gate ledger speaks of what would be served (build_ledger, _turn_gate_status): the
\* text gates of a request say what they say of the operative draft, not of an attempt
\* that was discarded or lost under the same turn id, nor of an earlier draft; and the
\* rubric's verdict is there exactly when its whole panel has scored that draft.
LedgerSpeaksOfServed ==
    \A q \in 0..units - 1 :
        LET served == OperativeDraft(q) IN
        /\ served # NoDraft =>
              \A g \in {"completeness", "fabrication"} \cap pipeline.gates :
                 Standing(q, g) = Verdict(g, Said(served))
        /\ Standing(q, "rubric") # "pending" <=> AllAnswered(q, "final")
        /\ AllAnswered(q, "final") =>
              \A k \in Answered(q, "final") : done[Turn(q, "final", k)].basis = served

\* A turn blocks the export of a complete run only for what its drafts say or its panel
\* decided (_export_ready): discards, crashes and cured findings leave nothing behind.
OnlyTheServedBlocks ==
    (\A q \in 0..units - 1 : RequestComplete(q)) =>
        /\ "fabrication" \in TurnBlockers <=>
              /\ "fabrication" \in pipeline.gates
              /\ \E q \in 0..units - 1 :
                    Verdict("fabrication", Said(OperativeDraft(q))) # "pass"
        /\ "rubric" \in TurnBlockers =>
              \E q \in 0..units - 1 : "fail" \in Recorded(q, "rubric")

\* Every request is complete in the end (the run can be assembled), as long as workers
\* drain the queue, calls end, and no turn uses up its attempts; or a jury's draft is
\* over the limit, and no plan is made any more (JuryPanelStage.plan, _plan).
RequestsComplete ==
    \/ <>(\A q \in 0..units - 1 : RequestComplete(q))
    \/ <>[]PlanFails
=============================================================================
