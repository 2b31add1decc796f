------------------------ MODULE StagePipelineProofs ------------------------
(***************************************************************************)
(* What a run asks next, for every launch and any number of workers.  The  *)
(* invariant: a completed turn is of a stage whose predecessors are over   *)
(* (WellOrdered), and what was asked is still planned.  From the order of  *)
(* the stages in every graph it follows that no draft is written once a    *)
(* review of it is in; so a stage that is over stays over, which in turn   *)
(* keeps the order of the completed turns.  Then how many calls a request  *)
(* takes, kind by kind, and that their number runs out; what the judges'   *)
(* rulings count for; and what the gate ledger says: of a completed draft  *)
(* the journal holds the verdicts on it, of a rubric one verdict, from its *)
(* whole panel on.                                                         *)
(***************************************************************************)
EXTENDS PipelineProofs

-----------------------------------------------------------------------------
(* The turns a plan asks for. *)

\* The stage a turn is of.
StageOf(t) ==
    IF t.kind = "draft" /\ t.k = 1 THEN "associate_draft"
    ELSE IF t.kind \in {"draft", "critique", "loop"} THEN "partner_loop"
    ELSE IF t.kind = "oc" THEN "oc_attack"
    ELSE IF t.kind = "judge"
    THEN IF pipeline.family = "document" THEN "narrative_assessment" ELSE "judge_panel"
    ELSE IF t.kind = "juror" THEN "jury_panel"
    ELSE IF t.kind = "final" THEN "rubric_gate"
    ELSE t.kind

Proper(t) ==
    /\ t = Turn(t.unit, t.kind, t.k)
    /\ t.kind \in Kinds /\ t.k \in 1..Most(pipeline, t.kind)

LEMMA PartsOfTurn ==
    ASSUME NEW q, NEW kind, NEW k
    PROVE  /\ Turn(q, kind, k).unit = q
           /\ Turn(q, kind, k).kind = kind
           /\ Turn(q, kind, k).k = k
BY DEF Turn

LEMMA TurnIsProper ==
    ASSUME NEW q, NEW kind \in Kinds, NEW k \in 1..Most(pipeline, kind)
    PROVE  Proper(Turn(q, kind, k))
BY DEF Proper, Turn

LEMMA StageOfTurn ==
    ASSUME NEW q, NEW k
    PROVE  /\ StageOf(Turn(q, "draft", k)) =
                IF k = 1 THEN "associate_draft" ELSE "partner_loop"
           /\ StageOf(Turn(q, "critique", k)) = "partner_loop"
           /\ StageOf(Turn(q, "loop", k)) = "partner_loop"
           /\ StageOf(Turn(q, "oc", k)) = "oc_attack"
           /\ StageOf(Turn(q, "bolster", k)) = "bolster"
           /\ StageOf(Turn(q, "judge", k)) =
                IF pipeline.family = "document" THEN "narrative_assessment" ELSE "judge_panel"
           /\ StageOf(Turn(q, "restructure", k)) = "restructure"
           /\ StageOf(Turn(q, "juror", k)) = "jury_panel"
           /\ StageOf(Turn(q, "final", k)) = "rubric_gate"
BY PartsOfTurn DEF StageOf

\* A turn that is missing of a kind.
Wanted(q, kind, spec) ==
    \E k \in 1..Most(pipeline, kind) :
        spec.turn = Turn(q, kind, k) /\ ~Done(spec.turn)

LEMMA OneByOneWants ==
    ASSUME NEW q, NEW kind, NEW basis, NEW spec \in OneByOne(q, kind, basis)
    PROVE  /\ Wanted(q, kind, spec) /\ spec.basis = basis
           /\ spec = [turn |-> spec.turn, basis |-> spec.basis]
BY DEF OneByOne, Wanted, Missing, Answered

LEMMA AtOnceWants ==
    ASSUME NEW q, NEW kind, NEW basis, NEW spec \in AtOnce(q, kind, basis)
    PROVE  /\ Wanted(q, kind, spec) /\ spec.basis = basis
           /\ spec = [turn |-> spec.turn, basis |-> spec.basis]
BY DEF AtOnce, Wanted, Missing, Answered

\* What a round of the partner loop asks for (PartnerLoopStage.plan).
LEMMA RoundWants ==
    ASSUME NEW q, NEW r \in 1..pipeline.ap, ~RoundComplete(q, r)
    PROVE  LET spec == PlanRound(q, r) IN
           /\ \/ spec.turn = Turn(q, "draft", r) /\ spec.basis = PartnerDraft(q, r - 1)
              \/ /\ spec.turn \in {Turn(q, "critique", r), Turn(q, "loop", r)}
                 /\ Done(Turn(q, "draft", r)) /\ spec.basis = PartnerDraft(q, r)
           /\ ~Done(spec.turn)
           /\ spec = [turn |-> spec.turn, basis |-> spec.basis]
<1>1. CASE ~Done(Turn(q, "draft", r))
  BY <1>1 DEF PlanRound
<1>2. CASE Done(Turn(q, "draft", r)) /\ ~Done(Turn(q, "critique", r))
  BY <1>2 DEF PlanRound
<1>3. CASE Done(Turn(q, "draft", r)) /\ Done(Turn(q, "critique", r))
  <2>1. ~Done(Turn(q, "loop", r))
    BY <1>3 DEF RoundComplete, RoundTurns
  <2> QED BY <1>3, <2>1 DEF PlanRound
<1> QED BY <1>1, <1>2, <1>3

LEMMA LoopPlans ==
    ASSUME NEW q, NEW spec \in PlanPartnerLoop(q)
    PROVE  \E r \in 1..pipeline.ap :
              /\ spec = PlanRound(q, r) /\ ~RoundComplete(q, r)
              /\ \A i \in 1..r - 1 : RoundComplete(q, i)
BY DEF PlanPartnerLoop

\* Every planned turn is a turn of the first incomplete stage, still to be done.
Planned(q, spec) ==
    /\ Proper(spec.turn) /\ spec.turn.unit = q /\ ~Done(spec.turn)
    /\ spec = [turn |-> spec.turn, basis |-> spec.basis]
    /\ StageOf(spec.turn) \in FirstIncomplete(q)
    /\ spec \in PlanStage(q, StageOf(spec.turn))

\* What the plan of each stage asks for.
LEMMA StagePlans ==
    ASSUME NEW q, NEW spec
    PROVE  /\ spec \in PlanStage(q, "associate_draft") =>
                spec = [turn |-> Turn(q, "draft", 1), basis |-> NoDraft]
           /\ spec \in PlanStage(q, "partner_loop") => spec \in PlanPartnerLoop(q)
           /\ spec \in PlanStage(q, "oc_attack") => spec \in OneByOne(q, "oc", LatestDraft(q))
           /\ spec \in PlanStage(q, "bolster") =>
                spec \in OneByOne(q, "bolster", LatestDraft(q))
           /\ \A s \in Panels : spec \in PlanStage(q, s) =>
                spec \in AtOnce(q, "judge", OperativeDraft(q))
           /\ spec \in PlanStage(q, "restructure") =>
                /\ WeakObjections(q) # {}
                /\ spec \in OneByOne(q, "restructure", JudgedDraft(q))
           /\ spec \in PlanStage(q, "jury_panel") =>
                spec \in AtOnce(q, "juror", OperativeDraft(q))
           /\ spec \in PlanStage(q, "rubric_gate") =>
                spec \in AtOnce(q, "final", OperativeDraft(q))
BY DEF PlanStage, Panels

LEMMA PlannedTurns ==
    ASSUME Sound(pipeline), NEW q, NEW spec \in PlanRequest(q)
    PROVE  Planned(q, spec)
<1>1. PICK s \in FirstIncomplete(q) : spec \in PlanStage(q, s)
  BY DEF PlanRequest
<1>2. /\ s \in pipeline.stages /\ ~StageComplete(q, s)
      /\ \A h \in pipeline.before[s] : StageComplete(q, h)
  BY <1>1 DEF FirstIncomplete
<1>3. /\ Most(pipeline, "draft") = pipeline.ap /\ Most(pipeline, "critique") = pipeline.ap
      /\ Most(pipeline, "loop") = pipeline.ap
      /\ pipeline.ap \in Nat /\ pipeline.ap >= 2
  BY DEF Most, Sound, IsLayout
<1>4. SUFFICES /\ Proper(spec.turn) /\ spec.turn.unit = q /\ ~Done(spec.turn)
               /\ spec = [turn |-> spec.turn, basis |-> spec.basis]
               /\ StageOf(spec.turn) = s
  BY <1>1 DEF Planned
<1>5. ASSUME NEW kind \in Kinds, Wanted(q, kind, spec)
      PROVE  /\ Proper(spec.turn) /\ spec.turn.unit = q /\ ~Done(spec.turn)
             /\ \E k \in 1..Most(pipeline, kind) : spec.turn = Turn(q, kind, k)
  BY <1>5, TurnIsProper, PartsOfTurn DEF Wanted
<1>6. CASE s = "associate_draft"
  <2>1. spec = [turn |-> Turn(q, "draft", 1), basis |-> NoDraft]
    BY <1>1, <1>6, StagePlans
  <2>2. 1 \in 1..Most(pipeline, "draft") /\ "draft" \in Kinds
    BY <1>3 DEF Kinds
  <2>3. ~Done(spec.turn)
    BY <1>2, <1>6, <2>1 DEF StageComplete
  <2> QED BY <1>6, <2>1, <2>2, <2>3, TurnIsProper, PartsOfTurn, StageOfTurn
<1>7. CASE s = "partner_loop"
  <2>1. PICK r \in 1..pipeline.ap : spec = PlanRound(q, r) /\ ~RoundComplete(q, r)
    BY <1>1, <1>7, StagePlans, LoopPlans
  <2>2. "associate_draft" \in pipeline.before["partner_loop"]
    BY <1>2, <1>7 DEF Sound, Leads
  <2>3. Done(Turn(q, "draft", 1))
    BY <1>2, <1>7, <2>2 DEF StageComplete
  <2>4. /\ spec.turn \in {Turn(q, "draft", r), Turn(q, "critique", r), Turn(q, "loop", r)}
        /\ ~Done(spec.turn) /\ spec = [turn |-> spec.turn, basis |-> spec.basis]
    BY <2>1, RoundWants
  <2>5. StageOf(spec.turn) = "partner_loop"
    BY <2>3, <2>4, StageOfTurn
  <2>6. {"draft", "critique", "loop"} \subseteq Kinds
    BY DEF Kinds
  <2> QED BY <1>3, <1>7, <2>4, <2>5, <2>6, TurnIsProper, PartsOfTurn
<1>8. CASE s \in {"oc_attack", "bolster", "restructure"}
  <2> DEFINE kind == IF s = "oc_attack" THEN "oc" ELSE s
  <2>1. \E basis : spec \in OneByOne(q, kind, basis)
    BY <1>1, <1>8, StagePlans
  <2>2. kind \in Kinds
    BY <1>8 DEF Kinds
  <2>3. Wanted(q, kind, spec) /\ spec = [turn |-> spec.turn, basis |-> spec.basis]
    BY <2>1, OneByOneWants
  <2> QED BY <1>5, <1>8, <2>2, <2>3, StageOfTurn
<1>9. CASE s \in Panels
  <2>1. "judge" \in Kinds
    BY DEF Kinds
  <2>2. Wanted(q, "judge", spec) /\ spec = [turn |-> spec.turn, basis |-> spec.basis]
    BY <1>1, <1>9, StagePlans, AtOnceWants
  <2>3. s = IF pipeline.family = "document" THEN "narrative_assessment" ELSE "judge_panel"
    BY <1>2, <1>9 DEF Sound, Panels
  <2> QED BY <1>5, <2>1, <2>2, <2>3, StageOfTurn
<1>10. CASE s \in Gates
  <2> DEFINE kind == IF s = "jury_panel" THEN "juror" ELSE "final"
  <2>1. spec \in AtOnce(q, kind, OperativeDraft(q))
    BY <1>1, <1>10, StagePlans DEF Gates
  <2>2. kind \in Kinds
    BY DEF Kinds
  <2>3. Wanted(q, kind, spec) /\ spec = [turn |-> spec.turn, basis |-> spec.basis]
    BY <2>1, AtOnceWants
  <2> QED BY <1>5, <1>10, <2>2, <2>3, StageOfTurn DEF Gates
<1> QED BY <1>2, <1>6, <1>7, <1>8, <1>9, <1>10 DEF Sound

-----------------------------------------------------------------------------
(* One more completed turn. *)

Grows(u, rec) ==
    /\ pipeline' = pipeline
    /\ ~Done(u)
    /\ done' = Learned(u, rec)

LEMMA GrownDone ==
    ASSUME NEW u, NEW rec, Grows(u, rec)
    PROVE  /\ DOMAIN done' = DOMAIN done \cup {u}
           /\ \A t \in DOMAIN done : done'[t] = done[t]
           /\ done'[u] = rec
BY DEF Grows, Done, Learned

LEMMA DoneStays ==
    ASSUME NEW u, NEW rec, Grows(u, rec), NEW t, Done(t)
    PROVE  Done(t)' /\ Said(t)' = Said(t) /\ done'[t] = done[t]
BY GrownDone DEF Done, Said

LEMMA Untouched ==
    ASSUME NEW u, NEW rec, Grows(u, rec), NEW q, NEW kind, u.unit # q \/ u.kind # kind
    PROVE  /\ \A k : Done(Turn(q, kind, k))' <=> Done(Turn(q, kind, k))
           /\ Answered(q, kind)' = Answered(q, kind)
           /\ Missing(q, kind)' = Missing(q, kind)
           /\ AllAnswered(q, kind)' <=> AllAnswered(q, kind)
<1>1. \A k : Turn(q, kind, k) # u
  BY PartsOfTurn
<1>2. ASSUME NEW k PROVE Done(Turn(q, kind, k))' <=> Done(Turn(q, kind, k))
  <2>1. DOMAIN done' = DOMAIN done \cup {u}
    BY GrownDone
  <2>2. Turn(q, kind, k) # u
    BY <1>1
  <2> QED BY <2>1, <2>2 DEF Done
<1>3. pipeline' = pipeline
  BY DEF Grows
<1>4. Answered(q, kind)' = Answered(q, kind)
  BY <1>2, <1>3 DEF Answered
<1> QED BY <1>2, <1>3, <1>4 DEF Missing, AllAnswered

LEMMA AnsweredStays ==
    ASSUME NEW u, NEW rec, Grows(u, rec), NEW q, NEW kind, AllAnswered(q, kind)
    PROVE  AllAnswered(q, kind)' /\ Answered(q, kind)' = Answered(q, kind)
<1>1. pipeline' = pipeline
  BY DEF Grows
<1>2. \A k \in 1..Most(pipeline, kind) : Done(Turn(q, kind, k))
  BY DEF AllAnswered, Missing, Answered
<1>3. \A k \in 1..Most(pipeline, kind) : Done(Turn(q, kind, k))'
  BY <1>2, GrownDone DEF Done
<1> QED BY <1>1, <1>2, <1>3 DEF AllAnswered, Missing, Answered

LEMMA NumbersOfTurns ==
    ASSUME IsLayout(pipeline), NEW kind
    PROVE  Most(pipeline, kind) \in Nat
BY DEF IsLayout, Most

LEMMA LatestIsDone ==
    ASSUME IsLayout(pipeline), NEW q, NEW kind, NEW ks \in SUBSET Answered(q, kind), ks # {}
    PROVE  Done(Latest(q, kind, ks))
<1>1. ks \in SUBSET (1..Most(pipeline, kind))
  BY DEF Answered
<1>2. Max(ks) \in ks
  BY <1>1, NumbersOfTurns, Greatest
<1> QED BY <1>2 DEF Latest, Answered

\* A round's draft is a completed turn (partner_draft).
LEMMA PartnerDraftDone ==
    ASSUME IsLayout(pipeline), NEW q, NEW r, Done(Turn(q, "draft", r))
    PROVE  Done(PartnerDraft(q, r))
BY LatestIsDone DEF PartnerDraft

\* So is the draft the panel is asked about, once there is one (judged_draft).
LEMMA JudgedDraftDone ==
    ASSUME IsLayout(pipeline), NEW q, JudgedDraft(q) # NoDraft
    PROVE  Done(JudgedDraft(q))
<1>1. Answered(q, "draft") \ {1} \in SUBSET Answered(q, "draft")
  OBVIOUS
<1> QED BY <1>1, LatestIsDone DEF JudgedDraft, LatestDraft

\* Only another draft changes which draft a review is of.
LEMMA SamePartner ==
    ASSUME NEW u, NEW rec, Grows(u, rec), NEW q, NEW r, u.unit # q \/ u.kind # "bolster"
    PROVE  PartnerDraft(q, r)' = PartnerDraft(q, r)
<1>1. Answered(q, "bolster")' = Answered(q, "bolster") /\ pipeline' = pipeline
  BY Untouched DEF Grows
<1> QED BY <1>1 DEF PartnerDraft, AdversarialFirst, Latest

LEMMA SameJudged ==
    ASSUME NEW u, NEW rec, Grows(u, rec), NEW q, u.unit # q \/ u.kind \notin {"draft", "bolster"}
    PROVE  LatestDraft(q)' = LatestDraft(q) /\ JudgedDraft(q)' = JudgedDraft(q)
<1>1. /\ Answered(q, "draft")' = Answered(q, "draft")
      /\ Answered(q, "bolster")' = Answered(q, "bolster")
      /\ pipeline' = pipeline
  BY Untouched DEF Grows
<1>2. LatestDraft(q)' = LatestDraft(q)
  BY <1>1 DEF LatestDraft, Latest
<1> QED BY <1>1, <1>2 DEF JudgedDraft, AdversarialFirst, Latest

LEMMA SameOperative ==
    ASSUME NEW u, NEW rec, Grows(u, rec), NEW q, u.unit # q \/ u.kind \notin Drafting
    PROVE  OperativeDraft(q)' = OperativeDraft(q)
<1>1. /\ Answered(q, "restructure")' = Answered(q, "restructure")
      /\ JudgedDraft(q)' = JudgedDraft(q)
  BY Untouched, SameJudged DEF Drafting
<1> QED BY <1>1 DEF OperativeDraft, Latest

\* The weak objections are those of one draft and of the judges heard.
LEMMA SameWeak ==
    ASSUME Sound(pipeline), NEW u, NEW rec, Grows(u, rec), NEW q,
           JudgedDraft(q)' = JudgedDraft(q),
           Answered(q, "judge")' = Answered(q, "judge")
    PROVE  WeakObjections(q)' = WeakObjections(q)
<1>1. \A k \in Answered(q, "judge") : Done(Turn(q, "judge", k))
  BY DEF Answered
<1>2. \A k \in Answered(q, "judge") :
         Said(Turn(q, "judge", k))' = Said(Turn(q, "judge", k))
  BY <1>1, DoneStays
<1>3. Heard(q)' = Heard(q)
  BY <1>2 DEF Heard
<1>4. pipeline' = pipeline
  BY DEF Grows
<1>5. CASE JudgedDraft(q) = NoDraft
  BY <1>4, <1>5 DEF WeakObjections
<1>6. CASE JudgedDraft(q) # NoDraft
  <2>1. Done(JudgedDraft(q))
    BY <1>6, JudgedDraftDone DEF Sound
  <2>2. \A t : Done(t) => Said(t)' = Said(t)
    BY GrownDone DEF Done, Said
  <2>3. Said(JudgedDraft(q))' = Said(JudgedDraft(q))
    BY <2>1, GrownDone DEF Done, Said
  <2> QED BY <1>3, <1>4, <2>3 DEF WeakObjections
<1> QED BY <1>5, <1>6

-----------------------------------------------------------------------------
(* A stage that is over stays over. *)

\* A completed turn is of a stage of the pipeline, and the stages before it are over.
WellOrdered ==
    \A t \in DOMAIN done :
        /\ Proper(t) /\ StageOf(t) \in pipeline.stages
        /\ \A h \in pipeline.before[StageOf(t)] : StageComplete(t.unit, h)

\* What is completed next is a turn the plan asks for, with the draft it names.
Completes(u, rec) == Grows(u, rec) /\ Planned(u.unit, [turn |-> u, basis |-> rec.basis])

LEMMA CompletesPlanned ==
    ASSUME NEW u, NEW rec, Completes(u, rec)
    PROVE  /\ Grows(u, rec) /\ Proper(u) /\ ~Done(u)
           /\ StageOf(u) \in FirstIncomplete(u.unit)
BY DEF Completes, Planned

LEMMA NotBehind ==
    ASSUME Sound(pipeline), WellOrdered, NEW u, StageOf(u) \in FirstIncomplete(u.unit),
           NEW t, Done(t), t.unit = u.unit
    PROVE  ~Leads(pipeline.strategy, StageOf(u), StageOf(t))
<1>1. SUFFICES ASSUME Leads(pipeline.strategy, StageOf(u), StageOf(t)) PROVE FALSE
  OBVIOUS
<1>2. StageOf(u) \in pipeline.stages /\ ~StageComplete(u.unit, StageOf(u))
  BY DEF FirstIncomplete
<1>3. /\ StageOf(t) \in pipeline.stages
      /\ \A h \in pipeline.before[StageOf(t)] : StageComplete(u.unit, h)
  BY DEF WellOrdered, Done
<1>4. StageOf(u) \in pipeline.before[StageOf(t)]
  BY <1>1, <1>2, <1>3 DEF Sound
<1> QED BY <1>2, <1>3, <1>4

LEMMA StageOfDrafts ==
    ASSUME NEW u
    PROVE  /\ u.kind \in {"draft", "bolster"} => StageOf(u) \in DraftStages
           /\ u.kind = "bolster" => StageOf(u) = "bolster"
           /\ u.kind = "restructure" => StageOf(u) = "restructure"
           /\ u.kind = "judge" => StageOf(u) \in Panels
           /\ u.kind \in {"critique", "loop"} => StageOf(u) = "partner_loop"
           /\ u.kind \in {"juror", "final"} => StageOf(u) \in Gates
BY DEF StageOf, DraftStages, Panels, Gates

\* Once a review is in, no draft is written that it should have been of.
LEMMA NoLateDraft ==
    ASSUME Sound(pipeline), WellOrdered, NEW u, StageOf(u) \in FirstIncomplete(u.unit),
           NEW t, Done(t), t.unit = u.unit
    PROVE  /\ t.kind \in {"critique", "loop"} /\ AdversarialFirst => u.kind # "bolster"
           /\ t.kind = "judge" => u.kind \notin {"draft", "bolster"}
           /\ t.kind \in {"juror", "final"} => u.kind \notin Drafting
           /\ t.kind = "restructure" => u.kind # "judge"
<1>1. ~Leads(pipeline.strategy, StageOf(u), StageOf(t))
  BY NotBehind
<1> QED BY <1>1, StageOfDrafts DEF Leads, AdversarialFirst, DraftStages, Panels, Gates, Drafting

LEMMA RoundStays ==
    ASSUME NEW u, NEW rec, Grows(u, rec), NEW q, NEW r, RoundComplete(q, r)
    PROVE  RoundComplete(q, r)'
<1>1. RoundTurns' = RoundTurns
  BY DEF RoundTurns, Grows
<1>2. \A kind \in RoundTurns : Done(Turn(q, kind, r))'
  BY GrownDone DEF RoundComplete, Done
<1> QED BY <1>1, <1>2 DEF RoundComplete

\* Whether a completed round settles the loop is read from the round and its drafts.
LEMMA SameSettles ==
    ASSUME Sound(pipeline), NEW u, NEW rec, Grows(u, rec),
           NEW q, NEW r \in 1..pipeline.ap, \A i \in 1..r : RoundComplete(q, i),
           \A i : PartnerDraft(q, i)' = PartnerDraft(q, i)
    PROVE  SettlesAt(q, r)' <=> SettlesAt(q, r)
<1>1. pipeline' = pipeline /\ pipeline.ap \in Nat
  BY DEF Grows, Sound, IsLayout
<1>2. r \in 1..r /\ (1 < r => r - 1 \in 1..r)
  BY <1>1
<1>3. \A i \in 1..r : Done(Turn(q, "draft", i)) /\ Done(Turn(q, "critique", i))
  BY DEF RoundComplete, RoundTurns
<1>4. pipeline.scored => Done(Turn(q, "loop", r))
  BY <1>2 DEF RoundComplete, RoundTurns
<1>5. \A t : Done(t) => done'[t] = done[t]
  BY GrownDone DEF Done
<1>6. Said(Turn(q, "critique", r))' = Said(Turn(q, "critique", r))
  BY <1>2, <1>3, <1>5 DEF Said
<1>7. pipeline.scored => Said(Turn(q, "loop", r))' = Said(Turn(q, "loop", r))
  BY <1>4, <1>5 DEF Said
<1>8. ASSUME NEW i \in 1..r PROVE Said(PartnerDraft(q, i))' = Said(PartnerDraft(q, i))
  <2>1. Done(PartnerDraft(q, i))
    BY <1>3, PartnerDraftDone DEF Sound
  <2> QED BY <1>5, <2>1 DEF Said
<1>9. pipeline.scored => (ConvergedAt(q, r)' <=> ConvergedAt(q, r))
  BY <1>1, <1>2, <1>7, <1>8 DEF ConvergedAt
<1>10. MinimumRounds' = MinimumRounds
  BY <1>1 DEF MinimumRounds
<1> QED BY <1>1, <1>6, <1>9, <1>10 DEF SettlesAt

\* A settled loop is not reopened (PartnerLoopStage.is_complete).
LEMMA SettledStays ==
    ASSUME Sound(pipeline), WellOrdered, NEW u, NEW rec, Completes(u, rec), NEW q, Settled(q)
    PROVE  Settled(q)'
<1>0. Grows(u, rec) /\ pipeline' = pipeline /\ pipeline.ap \in Nat
  BY CompletesPlanned DEF Grows, Sound, IsLayout
<1>1. PICK r \in 1..pipeline.ap : (\A i \in 1..r : RoundComplete(q, i)) /\ SettlesAt(q, r)
  BY DEF Settled
<1>2. Done(Turn(q, "critique", r))
  <2>1. r \in 1..r
    BY <1>0
  <2> QED BY <1>1, <2>1 DEF RoundComplete, RoundTurns
<1>3. ASSUME NEW i PROVE PartnerDraft(q, i)' = PartnerDraft(q, i)
  <2>1. CASE u.unit # q \/ u.kind # "bolster"
    BY <1>0, <2>1, SamePartner
  <2>2. CASE u.unit = q /\ u.kind = "bolster"
    <3>1. ~AdversarialFirst
      BY <1>2, <2>2, CompletesPlanned, NoLateDraft, PartsOfTurn
    <3> QED BY <1>0, <3>1 DEF PartnerDraft, AdversarialFirst
  <2> QED BY <2>1, <2>2
<1>4. SettlesAt(q, r)'
  BY <1>0, <1>1, <1>3, SameSettles
<1>5. \A i \in 1..r : RoundComplete(q, i)'
  BY <1>0, <1>1, RoundStays
<1> QED BY <1>0, <1>4, <1>5 DEF Settled

\* Nor is the panel held to have ruled on something else (RestructureStage).
LEMMA WeakStays ==
    ASSUME Sound(pipeline), WellOrdered, NEW u, NEW rec, Completes(u, rec), NEW q,
           AllAnswered(q, "judge")
    PROVE  WeakObjections(q)' = WeakObjections(q)
<1>1. Grows(u, rec)
  BY CompletesPlanned
<1>2. Done(Turn(q, "judge", 1))
  <2>1. 1 \in 1..Most(pipeline, "judge")
    BY DEF Most, Sound, IsLayout
  <2> QED BY <2>1 DEF AllAnswered, Missing, Answered
<1>3. u.unit # q \/ u.kind \notin {"draft", "bolster"}
  BY <1>2, CompletesPlanned, NoLateDraft, PartsOfTurn
<1> QED BY <1>1, <1>3, SameJudged, AnsweredStays, SameWeak

LEMMA StagesStay ==
    ASSUME Sound(pipeline), WellOrdered, NEW u, NEW rec, Completes(u, rec), NEW q,
           NEW s \in pipeline.stages, StageComplete(q, s)
    PROVE  StageComplete(q, s)'
<1>1. Grows(u, rec)
  BY CompletesPlanned
<1>2. CASE s = "associate_draft"
  BY <1>1, <1>2, DoneStays DEF StageComplete
<1>3. CASE s = "partner_loop"
  BY <1>3, SettledStays DEF StageComplete
<1>4. CASE s = "restructure"
  <2>1. AllAnswered(q, "judge") /\ (WeakObjections(q) = {} \/ AllAnswered(q, "restructure"))
    BY <1>4 DEF StageComplete
  <2>2. AllAnswered(q, "judge")' /\ WeakObjections(q)' = WeakObjections(q)
    BY <1>1, <2>1, WeakStays, AnsweredStays
  <2>3. AllAnswered(q, "restructure") => AllAnswered(q, "restructure")'
    BY <1>1, AnsweredStays
  <2> QED BY <1>4, <2>1, <2>2, <2>3 DEF StageComplete
<1>5. CASE s \in {"oc_attack", "bolster"} \cup Panels \cup Gates
  <2>1. \A kind : AllAnswered(q, kind) => AllAnswered(q, kind)'
    BY <1>1, AnsweredStays
  <2> QED BY <1>5, <2>1 DEF StageComplete, Panels, Gates
<1> QED BY <1>2, <1>3, <1>4, <1>5 DEF Sound

-----------------------------------------------------------------------------
(* Reviews are of the drafts they are paired with. *)

Matches(t, basis) ==
    /\ t.kind \in {"critique", "loop"} => basis = PartnerDraft(t.unit, t.k)
    /\ t.kind = "judge" => basis = JudgedDraft(t.unit)
    /\ t.kind \in {"final", "juror"} => basis = OperativeDraft(t.unit)

LEMMA ReviewsAreMatches ==
    ReviewsMatchDrafts <=> \A t \in DOMAIN done : Matches(t, done[t].basis)
BY DEF ReviewsMatchDrafts, Matches

\* A plan names the draft a review will be read with (Stage.plan, judged_draft).
LEMMA PlannedMatches ==
    ASSUME Sound(pipeline), WellOrdered, NEW q, NEW spec, Planned(q, spec)
    PROVE  Matches(spec.turn, spec.basis)
<1> DEFINE t == spec.turn
<1>1. /\ Proper(t) /\ t.unit = q /\ StageOf(t) \in FirstIncomplete(t.unit)
      /\ spec \in PlanStage(q, StageOf(t))
  BY DEF Planned
<1>2. CASE t.kind \in {"critique", "loop"}
  <2>1. spec \in PlanPartnerLoop(q)
    BY <1>1, <1>2, StageOfDrafts, StagePlans
  <2>2. PICK r \in 1..pipeline.ap : spec = PlanRound(q, r) /\ ~RoundComplete(q, r)
    BY <2>1, LoopPlans
  <2>3. t \in {Turn(q, "critique", r), Turn(q, "loop", r)} /\ spec.basis = PartnerDraft(q, r)
    BY <1>2, <2>2, RoundWants, PartsOfTurn
  <2>4. t.k = r
    BY <2>3, PartsOfTurn
  <2> QED BY <1>1, <1>2, <2>3, <2>4 DEF Matches
<1>3. CASE t.kind = "judge"
  <2>1. StageOf(t) \in Panels
    BY <1>3, StageOfDrafts
  <2>2. spec.basis = OperativeDraft(q)
    BY <1>1, <2>1, StagePlans, AtOnceWants
  <2>3. ASSUME NEW k \in Answered(q, "restructure") PROVE FALSE
    <3>1. Done(Turn(q, "restructure", k))
      BY DEF Answered
    <3>2. t.kind # "judge"
      BY <1>1, <3>1, NoLateDraft, PartsOfTurn
    <3> QED BY <1>3, <3>2
  <2>4. OperativeDraft(q) = JudgedDraft(q)
    BY <2>3 DEF OperativeDraft
  <2> QED BY <1>1, <1>3, <2>2, <2>4 DEF Matches
<1>4. CASE t.kind \in {"final", "juror"}
  <2>1. StageOf(t) = IF t.kind = "juror" THEN "jury_panel" ELSE "rubric_gate"
    BY <1>4 DEF StageOf
  <2>2. spec.basis = OperativeDraft(q)
    BY <1>1, <2>1, StagePlans, AtOnceWants
  <2> QED BY <1>1, <1>4, <2>2 DEF Matches
<1> HIDE DEF t
<1>5. CASE t.kind \notin {"critique", "loop", "judge", "final", "juror"}
  BY <1>5 DEF Matches, t
<1> QED BY <1>2, <1>3, <1>4, <1>5 DEF t

LEMMA MatchStays ==
    ASSUME Sound(pipeline), WellOrdered, NEW u, NEW rec, Completes(u, rec),
           NEW t, NEW basis, Matches(t, basis), Done(t) \/ t = u
    PROVE  Matches(t, basis)'
<1>1. Grows(u, rec) /\ pipeline' = pipeline /\ StageOf(u) \in FirstIncomplete(u.unit)
  BY CompletesPlanned DEF Grows
<1>2. ASSUME t.kind \in {"critique", "loop"}
      PROVE  PartnerDraft(t.unit, t.k)' = PartnerDraft(t.unit, t.k)
  <2>1. CASE u.unit # t.unit \/ u.kind # "bolster"
    BY <1>1, <2>1, SamePartner
  <2>2. CASE u.unit = t.unit /\ u.kind = "bolster"
    <3>1. ~AdversarialFirst
      BY <1>1, <1>2, <2>2, NoLateDraft
    <3> QED BY <1>1, <3>1 DEF PartnerDraft, AdversarialFirst
  <2> QED BY <2>1, <2>2
<1>3. ASSUME t.kind = "judge" PROVE JudgedDraft(t.unit)' = JudgedDraft(t.unit)
  <2>1. u.unit # t.unit \/ u.kind \notin {"draft", "bolster"}
    BY <1>1, <1>3, NoLateDraft
  <2> QED BY <1>1, <2>1, SameJudged
<1>4. ASSUME t.kind \in {"final", "juror"} PROVE OperativeDraft(t.unit)' = OperativeDraft(t.unit)
  <2>1. u.unit # t.unit \/ u.kind \notin Drafting
    BY <1>1, <1>4, NoLateDraft DEF Drafting
  <2> QED BY <1>1, <2>1, SameOperative
<1> QED BY <1>2, <1>3, <1>4 DEF Matches

LEMMA ReviewsStay ==
    ASSUME Sound(pipeline), WellOrdered, ReviewsMatchDrafts,
           NEW u, NEW rec, Completes(u, rec)
    PROVE  ReviewsMatchDrafts'
<1>1. Grows(u, rec) /\ Planned(u.unit, [turn |-> u, basis |-> rec.basis])
  BY DEF Completes
<1>2. ASSUME NEW t \in DOMAIN done' PROVE Matches(t, done[t].basis)'
  <2>1. CASE t = u
    <3>1. Matches(u, rec.basis)
      BY <1>1, PlannedMatches
    <3>2. Matches(u, rec.basis)'
      BY <3>1, MatchStays
    <3>3. done'[t].basis = rec.basis
      BY <1>1, <2>1, GrownDone
    <3> QED BY <2>1, <3>2, <3>3 DEF Matches
  <2>2. CASE t # u
    <3>1. t \in DOMAIN done /\ done'[t] = done[t]
      BY <1>1, <2>2, GrownDone
    <3>2. PICK basis : basis = done[t].basis
      OBVIOUS
    <3>3. Matches(t, basis)
      BY <3>1, <3>2, ReviewsAreMatches
    <3>4. Matches(t, basis)'
      BY <3>1, <3>3, MatchStays DEF Done
    <3>5. done'[t].basis = basis
      BY <3>1, <3>2
    <3> QED BY <3>4, <3>5 DEF Matches
  <2> QED BY <2>1, <2>2
<1>3. (\A t \in DOMAIN done : Matches(t, done[t].basis))'
  BY <1>2
<1> QED BY <1>3, ReviewsAreMatches, PTL

\* The stages before a completed turn's stay over.
LEMMA OrderStays ==
    ASSUME Sound(pipeline), WellOrdered, NEW u, NEW rec, Completes(u, rec)
    PROVE  WellOrdered'
<1>1. /\ Grows(u, rec) /\ Proper(u) /\ pipeline' = pipeline
      /\ StageOf(u) \in FirstIncomplete(u.unit)
  BY CompletesPlanned DEF Grows
<1>2. ASSUME NEW t \in DOMAIN done'
      PROVE  /\ Proper(t) /\ StageOf(t) \in pipeline.stages
             /\ \A h \in pipeline.before[StageOf(t)] : StageComplete(t.unit, h)
  <2>1. CASE t = u
    BY <1>1, <2>1 DEF FirstIncomplete
  <2>2. CASE t # u
    BY <1>1, <2>2, GrownDone DEF WellOrdered
  <2> QED BY <2>1, <2>2
<1>3. ASSUME NEW t \in DOMAIN done', NEW h \in pipeline.before[StageOf(t)]
      PROVE  StageComplete(t.unit, h)'
  <2>1. h \in pipeline.stages
    BY <1>2 DEF Sound
  <2> QED BY <1>2, <2>1, StagesStay
<1>4. \A t : (Proper(t)' <=> Proper(t)) /\ StageOf(t)' = StageOf(t)
  BY <1>1 DEF Proper, StageOf
<1> QED BY <1>1, <1>2, <1>3, <1>4 DEF WellOrdered

-----------------------------------------------------------------------------
(* What was asked is still wanted. *)

\* Another request's turn changes nothing for this one.
LEMMA ElsewhereRounds ==
    ASSUME Sound(pipeline), NEW u, NEW rec, Grows(u, rec), NEW q, u.unit # q
    PROVE  /\ \A r : RoundComplete(q, r)' <=> RoundComplete(q, r)
           /\ Settled(q)' <=> Settled(q)
           /\ PlanPartnerLoop(q)' = PlanPartnerLoop(q)
<1>1. pipeline' = pipeline /\ RoundTurns' = RoundTurns
  BY DEF Grows, RoundTurns
<1>2. \A kind, k : Done(Turn(q, kind, k))' <=> Done(Turn(q, kind, k))
  BY Untouched
<1>3. \A r : PartnerDraft(q, r)' = PartnerDraft(q, r)
  BY SamePartner
<1>4. \A r : RoundComplete(q, r)' <=> RoundComplete(q, r)
  BY <1>1, <1>2 DEF RoundComplete
<1>5. \A r \in 1..pipeline.ap : (\A i \in 1..r : RoundComplete(q, i)) =>
          (SettlesAt(q, r)' <=> SettlesAt(q, r))
  BY <1>3, SameSettles
<1>6. Settled(q)' <=> Settled(q)
  BY <1>1, <1>4, <1>5 DEF Settled
<1>7. \A r : PlanRound(q, r)' = PlanRound(q, r)
  BY <1>2, <1>3 DEF PlanRound
<1> QED BY <1>1, <1>4, <1>6, <1>7 DEF PlanPartnerLoop

\* Once there is a first draft, there is one to review.
LEMMA DraftsAreDone ==
    ASSUME Sound(pipeline), NEW q, Done(Turn(q, "draft", 1))
    PROVE  Done(LatestDraft(q)) /\ Done(JudgedDraft(q)) /\ Done(OperativeDraft(q))
<1>1. IsLayout(pipeline)
  BY DEF Sound
<1>2. 1 \in Answered(q, "draft")
  BY DEF Answered, Most, Sound, IsLayout
<1>3. Done(LatestDraft(q))
  BY <1>1, <1>2, LatestIsDone DEF LatestDraft
<1>4. Answered(q, "draft") \ {1} \in SUBSET Answered(q, "draft")
  OBVIOUS
<1>5. Done(JudgedDraft(q))
  BY <1>1, <1>3, <1>4, LatestIsDone DEF JudgedDraft
<1>6. Done(OperativeDraft(q))
  BY <1>1, <1>5, LatestIsDone DEF OperativeDraft
<1> QED BY <1>3, <1>5, <1>6

\* What a jury is to read is there, and what it may not read it may not read later:
\* no draft is written once its stage is the next.
LEMMA JuryReads ==
    ASSUME Sound(pipeline), NEW q, "jury_panel" \in FirstIncomplete(q),
           NEW u, NEW rec, Grows(u, rec), OperativeDraft(q)' = OperativeDraft(q)
    PROVE  JuryCannotRead(q)' <=> JuryCannotRead(q)
<1>1. "associate_draft" \in pipeline.before["jury_panel"]
  BY DEF Sound, Leads, FirstIncomplete
<1>2. Done(Turn(q, "draft", 1))
  BY <1>1 DEF FirstIncomplete, StageComplete
<1>3. PICK d : d = OperativeDraft(q)
  OBVIOUS
<1>4. Done(d)
  BY <1>2, <1>3, DraftsAreDone
<1>5. Said(d)' = Said(d)
  BY <1>4, DoneStays
<1> QED BY <1>3, <1>5 DEF JuryCannotRead

LEMMA Elsewhere ==
    ASSUME Sound(pipeline), NEW u, NEW rec, Grows(u, rec), NEW q, u.unit # q
    PROVE  PlanRequest(q)' = PlanRequest(q)
<1>1. pipeline' = pipeline
  BY DEF Grows
<1>2. /\ \A kind : Missing(q, kind)' = Missing(q, kind)
      /\ \A kind : AllAnswered(q, kind)' <=> AllAnswered(q, kind)
      /\ \A kind, k : Done(Turn(q, kind, k))' <=> Done(Turn(q, kind, k))
      /\ Answered(q, "judge")' = Answered(q, "judge")
  BY Untouched
<1>3. /\ LatestDraft(q)' = LatestDraft(q) /\ JudgedDraft(q)' = JudgedDraft(q)
      /\ OperativeDraft(q)' = OperativeDraft(q)
  BY SameJudged, SameOperative
<1>4. WeakObjections(q)' = WeakObjections(q)
  BY <1>2, <1>3, SameWeak
<1>5. (Settled(q)' <=> Settled(q)) /\ PlanPartnerLoop(q)' = PlanPartnerLoop(q)
  BY ElsewhereRounds
<1>6. \A s : StageComplete(q, s)' <=> StageComplete(q, s)
  BY <1>2, <1>4, <1>5 DEF StageComplete
<1>7. /\ \A kind : OneByOne(q, kind, LatestDraft(q))' = OneByOne(q, kind, LatestDraft(q))
      /\ \A kind : OneByOne(q, kind, JudgedDraft(q))' = OneByOne(q, kind, JudgedDraft(q))
      /\ \A kind : AtOnce(q, kind, OperativeDraft(q))' = AtOnce(q, kind, OperativeDraft(q))
  BY <1>2, <1>3 DEF OneByOne, AtOnce
<1>8. ASSUME NEW s \in FirstIncomplete(q) PROVE PlanStage(q, s)' = PlanStage(q, s)
  <2>1. s = "jury_panel" => (JuryCannotRead(q)' <=> JuryCannotRead(q))
    BY <1>3, <1>8, JuryReads
  <2> QED BY <1>4, <1>5, <1>7, <2>1 DEF PlanStage
<1>9. FirstIncomplete(q)' = FirstIncomplete(q)
  BY <1>1, <1>6 DEF FirstIncomplete
<1> QED BY <1>8, <1>9 DEF PlanRequest

\* One stage of a request plans at a time.
LEMMA OneStage ==
    ASSUME Sound(pipeline), NEW q, NEW s \in FirstIncomplete(q), NEW h \in FirstIncomplete(q)
    PROVE  s = h
BY DEF FirstIncomplete, Sound

\* A stage that is not a panel plans one turn at a time.
LEMMA OneTurn ==
    ASSUME Sound(pipeline), NEW q, NEW a, NEW b, Planned(q, a), Planned(q, b),
           StageOf(a.turn) = StageOf(b.turn), StageOf(a.turn) \notin Panels \cup Gates
    PROVE  a.turn = b.turn
<1> DEFINE s == StageOf(a.turn)
<1>1. a \in PlanStage(q, s) /\ b \in PlanStage(q, s)
  BY DEF Planned
<1>2. s \in pipeline.stages
  BY DEF Planned, FirstIncomplete
<1> HIDE DEF s
<1>3. CASE s = "associate_draft"
  BY <1>1, <1>3, StagePlans
<1>4. CASE s = "partner_loop"
  <2>1. PICK r \in 1..pipeline.ap :
            /\ a = PlanRound(q, r) /\ ~RoundComplete(q, r)
            /\ \A i \in 1..r - 1 : RoundComplete(q, i)
    BY <1>1, <1>4, StagePlans, LoopPlans
  <2>2. PICK t \in 1..pipeline.ap :
            /\ b = PlanRound(q, t) /\ ~RoundComplete(q, t)
            /\ \A i \in 1..t - 1 : RoundComplete(q, i)
    BY <1>1, <1>4, StagePlans, LoopPlans
  <2>3. ~(r < t) /\ ~(t < r)
    BY <2>1, <2>2
  <2>4. r = t
    BY <2>3
  <2> QED BY <2>1, <2>2, <2>4
<1>5. CASE s \in {"oc_attack", "bolster", "restructure"}
  <2>1. PICK kind, basis : a \in OneByOne(q, kind, basis) /\ b \in OneByOne(q, kind, basis)
    BY <1>1, <1>5, StagePlans
  <2>2. PICK k \in Missing(q, kind) :
            a.turn = Turn(q, kind, k) /\ \A i \in 1..k - 1 : Done(Turn(q, kind, i))
    BY <2>1 DEF OneByOne
  <2>3. PICK n \in Missing(q, kind) :
            b.turn = Turn(q, kind, n) /\ \A i \in 1..n - 1 : Done(Turn(q, kind, i))
    BY <2>1 DEF OneByOne
  <2>4. /\ k \in 1..Most(pipeline, kind) /\ n \in 1..Most(pipeline, kind)
        /\ ~Done(Turn(q, kind, k)) /\ ~Done(Turn(q, kind, n))
    BY DEF Missing, Answered
  <2>5. k = n
    BY <2>2, <2>3, <2>4
  <2> QED BY <2>2, <2>3, <2>5
<1> QED BY <1>2, <1>3, <1>4, <1>5 DEF Sound, s

\* A member of a panel is still asked while its seat is empty.
LEMMA SeatStaysWanted ==
    ASSUME NEW q, NEW kind, NEW basis, NEW spec \in AtOnce(q, kind, basis),
           NEW u, NEW rec, Grows(u, rec), spec.turn # u
    PROVE  /\ ~AllAnswered(q, kind)' /\ spec \in AtOnce(q, kind, basis)'
<1>1. PICK k \in Missing(q, kind) : spec = [turn |-> Turn(q, kind, k), basis |-> basis]
  BY DEF AtOnce
<1>2. k \in 1..Most(pipeline, kind) /\ Turn(q, kind, k) \notin DOMAIN done
  BY DEF Missing, Answered, Done
<1>3. Turn(q, kind, k) \notin DOMAIN done'
  <2>1. Turn(q, kind, k) # u
    BY <1>1
  <2>2. DOMAIN done' = DOMAIN done \cup {u}
    BY GrownDone
  <2> QED BY <1>2, <2>1, <2>2
<1>4. pipeline' = pipeline
  BY DEF Grows
<1>5. k \in Missing(q, kind)'
  BY <1>2, <1>3, <1>4 DEF Missing, Answered, Done
<1> QED BY <1>1, <1>5 DEF AllAnswered, AtOnce

LEMMA StillWanted ==
    ASSUME Sound(pipeline), WellOrdered, NEW u, NEW rec, Completes(u, rec),
           NEW q, NEW spec \in PlanRequest(q), spec.turn # u
    PROVE  spec \in PlanRequest(q)'
<1>0. PICK s : s = StageOf(spec.turn)
  OBVIOUS
<1>1. /\ Grows(u, rec) /\ pipeline' = pipeline
      /\ Planned(u.unit, [turn |-> u, basis |-> rec.basis])
  BY DEF Completes, Grows
<1>2. Planned(q, spec)
  BY PlannedTurns
<1>3. s \in FirstIncomplete(q) /\ spec \in PlanStage(q, s)
  BY <1>0, <1>2 DEF Planned
<1>4. CASE u.unit # q
  BY <1>1, <1>4, Elsewhere
<1>5. CASE u.unit = q
  <2>1. StageOf(u) = s
    BY <1>1, <1>3, <1>5, OneStage DEF Planned
  <2>2. s \in Panels \cup Gates
    BY <1>0, <1>1, <1>2, <1>5, <2>1, OneTurn
  <2>3. PICK kind \in {"judge", "juror", "final"} :
            /\ spec \in AtOnce(q, kind, OperativeDraft(q))
            /\ kind = IF s \in Panels THEN "judge" ELSE IF s = "jury_panel" THEN "juror"
                      ELSE "final"
    BY <1>3, <2>2, StagePlans DEF Panels, Gates
  <2>4. u.kind \notin Drafting
    BY <2>1, <2>2 DEF StageOf, Panels, Gates, Drafting
  <2>5. OperativeDraft(q)' = OperativeDraft(q)
    BY <1>1, <2>4, SameOperative
  <2>6. PICK basis : basis = OperativeDraft(q)
    OBVIOUS
  <2>7. ~AllAnswered(q, kind)' /\ spec \in AtOnce(q, kind, basis)'
    BY <1>1, <2>3, <2>6, SeatStaysWanted
  <2>8. ~StageComplete(q, s)'
    BY <2>2, <2>3, <2>7 DEF StageComplete, Panels, Gates
  <2>9. \A h \in pipeline.before[s] : StageComplete(q, h)'
    <3> TAKE h \in pipeline.before[s]
    <3>1. h \in pipeline.stages /\ StageComplete(q, h)
      BY <1>3 DEF FirstIncomplete, Sound
    <3> QED BY <3>1, StagesStay
  <2>10. s \in FirstIncomplete(q)'
    BY <1>1, <1>3, <2>8, <2>9 DEF FirstIncomplete
  <2>11. spec \in AtOnce(q, kind, OperativeDraft(q))'
    BY <2>5, <2>6, <2>7 DEF AtOnce
  <2>j. s = "jury_panel" => ~JuryCannotRead(q)'
    <3> SUFFICES ASSUME s = "jury_panel" PROVE ~JuryCannotRead(q)'
      OBVIOUS
    <3>1. ~JuryCannotRead(q)
      BY <1>3 DEF PlanStage
    <3> QED BY <1>1, <1>3, <2>5, <3>1, JuryReads
  <2>12. spec \in PlanStage(q, s)'
    BY <2>2, <2>3, <2>11, <2>j DEF PlanStage, Panels, Gates
  <2> QED BY <2>10, <2>12 DEF PlanRequest
<1> QED BY <1>4, <1>5

-----------------------------------------------------------------------------
(* The invariant and the theorems. *)

Committed == \E l \in Launches : Compiles(l) /\ pipeline = Compiled(l)

\* What was asked is planned still, by the request it is of.
AskedIsPlanned ==
    \A call \in asked :
        \/ Done(call.turn)
        \/ [turn |-> call.turn, basis |-> call.basis] \in PlanRequest(call.turn.unit)

IInv ==
    /\ Committed
    /\ WellOrdered
    /\ AskedIsPlanned
    /\ ReviewsMatchDrafts

LEMMA CommittedIsSound ==
    ASSUME Committed PROVE Sound(pipeline)
BY CompiledIsSound DEF Committed

LEMMA PlanUnchanged ==
    ASSUME UNCHANGED <<pipeline, done>>, NEW q
    PROVE  /\ \A s : StageComplete(q, s)' <=> StageComplete(q, s)
           /\ PlanRequest(q)' = PlanRequest(q)
           /\ OverLimit(q)' <=> OverLimit(q)
<1>1. pipeline' = pipeline /\ done' = done
  OBVIOUS
<1>2. /\ \A t : (Done(t)' <=> Done(t)) /\ Said(t)' = Said(t)
      /\ \A kind : Answered(q, kind)' = Answered(q, kind)
      /\ \A kind : Missing(q, kind)' = Missing(q, kind)
      /\ \A kind : AllAnswered(q, kind)' <=> AllAnswered(q, kind)
  BY <1>1 DEF Done, Said, Answered, Missing, AllAnswered
<1>3. \A r : PartnerDraft(q, r)' = PartnerDraft(q, r)
  BY <1>1, <1>2 DEF PartnerDraft, AdversarialFirst, Latest
<1>4. LatestDraft(q)' = LatestDraft(q) /\ JudgedDraft(q)' = JudgedDraft(q)
  BY <1>1, <1>2 DEF LatestDraft, JudgedDraft, AdversarialFirst, Latest
<1>5. OperativeDraft(q)' = OperativeDraft(q)
  BY <1>2, <1>4 DEF OperativeDraft, Latest
<1>6. WeakObjections(q)' = WeakObjections(q)
  BY <1>1, <1>2, <1>4 DEF WeakObjections, Heard
<1>7. /\ \A r : RoundComplete(q, r)' <=> RoundComplete(q, r)
      /\ \A r : PlanRound(q, r)' = PlanRound(q, r)
  BY <1>1, <1>2, <1>3 DEF RoundComplete, RoundTurns, PlanRound
<1>8. \A r : SettlesAt(q, r)' <=> SettlesAt(q, r)
  BY <1>1 DEF SettlesAt, ConvergedAt, MinimumRounds, Said, PartnerDraft, Answered, Done,
              AdversarialFirst, Latest
<1>9. (Settled(q)' <=> Settled(q)) /\ PlanPartnerLoop(q)' = PlanPartnerLoop(q)
  BY <1>1, <1>7, <1>8 DEF Settled, PlanPartnerLoop
<1>10. \A s : StageComplete(q, s)' <=> StageComplete(q, s)
  BY <1>2, <1>6, <1>9 DEF StageComplete
<1>11. /\ \A kind : OneByOne(q, kind, LatestDraft(q))' = OneByOne(q, kind, LatestDraft(q))
       /\ \A kind : OneByOne(q, kind, JudgedDraft(q))' = OneByOne(q, kind, JudgedDraft(q))
       /\ \A kind : AtOnce(q, kind, OperativeDraft(q))' = AtOnce(q, kind, OperativeDraft(q))
  BY <1>2, <1>4, <1>5 DEF OneByOne, AtOnce
<1>j. JuryCannotRead(q)' <=> JuryCannotRead(q)
  BY <1>2, <1>5 DEF JuryCannotRead
<1>12. ASSUME NEW s PROVE PlanStage(q, s)' = PlanStage(q, s)
  BY <1>6, <1>9, <1>11, <1>j DEF PlanStage
<1>13. FirstIncomplete(q)' = FirstIncomplete(q)
  BY <1>1, <1>10 DEF FirstIncomplete
<1> QED BY <1>10, <1>12, <1>13, <1>j DEF PlanRequest, OverLimit

\* A step that records nothing leaves every plan as it is.
LEMMA NothingRecorded ==
    ASSUME IInv, UNCHANGED <<pipeline, done>>,
           \A call \in asked' : \/ call \in asked
                                \/ [turn |-> call.turn, basis |-> call.basis]
                                       \in PlanRequest(call.turn.unit)
    PROVE  IInv'
<1>1. pipeline' = pipeline /\ done' = done
  OBVIOUS
<1>2. Committed'
  BY <1>1 DEF IInv, Committed
<1>3. WellOrdered'
  <2>1. \A q, s : StageComplete(q, s)' <=> StageComplete(q, s)
    BY PlanUnchanged
  <2> QED BY <1>1, <2>1 DEF IInv, WellOrdered, Proper, StageOf
<1>4. ReviewsMatchDrafts'
  BY <1>1, ZenonT(60) DEF IInv, ReviewsMatchDrafts, PartnerDraft, JudgedDraft, OperativeDraft, LatestDraft,
      Answered, Done, AdversarialFirst, Latest
<1>5. AskedIsPlanned'
  <2> SUFFICES ASSUME NEW call \in asked', ~Done(call.turn)'
               PROVE  [turn |-> call.turn, basis |-> call.basis]
                          \in PlanRequest(call.turn.unit)'
    BY DEF AskedIsPlanned
  <2>1. ~Done(call.turn)
    BY <1>1 DEF Done
  <2>2. [turn |-> call.turn, basis |-> call.basis] \in PlanRequest(call.turn.unit)
    BY <2>1 DEF IInv, AskedIsPlanned
  <2> QED BY <2>2, PlanUnchanged
<1> QED BY <1>2, <1>3, <1>4, <1>5 DEF IInv

\* An answer is recorded against the plan it was asked for (record_turn).
LEMMA AnswerCompletes ==
    ASSUME IInv, Answer
    PROVE  \E call \in asked : \E rec :
              /\ Completes(call.turn, rec) /\ asked' = asked \ {call}
<1>1. PICK call \in asked :
          /\ ~Done(call.turn)
          /\ \E said \in Outputs(call.turn) :
                done' = Learned(call.turn, [basis |-> call.basis, said |-> said])
          /\ asked' = asked \ {call} /\ pipeline' = pipeline
  BY DEF Answer
<1>2. PICK said : done' = Learned(call.turn, [basis |-> call.basis, said |-> said])
  BY <1>1
<1>3. PICK rec : rec = [basis |-> call.basis, said |-> said]
  OBVIOUS
<1>4. [turn |-> call.turn, basis |-> rec.basis] \in PlanRequest(call.turn.unit)
  BY <1>1, <1>3 DEF IInv, AskedIsPlanned
<1>5. Planned(call.turn.unit, [turn |-> call.turn, basis |-> rec.basis])
  BY <1>4, PlannedTurns, CommittedIsSound DEF IInv
<1>6. Grows(call.turn, rec)
  BY <1>1, <1>2, <1>3 DEF Grows
<1> QED BY <1>1, <1>5, <1>6 DEF Completes

LEMMA AnswerKeeps ==
    ASSUME IInv, Answer PROVE IInv'
<1>0. PICK call \in asked : \E rec : Completes(call.turn, rec) /\ asked' = asked \ {call}
  BY AnswerCompletes
<1>1. PICK rec : Completes(call.turn, rec) /\ asked' = asked \ {call}
  BY <1>0
<1>2. Sound(pipeline) /\ WellOrdered /\ ReviewsMatchDrafts /\ Committed
  BY CommittedIsSound DEF IInv
<1>3. WellOrdered' /\ ReviewsMatchDrafts'
  BY <1>1, <1>2, OrderStays, ReviewsStay
<1>4. Grows(call.turn, rec)
  BY <1>1 DEF Completes
<1>5. Committed'
  BY <1>2, <1>4 DEF Committed, Grows
<1>6. AskedIsPlanned'
  <2> SUFFICES ASSUME NEW other \in asked', ~Done(other.turn)'
               PROVE  [turn |-> other.turn, basis |-> other.basis]
                          \in PlanRequest(other.turn.unit)'
    BY DEF AskedIsPlanned
  <2>1. other \in asked
    BY <1>1
  <2>2. ~Done(other.turn) /\ other.turn # call.turn
    BY <1>4, GrownDone DEF Done
  <2>3. [turn |-> other.turn, basis |-> other.basis] \in PlanRequest(other.turn.unit)
    BY <2>1, <2>2 DEF IInv, AskedIsPlanned
  <2> QED BY <1>1, <1>2, <2>2, <2>3, StillWanted
<1> QED BY <1>3, <1>5, <1>6 DEF IInv

\* An answer that never becomes a turn (_discard, a worker that dies).
Loses == RejectInvalid \/ RejectDegenerate \/ LoseEvaluated

LEMMA LossesRecordNothing ==
    ASSUME Loses PROVE UNCHANGED <<pipeline, units, done>> /\ asked' \subseteq asked
BY DEF Loses, RejectInvalid, RejectDegenerate, LoseEvaluated, Lost

LEMMA InitIInv == Init => IInv
<1> SUFFICES ASSUME Init PROVE IInv
  OBVIOUS
<1>1. Committed
  BY DEF Init, Committed
<1>2. DOMAIN done = {} /\ asked = {}
  BY DEF Init
<1> QED BY <1>1, <1>2 DEF IInv, WellOrdered, AskedIsPlanned, ReviewsMatchDrafts

LEMMA NextIInv == IInv /\ [Next]_vars => IInv'
<1> SUFFICES ASSUME IInv, [Next]_vars PROVE IInv'
  OBVIOUS
<1>1. CASE Ask
  <2>0. PICK q \in 0..units - 1 : \E spec \in PlanRequest(q), copy \in 1..MaxAsked :
            asked' = asked \cup {Call(spec, copy)}
    BY <1>1 DEF Ask
  <2>1. PICK spec \in PlanRequest(q), copy \in 1..MaxAsked :
            asked' = asked \cup {Call(spec, copy)}
    BY <2>0
  <2>2. Planned(q, spec)
    BY PlannedTurns, CommittedIsSound DEF IInv
  <2>3. /\ [turn |-> Call(spec, copy).turn, basis |-> Call(spec, copy).basis]
                \in PlanRequest(Call(spec, copy).turn.unit)
    BY <2>2 DEF Call, Planned
  <2>4. UNCHANGED <<pipeline, done>>
    BY <1>1 DEF Ask
  <2> QED BY <2>1, <2>3, <2>4, NothingRecorded
<1>2. CASE AnswerTwice \/ Refuse \/ Loses \/ UNCHANGED vars
  <2>1. UNCHANGED <<pipeline, done>> /\ asked' \subseteq asked
    BY <1>2, LossesRecordNothing DEF AnswerTwice, Refuse, vars
  <2> QED BY <2>1, NothingRecorded
<1>3. CASE Answer
  BY <1>3, AnswerKeeps
<1> QED BY <1>1, <1>2, <1>3 DEF Next, Loses

THEOREM Invariance == Spec => []IInv
BY InitIInv, NextIInv, PTL DEF Spec

\* Whatever the launch and however the workers' answers interleave, every review is of
\* the draft it is read with: a critique and a score of their round's, a ruling of the
\* draft whose objections it is paired with, the last gate of the operative draft
\* (partner_draft, judged_draft, operative_draft).
THEOREM ReviewsMatch == Spec => []ReviewsMatchDrafts
<1>1. IInv => ReviewsMatchDrafts
  BY DEF IInv
<1> QED BY <1>1, Invariance, PTL

\* A paid answer is still planned, with the draft its prompt showed, when it comes back
\* (record_turn), whatever other workers recorded in between, as long as the run can be
\* planned at all.
THEOREM PaidAnswersAreWanted == Spec => []AnswersAreWanted
<1>1. IInv => AnswersAreWanted
  BY DEF IInv, AskedIsPlanned, AnswersAreWanted
<1> QED BY <1>1, Invariance, PTL

\* No later turn reopens a stage that is over (plan_request, Stage.is_complete).
THEOREM StagesStayOver == Spec => StagesStayComplete
<1>1. ASSUME IInv, [Next]_vars
      PROVE  [\A q \in 0..units - 1 : \A s \in pipeline.stages :
                  StageComplete(q, s) => StageComplete(q, s)']_done
  <2>1. CASE Answer
    <3>1. PICK turn, rec : Completes(turn, rec)
      BY <1>1, <2>1, AnswerCompletes
    <3>2. Sound(pipeline) /\ WellOrdered
      BY <1>1, CommittedIsSound DEF IInv
    <3>3. ASSUME NEW q \in 0..units - 1, NEW s \in pipeline.stages, StageComplete(q, s)
          PROVE  StageComplete(q, s)'
      BY <3>1, <3>2, <3>3, StagesStay
    <3> QED BY <3>3
  <2>2. CASE Ask \/ AnswerTwice \/ Refuse \/ Loses \/ UNCHANGED vars
    BY <2>2, LossesRecordNothing DEF Ask, AnswerTwice, Refuse, vars
  <2> QED BY <1>1, <2>1, <2>2 DEF Next, Loses
<1> QED BY <1>1, Invariance, PTL DEF Spec, StagesStayComplete

-----------------------------------------------------------------------------
(* A request that is not over has a plan. *)

LEMMA SomeStageFirst ==
    ASSUME Sound(pipeline), NEW q, ~RequestComplete(q)
    PROVE  FirstIncomplete(q) # {}
<1>1. PICK S : S = {s \in pipeline.stages : ~StageComplete(q, s)}
  OBVIOUS
<1>2. S \in SUBSET pipeline.stages /\ S # {}
  BY <1>1 DEF RequestComplete
<1>3. PICK s \in S : pipeline.before[s] \cap S = {}
  BY <1>2 DEF Sound
<1>4. pipeline.before[s] \subseteq pipeline.stages
  BY <1>2 DEF Sound
<1> QED BY <1>1, <1>3, <1>4 DEF FirstIncomplete

LEMMA LeastFrom ==
    ASSUME NEW n \in Nat, NEW S \in SUBSET (1..n), S # {}
    PROVE  \E t \in S : \A i \in 1..t - 1 : i \in 1..n /\ i \notin S
<1>1. S \in SUBSET (0..n)
  OBVIOUS
<1>2. PICK t \in S : \A u \in S : t <= u
  BY <1>1, Least
<1> QED BY <1>2

LEMMA LoopGoesOn ==
    ASSUME Sound(pipeline), NEW q, ~Settled(q)
    PROVE  PlanPartnerLoop(q) # {}
<1>1. PICK ap : ap = pipeline.ap
  OBVIOUS
<1>2. ap \in Nat /\ ap >= 2
  BY <1>1 DEF Sound, IsLayout
<1>3. PICK R : R = {r \in 1..ap : ~RoundComplete(q, r)}
  OBVIOUS
<1>4. R # {}
  <2>1. ap \in 1..ap /\ SettlesAt(q, ap)
    BY <1>1, <1>2 DEF SettlesAt
  <2> QED BY <1>1, <1>3, <2>1 DEF Settled
<1>5. PICK r \in R : \A i \in 1..r - 1 : i \in 1..ap /\ i \notin R
  <2>1. R \in SUBSET (1..ap)
    BY <1>3
  <2> QED BY <1>2, <1>4, <2>1, LeastFrom
<1>6. \A i \in 1..r - 1 : RoundComplete(q, i)
  BY <1>3, <1>5
<1> QED BY <1>1, <1>3, <1>6 DEF PlanPartnerLoop

LEMMA NextGoesOn ==
    ASSUME Sound(pipeline), NEW q, NEW kind, NEW basis, ~AllAnswered(q, kind)
    PROVE  OneByOne(q, kind, basis) # {} /\ AtOnce(q, kind, basis) # {}
<1>1. PICK n : n = Most(pipeline, kind)
  OBVIOUS
<1>2. n \in Nat
  BY <1>1, NumbersOfTurns DEF Sound
<1>3. Missing(q, kind) \in SUBSET (1..n) /\ Missing(q, kind) # {}
  BY <1>1 DEF Missing, AllAnswered
<1>4. PICK k \in Missing(q, kind) : \A i \in 1..k - 1 : i \in 1..n /\ i \notin Missing(q, kind)
  BY <1>2, <1>3, LeastFrom
<1>5. \A i \in 1..k - 1 : Done(Turn(q, kind, i))
  BY <1>1, <1>4 DEF Missing, Answered
<1> QED BY <1>4, <1>5 DEF OneByOne, AtOnce

\* The first incomplete stage plans something (Stage.is_complete, Stage.plan).
LEMMA StageGoesOn ==
    ASSUME Sound(pipeline), NEW q, NEW s \in FirstIncomplete(q), ~OverLimit(q)
    PROVE  PlanStage(q, s) # {}
<1>1. s \in pipeline.stages /\ ~StageComplete(q, s)
  BY DEF FirstIncomplete
<1>2. CASE s = "associate_draft"
  BY <1>2 DEF PlanStage
<1>3. CASE s = "partner_loop"
  BY <1>1, <1>3, LoopGoesOn DEF PlanStage, StageComplete
<1>4. CASE s = "oc_attack" \/ s = "bolster"
  BY <1>1, <1>4, NextGoesOn DEF PlanStage, StageComplete
<1>5. CASE s = "restructure"
  <2>1. "judge_panel" \in pipeline.before["restructure"]
    BY <1>1, <1>5 DEF Sound, Leads, Panels
  <2>2. AllAnswered(q, "judge")
    BY <1>5, <2>1 DEF FirstIncomplete, StageComplete
  <2>3. WeakObjections(q) # {} /\ ~AllAnswered(q, "restructure")
    BY <1>1, <1>5, <2>2 DEF StageComplete
  <2>4. PlanStage(q, s) = OneByOne(q, "restructure", JudgedDraft(q))
    BY <1>5, <2>3 DEF PlanStage
  <2> QED BY <2>3, <2>4, NextGoesOn
<1>6. CASE s \in Panels
  BY <1>1, <1>6, NextGoesOn DEF PlanStage, StageComplete, Panels
<1>7. CASE s \in Gates
  <2>1. s = "jury_panel" => ~JuryCannotRead(q)
    BY DEF OverLimit
  <2> QED BY <1>1, <1>7, <2>1, NextGoesOn DEF PlanStage, StageComplete, Gates
<1> QED BY <1>1, <1>2, <1>3, <1>4, <1>5, <1>6, <1>7 DEF Sound

\* The draft a plan names is there (StageContext.record).
LEMMA BasisIsDone ==
    ASSUME Sound(pipeline), NEW q, NEW spec, Planned(q, spec), spec.turn # Turn(q, "draft", 1)
    PROVE  Done(spec.basis)
<1>1. PICK s : s = StageOf(spec.turn)
  OBVIOUS
<1>2. s \in FirstIncomplete(q) /\ spec \in PlanStage(q, s) /\ s \in pipeline.stages
  BY <1>1 DEF Planned, FirstIncomplete
<1>3. CASE s = "associate_draft"
  BY <1>2, <1>3, StagePlans
<1>4. CASE s = "partner_loop"
  <2>1. PICK r \in 1..pipeline.ap :
            /\ spec = PlanRound(q, r) /\ ~RoundComplete(q, r)
            /\ \A i \in 1..r - 1 : RoundComplete(q, i)
    BY <1>2, <1>4, StagePlans, LoopPlans
  <2>2. CASE spec.turn = Turn(q, "draft", r) /\ spec.basis = PartnerDraft(q, r - 1)
    <3>1. r # 1
      BY <2>2
    <3>2. r - 1 \in 1..r - 1
      BY <3>1 DEF Sound, IsLayout
    <3>3. Done(Turn(q, "draft", r - 1))
      BY <2>1, <3>2 DEF RoundComplete, RoundTurns
    <3> QED BY <2>2, <3>3, PartnerDraftDone DEF Sound
  <2>3. CASE Done(Turn(q, "draft", r)) /\ spec.basis = PartnerDraft(q, r)
    BY <2>3, PartnerDraftDone DEF Sound
  <2> QED BY <2>1, <2>2, <2>3, RoundWants
<1>5. CASE s # "associate_draft" /\ s # "partner_loop"
  <2>1. "associate_draft" \in pipeline.before[s]
    BY <1>2, <1>5 DEF Sound, Leads
  <2>2. Done(Turn(q, "draft", 1))
    BY <1>2, <2>1 DEF FirstIncomplete, StageComplete
  <2>3. spec.basis \in {LatestDraft(q), JudgedDraft(q), OperativeDraft(q)}
    BY <1>2, <1>5, StagePlans, OneByOneWants, AtOnceWants DEF Sound, Panels, Gates
  <2> QED BY <2>2, <2>3, DraftsAreDone
<1> QED BY <1>3, <1>4, <1>5

\* A run is never left with a request that is neither complete nor plannable: what
\* is_complete leaves open some plan asks for, on a draft that exists; but for a draft
\* that is over the limit when the jury is the next to read it.
THEOREM PlansNeverRunDry == Spec => []NeverStuck
<1>1. ASSUME IInv PROVE NeverStuck
  <2>1. Sound(pipeline)
    BY <1>1, CommittedIsSound DEF IInv
  <2>2. ASSUME NEW q, ~RequestComplete(q), ~OverLimit(q) PROVE PlanRequest(q) # {}
    <3>1. PICK s \in FirstIncomplete(q) : TRUE
      BY <2>1, <2>2, SomeStageFirst
    <3> QED BY <2>1, <2>2, <3>1, StageGoesOn DEF PlanRequest
  <2>3. ASSUME NEW q, NEW spec \in PlanRequest(q)
        PROVE  ~Done(spec.turn) /\ (spec.turn # Turn(q, "draft", 1) => Done(spec.basis))
    <3>1. Planned(q, spec)
      BY <2>1, PlannedTurns
    <3> QED BY <2>1, <3>1, BasisIsDone DEF Planned
  <2> QED BY <2>2, <2>3 DEF NeverStuck
<1> QED BY <1>1, Invariance, PTL

-----------------------------------------------------------------------------
(* What a turn works on. *)

\* The first draft of a request works on nothing, every other turn on a draft.
Founded(t, basis) ==
    IF t = Turn(t.unit, "draft", 1) THEN basis = NoDraft
    ELSE Done(basis) /\ basis.unit = t.unit /\ basis.kind \in Drafting

WorksOnItsOwn == \A t \in DOMAIN done : Founded(t, done[t].basis)

LEMMA NoDraftIsNoTurn ==
    ASSUME WellOrdered PROVE ~Done(NoDraft)
BY DEF WellOrdered, Proper, Done, NoDraft, Turn, Kinds

LEMMA DraftsAreOwn ==
    ASSUME NEW q, NEW r
    PROVE  /\ PartnerDraft(q, r).unit = q /\ PartnerDraft(q, r).kind \in Drafting
           /\ \A d \in {LatestDraft(q), JudgedDraft(q), OperativeDraft(q)} :
                 d # NoDraft => d.unit = q /\ d.kind \in Drafting
<1>1. PartnerDraft(q, r).unit = q /\ PartnerDraft(q, r).kind \in Drafting
  BY PartsOfTurn DEF PartnerDraft, Latest, Drafting
<1>2. LatestDraft(q) # NoDraft => LatestDraft(q).unit = q /\ LatestDraft(q).kind \in Drafting
  BY PartsOfTurn DEF LatestDraft, Latest, Drafting
<1>3. JudgedDraft(q) # NoDraft => JudgedDraft(q).unit = q /\ JudgedDraft(q).kind \in Drafting
  BY <1>2, PartsOfTurn DEF JudgedDraft, Latest, Drafting
<1>4. OperativeDraft(q) # NoDraft =>
         OperativeDraft(q).unit = q /\ OperativeDraft(q).kind \in Drafting
  BY <1>3, PartsOfTurn DEF OperativeDraft, Latest, Drafting
<1> QED BY <1>1, <1>2, <1>3, <1>4

\* Which draft a plan names (the plan of each stage).
LEMMA BasisNamed ==
    ASSUME Sound(pipeline), NEW q, NEW spec, Planned(q, spec)
    PROVE  \/ spec.turn = Turn(q, "draft", 1) /\ spec.basis = NoDraft
           \/ \E r : spec.basis = PartnerDraft(q, r)
           \/ spec.basis \in {LatestDraft(q), JudgedDraft(q), OperativeDraft(q)}
<1>1. PICK s : s = StageOf(spec.turn)
  OBVIOUS
<1>2. s \in FirstIncomplete(q) /\ spec \in PlanStage(q, s) /\ s \in pipeline.stages
  BY <1>1 DEF Planned, FirstIncomplete
<1>3. CASE s = "associate_draft"
  BY <1>2, <1>3, StagePlans
<1>4. CASE s = "partner_loop"
  BY <1>2, <1>4, StagePlans, LoopPlans, RoundWants
<1>5. CASE s # "associate_draft" /\ s # "partner_loop"
  BY <1>2, <1>5, StagePlans, OneByOneWants, AtOnceWants DEF Sound, Panels, Gates
<1> QED BY <1>3, <1>4, <1>5

LEMMA PlannedIsFounded ==
    ASSUME Sound(pipeline), WellOrdered, NEW q, NEW spec, Planned(q, spec)
    PROVE  Founded(spec.turn, spec.basis)
<1>1. spec.turn.unit = q
  BY DEF Planned
<1>2. CASE spec.turn = Turn(q, "draft", 1)
  <2>1. StageOf(spec.turn) = "associate_draft"
    BY <1>2, StageOfTurn
  <2>2. spec.basis = NoDraft
    BY <2>1, StagePlans DEF Planned
  <2> QED BY <1>1, <1>2, <2>2 DEF Founded
<1>3. CASE spec.turn # Turn(q, "draft", 1)
  <2>1. Done(spec.basis) /\ spec.basis # NoDraft
    BY <1>3, BasisIsDone, NoDraftIsNoTurn
  <2>2. spec.basis.unit = q /\ spec.basis.kind \in Drafting
    BY <1>3, <2>1, BasisNamed, DraftsAreOwn
  <2> QED BY <1>1, <1>3, <2>1, <2>2 DEF Founded
<1> QED BY <1>2, <1>3

\* Every answer on record goes back to the first draft of its own request (the plan of each
\* stage, StageContext.record): what it revises, reviews or scores is on record before it,
\* and no request ever works on the draft of another.
THEOREM TurnsWorkOnTheirOwn == Spec => []WorksOnItsOwn
<1>1. Init => WorksOnItsOwn
  BY DEF Init, WorksOnItsOwn
<1>2. ASSUME IInv, WorksOnItsOwn, [Next]_vars PROVE WorksOnItsOwn'
  <2>1. CASE Answer
    <3>1. PICK u, rec : Completes(u, rec)
      BY <1>2, <2>1, AnswerCompletes
    <3>2. Founded(u, rec.basis) /\ Grows(u, rec)
      BY <1>2, <3>1, PlannedIsFounded, CommittedIsSound DEF IInv, Completes
    <3>3. ASSUME NEW t, NEW basis, Founded(t, basis) PROVE Founded(t, basis)'
      BY <3>2, <3>3, DoneStays DEF Founded
    <3>4. /\ DOMAIN done' = DOMAIN done \cup {u} /\ done'[u] = rec
          /\ \A t \in DOMAIN done : done'[t] = done[t]
      BY <3>2, GrownDone
    <3>5. ASSUME NEW t \in DOMAIN done' PROVE Founded(t, done[t].basis)'
      <4>1. PICK basis : basis = done'[t].basis
        OBVIOUS
      <4>2. Founded(t, basis)
        BY <1>2, <3>2, <3>4, <4>1 DEF WorksOnItsOwn
      <4>3. Founded(t, basis)'
        BY <3>3, <4>2
      <4> QED BY <4>1, <4>3 DEF Founded
    <3> QED BY <3>5 DEF WorksOnItsOwn
  <2>2. CASE Ask \/ AnswerTwice \/ Refuse \/ Loses \/ UNCHANGED vars
    <3>1. UNCHANGED done
      BY <2>2, LossesRecordNothing DEF Ask, AnswerTwice, Refuse, vars
    <3> QED BY <1>2, <3>1 DEF WorksOnItsOwn, Founded, Done
  <2> QED BY <1>2, <2>1, <2>2 DEF Next, Loses
<1> QED BY <1>1, <1>2, Invariance, PTL DEF Spec

-----------------------------------------------------------------------------
(* The calls of a request. *)

\* A score is asked of a round only when the rubric judge is on (PartnerLoopStage.plan).
LoopsAreScored == \A t \in DOMAIN done : t.kind = "loop" => pipeline.scored

LEMMA PlannedLoopsAreScored ==
    ASSUME Sound(pipeline), NEW q, NEW spec \in PlanRequest(q), spec.turn.kind = "loop"
    PROVE  pipeline.scored
<1>1. Planned(q, spec)
  BY PlannedTurns
<1>2. StageOf(spec.turn) = "partner_loop" /\ spec \in PlanStage(q, StageOf(spec.turn))
  BY <1>1 DEF Planned, StageOf
<1>3. PICK r \in 1..pipeline.ap : spec = PlanRound(q, r) /\ ~RoundComplete(q, r)
  BY <1>2, StagePlans, LoopPlans
<1>4. CASE Done(Turn(q, "draft", r)) /\ Done(Turn(q, "critique", r))
  BY <1>3, <1>4 DEF RoundComplete, RoundTurns
<1>5. CASE ~Done(Turn(q, "draft", r)) \/ ~Done(Turn(q, "critique", r))
  BY <1>3, <1>5, PartsOfTurn DEF PlanRound
<1> QED BY <1>4, <1>5

LEMMA ScoresStay ==
    ASSUME IInv, LoopsAreScored, [Next]_vars PROVE LoopsAreScored'
<1>1. CASE Answer
  <2>1. PICK call \in asked :
            /\ call.turn \in {spec.turn : spec \in PlanRequest(call.turn.unit)}
            /\ \E said \in Outputs(call.turn) :
                  done' = Learned(call.turn, [basis |-> call.basis, said |-> said])
    BY <1>1 DEF Answer
  <2>2. PICK spec \in PlanRequest(call.turn.unit) : call.turn = spec.turn
    BY <2>1
  <2>3. DOMAIN done' = DOMAIN done \cup {call.turn} /\ pipeline' = pipeline
    BY <1>1, <2>1 DEF Learned, Answer
  <2>4. call.turn.kind = "loop" => pipeline.scored
    BY <2>2, PlannedLoopsAreScored, CommittedIsSound DEF IInv
  <2> QED BY <2>3, <2>4 DEF LoopsAreScored
<1>2. CASE Ask \/ AnswerTwice \/ Refuse \/ Loses \/ UNCHANGED vars
  BY <1>2, LossesRecordNothing DEF Ask, AnswerTwice, Refuse, vars, LoopsAreScored
<1> QED BY <1>1, <1>2 DEF Next, Loses

TurnsIn(q) == {t \in DOMAIN done : t.unit = q}

OfKind(q, kind) == {t \in TurnsIn(q) : t.kind = kind}

Count(q, kind) == Cardinality(Answered(q, kind))

\* The completed turns of a kind are numbered by Answered.
LEMMA KindCounted ==
    ASSUME Sound(pipeline), WellOrdered, NEW q, NEW kind \in Kinds
    PROVE  /\ IsFiniteSet(OfKind(q, kind))
           /\ Cardinality(OfKind(q, kind)) = Count(q, kind)
           /\ Count(q, kind) \in Nat /\ Count(q, kind) <= Most(pipeline, kind)
           /\ AllAnswered(q, kind) => Count(q, kind) = Most(pipeline, kind)
           /\ \A n \in Nat : Answered(q, kind) \subseteq 1..n => Count(q, kind) <= n
           /\ Answered(q, kind) # {} => Count(q, kind) >= 1
<1> DEFINE n == Most(pipeline, kind)
           A == Answered(q, kind)
           f == [k \in A |-> Turn(q, kind, k)]
<1>1. n \in Nat
  BY NumbersOfTurns DEF Sound
<1>2. IsFiniteSet(1..n) /\ Cardinality(1..n) = n
  BY <1>1, FS_Interval
<1>3. A \in SUBSET (1..n)
  BY DEF Answered
<1>4. IsFiniteSet(A) /\ Cardinality(A) <= n /\ Cardinality(A) \in Nat
  BY <1>2, <1>3, FS_Subset, FS_CardinalityType
<1>5. \A x \in OfKind(q, kind) : x = Turn(q, kind, x.k) /\ x.k \in A
  <2> TAKE x \in OfKind(q, kind)
  <2>1. Proper(x) /\ x.unit = q /\ x.kind = kind /\ Done(x)
    BY DEF OfKind, TurnsIn, WellOrdered, Done
  <2> QED BY <2>1 DEF Proper, Answered
<1>6. \A k \in A : Turn(q, kind, k) \in OfKind(q, kind)
  BY PartsOfTurn DEF Answered, OfKind, TurnsIn, Done
<1>7. f \in Bijection(A, OfKind(q, kind))
  <2>1. f \in [A -> OfKind(q, kind)]
    BY <1>6
  <2>2. \A a, b \in A : f[a] = f[b] => a = b
    BY PartsOfTurn
  <2>3. \A x \in OfKind(q, kind) : \E a \in A : f[a] = x
    BY <1>5
  <2> HIDE DEF f, A
  <2>4. f \in Injection(A, OfKind(q, kind)) /\ f \in Surjection(A, OfKind(q, kind))
    BY <2>1, <2>2, <2>3 DEF Injection, IsInjective, Surjection
  <2> QED BY <2>4 DEF Bijection
<1>8. ExistsBijection(A, OfKind(q, kind))
  BY <1>7 DEF ExistsBijection
<1>9. IsFiniteSet(OfKind(q, kind)) /\ Cardinality(OfKind(q, kind)) = Cardinality(A)
  BY <1>4, <1>8, FS_Bijection
<1>10. AllAnswered(q, kind) => A = 1..n
  BY <1>3 DEF AllAnswered, Missing
<1>11. ASSUME NEW j \in Nat, A \subseteq 1..j PROVE Cardinality(A) <= j
  <2>1. IsFiniteSet(1..j) /\ Cardinality(1..j) = j
    BY FS_Interval
  <2> QED BY <1>11, <2>1, FS_Subset
<1>12. A # {} => Cardinality(A) >= 1
  BY <1>4, FS_EmptySet
<1> QED BY <1>2, <1>4, <1>9, <1>10, <1>11, <1>12 DEF Count

LEMMA Apart ==
    ASSUME NEW S, NEW T, IsFiniteSet(S), IsFiniteSet(T), S \cap T = {}
    PROVE  IsFiniteSet(S \cup T) /\ Cardinality(S \cup T) = Cardinality(S) + Cardinality(T)
<1>1. Cardinality(S \cap T) = 0
  BY FS_EmptySet, Zenon
<1>2. Cardinality(S) \in Nat /\ Cardinality(T) \in Nat
  BY FS_CardinalityType, Zenon
<1>3. /\ IsFiniteSet(S \cup T)
      /\ Cardinality(S \cup T) = Cardinality(S) + Cardinality(T) - Cardinality(S \cap T)
  BY FS_Union, Zenon
<1>4. \A a, b, c : a \in Nat /\ b \in Nat /\ c = 0 => a + b - c = a + b
  OBVIOUS
<1> QED BY <1>1, <1>2, <1>3, <1>4, Zenon

\* The turns of a request, kind by kind.
LEMMA TurnsCounted ==
    ASSUME Sound(pipeline), WellOrdered, NEW q
    PROVE  /\ IsFiniteSet(TurnsIn(q))
           /\ Cardinality(TurnsIn(q)) =
                Count(q, "draft") + Count(q, "critique") + Count(q, "loop")
                  + Count(q, "oc") + Count(q, "bolster") + Count(q, "judge")
                  + Count(q, "restructure") + Count(q, "juror") + Count(q, "final")
<1> DEFINE K(kind) == OfKind(q, kind)
<1>0. ASSUME NEW kind \in Kinds
      PROVE  /\ IsFiniteSet(K(kind)) /\ Cardinality(K(kind)) = Count(q, kind)
             /\ Count(q, kind) \in Nat
  BY KindCounted
<1>1. /\ TurnsIn(q) = K("draft") \cup K("critique") \cup K("loop") \cup K("oc")
                        \cup K("bolster") \cup K("judge") \cup K("restructure")
                        \cup K("juror") \cup K("final")
  <2>1. \A t \in TurnsIn(q) : t.kind \in Kinds
    BY DEF TurnsIn, WellOrdered, Proper
  <2> QED BY <2>1 DEF OfKind, Kinds
<1>2. \A a, b : a # b => K(a) \cap K(b) = {}
  BY DEF OfKind
<1> HIDE DEF K
<1>4. /\ IsFiniteSet(K("draft") \cup K("critique"))
      /\ Cardinality(K("draft") \cup K("critique")) = Count(q, "draft") + Count(q, "critique")
  <2>1. K("draft") \cap K("critique") = {}
    BY <1>2
  <2>2. "draft" \in Kinds /\ "critique" \in Kinds
    BY DEF Kinds
  <2> QED BY <1>0, <2>1, <2>2, Apart, ZenonT(30)
<1> DEFINE S2 == K("draft") \cup K("critique")
           S3 == S2 \cup K("loop")
           S4 == S3 \cup K("oc")
           S5 == S4 \cup K("bolster")
           S6 == S5 \cup K("judge")
           S7 == S6 \cup K("restructure")
           S8 == S7 \cup K("juror")
           S9 == S8 \cup K("final")
<1>5. /\ S2 \cap K("loop") = {} /\ S3 \cap K("oc") = {} /\ S4 \cap K("bolster") = {}
      /\ S5 \cap K("judge") = {} /\ S6 \cap K("restructure") = {} /\ S7 \cap K("juror") = {}
      /\ S8 \cap K("final") = {}
  <2>1. /\ \A a \in {"draft", "critique"} : K(a) \cap K("loop") = {}
        /\ \A a \in {"draft", "critique", "loop"} : K(a) \cap K("oc") = {}
        /\ \A a \in {"draft", "critique", "loop", "oc"} : K(a) \cap K("bolster") = {}
        /\ \A a \in {"draft", "critique", "loop", "oc", "bolster"} : K(a) \cap K("judge") = {}
        /\ \A a \in {"draft", "critique", "loop", "oc", "bolster", "judge"} :
              K(a) \cap K("restructure") = {}
        /\ \A a \in {"draft", "critique", "loop", "oc", "bolster", "judge", "restructure"} :
              K(a) \cap K("juror") = {}
        /\ \A a \in {"draft", "critique", "loop", "oc", "bolster", "judge", "restructure",
                     "juror"} : K(a) \cap K("final") = {}
    BY <1>2
  <2> QED BY <2>1
<1>6. IsFiniteSet(S2) /\ Cardinality(S2) = Count(q, "draft") + Count(q, "critique")
  BY <1>4
<1> HIDE DEF S2
<1>7. IsFiniteSet(S3) /\ Cardinality(S3) = Cardinality(S2) + Count(q, "loop")
  <2>1. "loop" \in Kinds
    BY DEF Kinds
  <2>2. IsFiniteSet(K("loop")) /\ Cardinality(K("loop")) = Count(q, "loop")
    BY <1>0, <2>1
  <2> HIDE DEF S3
  <2>3. S2 \cap K("loop") = {}
    BY <1>5
  <2>4. /\ IsFiniteSet(S2 \cup K("loop"))
        /\ Cardinality(S2 \cup K("loop")) = Cardinality(S2) + Cardinality(K("loop"))
    BY <1>6, <2>2, <2>3, Apart, Zenon
  <2> QED BY <2>2, <2>4, Zenon DEF S3
<1> HIDE DEF S3
<1>8. IsFiniteSet(S4) /\ Cardinality(S4) = Cardinality(S3) + Count(q, "oc")
  <2>1. "oc" \in Kinds
    BY DEF Kinds
  <2>2. IsFiniteSet(K("oc")) /\ Cardinality(K("oc")) = Count(q, "oc")
    BY <1>0, <2>1
  <2> HIDE DEF S4
  <2>3. S3 \cap K("oc") = {}
    BY <1>5
  <2>4. /\ IsFiniteSet(S3 \cup K("oc"))
        /\ Cardinality(S3 \cup K("oc")) = Cardinality(S3) + Cardinality(K("oc"))
    BY <1>7, <2>2, <2>3, Apart, Zenon
  <2> QED BY <2>2, <2>4, Zenon DEF S4
<1> HIDE DEF S4
<1>9. IsFiniteSet(S5) /\ Cardinality(S5) = Cardinality(S4) + Count(q, "bolster")
  <2>1. "bolster" \in Kinds
    BY DEF Kinds
  <2>2. IsFiniteSet(K("bolster")) /\ Cardinality(K("bolster")) = Count(q, "bolster")
    BY <1>0, <2>1
  <2> HIDE DEF S5
  <2>3. S4 \cap K("bolster") = {}
    BY <1>5
  <2>4. /\ IsFiniteSet(S4 \cup K("bolster"))
        /\ Cardinality(S4 \cup K("bolster")) = Cardinality(S4) + Cardinality(K("bolster"))
    BY <1>8, <2>2, <2>3, Apart, Zenon
  <2> QED BY <2>2, <2>4, Zenon DEF S5
<1> HIDE DEF S5
<1>10. IsFiniteSet(S6) /\ Cardinality(S6) = Cardinality(S5) + Count(q, "judge")
  <2>1. "judge" \in Kinds
    BY DEF Kinds
  <2>2. IsFiniteSet(K("judge")) /\ Cardinality(K("judge")) = Count(q, "judge")
    BY <1>0, <2>1
  <2> HIDE DEF S6
  <2>3. S5 \cap K("judge") = {}
    BY <1>5
  <2>4. /\ IsFiniteSet(S5 \cup K("judge"))
        /\ Cardinality(S5 \cup K("judge")) = Cardinality(S5) + Cardinality(K("judge"))
    BY <1>9, <2>2, <2>3, Apart, Zenon
  <2> QED BY <2>2, <2>4, Zenon DEF S6
<1> HIDE DEF S6
<1>11. IsFiniteSet(S7) /\ Cardinality(S7) = Cardinality(S6) + Count(q, "restructure")
  <2>1. "restructure" \in Kinds
    BY DEF Kinds
  <2>2. IsFiniteSet(K("restructure")) /\ Cardinality(K("restructure")) = Count(q, "restructure")
    BY <1>0, <2>1
  <2> HIDE DEF S7
  <2>3. S6 \cap K("restructure") = {}
    BY <1>5
  <2>4. /\ IsFiniteSet(S6 \cup K("restructure"))
        /\ Cardinality(S6 \cup K("restructure")) = Cardinality(S6) + Cardinality(K("restructure"))
    BY <1>10, <2>2, <2>3, Apart, Zenon
  <2> QED BY <2>2, <2>4, Zenon DEF S7
<1> HIDE DEF S7
<1>12. IsFiniteSet(S8) /\ Cardinality(S8) = Cardinality(S7) + Count(q, "juror")
  <2>1. "juror" \in Kinds
    BY DEF Kinds
  <2>2. IsFiniteSet(K("juror")) /\ Cardinality(K("juror")) = Count(q, "juror")
    BY <1>0, <2>1
  <2> HIDE DEF S8
  <2>3. S7 \cap K("juror") = {}
    BY <1>5
  <2>4. /\ IsFiniteSet(S7 \cup K("juror"))
        /\ Cardinality(S7 \cup K("juror")) = Cardinality(S7) + Cardinality(K("juror"))
    BY <1>11, <2>2, <2>3, Apart, Zenon
  <2> QED BY <2>2, <2>4, Zenon DEF S8
<1> HIDE DEF S8
<1>13. IsFiniteSet(S9) /\ Cardinality(S9) = Cardinality(S8) + Count(q, "final")
  <2>1. "final" \in Kinds
    BY DEF Kinds
  <2>2. IsFiniteSet(K("final")) /\ Cardinality(K("final")) = Count(q, "final")
    BY <1>0, <2>1
  <2> HIDE DEF S9
  <2>3. S8 \cap K("final") = {}
    BY <1>5
  <2>4. /\ IsFiniteSet(S8 \cup K("final"))
        /\ Cardinality(S8 \cup K("final")) = Cardinality(S8) + Cardinality(K("final"))
    BY <1>12, <2>2, <2>3, Apart, Zenon
  <2> QED BY <2>2, <2>4, Zenon DEF S9
<1>14. TurnsIn(q) = S9
  BY <1>1 DEF S2, S3, S4, S5, S6, S7, S8
<1> HIDE DEF S9
<1> QED
  BY <1>6, <1>7, <1>8, <1>9, <1>10, <1>11, <1>12, <1>13, <1>14

\* A stage that is not of the pipeline has no completed turn.
LEMMA UnstagedIsEmpty ==
    ASSUME Sound(pipeline), WellOrdered, NEW q
    PROVE  /\ "partner_loop" \notin pipeline.stages =>
                /\ Answered(q, "draft") \subseteq 1..1
                /\ Answered(q, "critique") = {} /\ Answered(q, "loop") = {}
           /\ "oc_attack" \notin pipeline.stages => Answered(q, "oc") = {}
           /\ "bolster" \notin pipeline.stages => Answered(q, "bolster") = {}
           /\ pipeline.stages \cap Panels = {} => Answered(q, "judge") = {}
           /\ "restructure" \notin pipeline.stages => Answered(q, "restructure") = {}
           /\ "jury_panel" \notin pipeline.stages => Answered(q, "juror") = {}
           /\ "rubric_gate" \notin pipeline.stages => Answered(q, "final") = {}
<1>1. \A kind : \A k \in Answered(q, kind) : StageOf(Turn(q, kind, k)) \in pipeline.stages
  BY DEF Answered, WellOrdered, Done
<1>2. \A kind : \A k \in Answered(q, kind) : k \in Int
  <2>1. \A kind : Most(pipeline, kind) \in Nat
    BY NumbersOfTurns DEF Sound
  <2> QED BY <2>1 DEF Answered
<1> QED BY <1>1, <1>2, StageOfTurn DEF Panels

\* The ceiling of the commitment bounds what was completed.
LEMMA CeilingHolds ==
    ASSUME Sound(pipeline), WellOrdered, LoopsAreScored, NEW q
    PROVE  Cardinality(TurnsIn(q)) <= Ceiling(pipeline)
<1> DEFINE c == pipeline
<1>0. /\ c.ap \in Nat /\ c.ap >= 2 /\ c.oc \in Nat /\ c.bolster \in Nat /\ c.judges \in Nat
      /\ c.panel \in Nat /\ c.restructure \in Nat /\ c.jurors \in Nat
  BY DEF Sound, IsLayout
<1>1. \A kind \in Kinds : /\ Count(q, kind) \in Nat /\ Count(q, kind) <= Most(c, kind)
                          /\ Answered(q, kind) = {} => Count(q, kind) = 0
                          /\ Answered(q, kind) \subseteq 1..1 => Count(q, kind) <= 1
  BY KindCounted, FS_EmptySet DEF Count
<1>2. /\ Most(c, "draft") = c.ap /\ Most(c, "critique") = c.ap /\ Most(c, "loop") = c.ap
      /\ Most(c, "oc") = c.oc /\ Most(c, "bolster") = c.bolster /\ Most(c, "judge") = c.judges
      /\ Most(c, "final") = c.panel /\ Most(c, "restructure") = c.restructure
      /\ Most(c, "juror") = c.jurors
  BY DEF Most
<1>3. Count(q, "loop") <= If(c.scored, c.ap)
  <2>1. ~c.scored => Answered(q, "loop") = {}
    BY PartsOfTurn DEF LoopsAreScored, Answered, Done
  <2> QED BY <1>1, <1>2, <2>1 DEF If, Kinds
<1>4. Count(q, "draft") + Count(q, "critique") + Count(q, "loop")
         <= IF "partner_loop" \in c.stages THEN 2 * c.ap + If(c.scored, c.ap) ELSE 1
  <2>0. /\ Count(q, "draft") \in Nat /\ Count(q, "critique") \in Nat /\ Count(q, "loop") \in Nat
        /\ Count(q, "draft") <= c.ap /\ Count(q, "critique") <= c.ap
    BY <1>1, <1>2 DEF Kinds
  <2>1. CASE "partner_loop" \in c.stages
    <3>1. If(c.scored, c.ap) \in Nat
      BY <1>0 DEF If
    <3> QED BY <1>0, <1>3, <2>0, <2>1, <3>1
  <2>2. CASE "partner_loop" \notin c.stages
    <3>1. Count(q, "draft") <= 1 /\ Count(q, "critique") = 0 /\ Count(q, "loop") = 0
      BY <1>1, <2>2, UnstagedIsEmpty DEF Kinds
    <3> QED BY <2>0, <2>2, <3>1
  <2> QED BY <2>1, <2>2
<1>5. /\ Count(q, "oc") <= If("oc_attack" \in c.stages, c.oc)
      /\ Count(q, "bolster") <= If("bolster" \in c.stages, c.bolster)
      /\ Count(q, "judge") <= If(c.stages \cap Assessments # {}, c.judges)
      /\ Count(q, "restructure") <= If("restructure" \in c.stages, c.restructure)
      /\ Count(q, "juror") <= If("jury_panel" \in c.stages, c.jurors)
      /\ Count(q, "final") <= If("rubric_gate" \in c.stages, c.panel)
  BY <1>0, <1>1, <1>2, UnstagedIsEmpty DEF If, Kinds, Panels, Assessments
<1>6. \A kind \in {"draft", "critique", "loop", "oc", "bolster", "judge", "restructure",
                   "juror", "final"} : Count(q, kind) \in Nat
  BY <1>1 DEF Kinds
<1>7. /\ If("oc_attack" \in c.stages, c.oc) \in Nat
      /\ If("bolster" \in c.stages, c.bolster) \in Nat
      /\ If(c.stages \cap Assessments # {}, c.judges) \in Nat
      /\ If("restructure" \in c.stages, c.restructure) \in Nat
      /\ If("jury_panel" \in c.stages, c.jurors) \in Nat
      /\ If("rubric_gate" \in c.stages, c.panel) \in Nat
      /\ If(c.scored, c.ap) \in Nat
  BY <1>0 DEF If
<1> DEFINE p == IF "partner_loop" \in c.stages THEN 2 * c.ap + If(c.scored, c.ap) ELSE 1
<1>8. p \in Nat
  BY <1>0, <1>7
<1>9. Count(q, "draft") + Count(q, "critique") + Count(q, "loop") <= p
  BY <1>4
<1>10. Ceiling(c) = p + If("oc_attack" \in c.stages, c.oc)
                      + If("bolster" \in c.stages, c.bolster)
                      + If(c.stages \cap Assessments # {}, c.judges)
                      + If("restructure" \in c.stages, c.restructure)
                      + If("jury_panel" \in c.stages, c.jurors)
                      + If("rubric_gate" \in c.stages, c.panel)
  BY DEF Ceiling
<1> HIDE DEF p
<1> QED BY <1>5, <1>6, <1>7, <1>8, <1>9, <1>10, TurnsCounted

\* The estimate counts what the commitment allows, at one objection a request.
LEMMA EstimateIsCeiling ==
    ASSUME Committed PROVE Ceiling(pipeline) = EstimatedMost(pipeline, 1)
<1> DEFINE c == pipeline
<1>1. PICK l \in Launches : Compiles(l) /\ c = Compiled(l)
  BY DEF Committed
<1>2. Sound(c)
  BY CommittedIsSound
<1>3. /\ c.ap \in Nat /\ c.ap >= 2 /\ c.judges \in Nat
      /\ c.family \in {"discovery", "document"}
      /\ ~({"judge_panel", "narrative_assessment"} \subseteq c.stages)
  BY <1>2 DEF Sound, IsLayout
<1>4. c.scored <=> "rubric" \in c.gates
  <2>1. c.scored <=> "rubric_judge" \in l.personas
    BY <1>1 DEF Compiled
  <2> QED BY <1>1, <2>1 DEF Compiles, Owned
<1>5. (IF "partner_loop" \in c.stages THEN 2 * c.ap + If(c.scored, c.ap) ELSE 1)
         = 1 + If("partner_loop" \in c.stages,
                  (c.ap - 1) + c.ap + If("rubric" \in c.gates, c.ap))
  BY <1>3, <1>4 DEF If
<1>6. If(c.stages \cap Assessments # {}, c.judges)
         = If("narrative_assessment" \in c.stages, c.judges)
              + If("judge_panel" \in c.stages, c.judges * 1)
  BY <1>3 DEF If, Assessments
<1>7. /\ If("oc_attack" \in c.stages, c.oc) \in Nat
      /\ If("bolster" \in c.stages, c.bolster) \in Nat
      /\ If("narrative_assessment" \in c.stages, c.judges) \in Nat
      /\ If("judge_panel" \in c.stages, c.judges * 1) \in Nat
      /\ If("restructure" \in c.stages, c.restructure) \in Nat
      /\ If("jury_panel" \in c.stages, c.jurors) \in Nat
      /\ If("rubric_gate" \in c.stages, c.panel) \in Nat
  BY <1>2 DEF If, Sound, IsLayout
<1> DEFINE p == 1 + If("partner_loop" \in c.stages,
                       (c.ap - 1) + c.ap + If("rubric" \in c.gates, c.ap))
<1>8. p \in Int
  BY <1>3 DEF If
<1>9. /\ Ceiling(c) = p + If("oc_attack" \in c.stages, c.oc)
                        + If("bolster" \in c.stages, c.bolster)
                        + If(c.stages \cap Assessments # {}, c.judges)
                        + If("restructure" \in c.stages, c.restructure)
                        + If("jury_panel" \in c.stages, c.jurors)
                        + If("rubric_gate" \in c.stages, c.panel)
      /\ EstimatedMost(c, 1) = p + If("oc_attack" \in c.stages, c.oc)
                                 + If("bolster" \in c.stages, c.bolster)
                                 + If("narrative_assessment" \in c.stages, c.judges)
                                 + If("judge_panel" \in c.stages, c.judges * 1)
                                 + If("restructure" \in c.stages, c.restructure)
                                 + If("jury_panel" \in c.stages, c.jurors)
                                 + If("rubric_gate" \in c.stages, c.panel)
  BY <1>5 DEF Ceiling, EstimatedMost
<1> HIDE DEF p
<1> QED BY <1>6, <1>7, <1>8, <1>9

\* A complete request has been through every stage at least once.
LEMMA LeastIsTaken ==
    ASSUME Committed, WellOrdered, NEW q, RequestComplete(q)
    PROVE  EstimatedLeast(pipeline, 1) <= Cardinality(TurnsIn(q))
<1> DEFINE c == pipeline
<1>1. PICK l \in Launches : Compiles(l) /\ c = Compiled(l)
  BY DEF Committed
<1>2. Sound(c)
  BY CommittedIsSound
<1>3. /\ c.ap \in Nat /\ c.ap >= 2 /\ c.judges \in Nat
      /\ c.family \in {"discovery", "document"}
      /\ ~({"judge_panel", "narrative_assessment"} \subseteq c.stages)
  BY <1>2 DEF Sound, IsLayout
<1>4. c.scored <=> "rubric" \in c.gates
  <2>1. c.scored <=> "rubric_judge" \in l.personas
    BY <1>1 DEF Compiled
  <2> QED BY <1>1, <2>1 DEF Compiles, Owned
<1>5. \A kind \in Kinds : /\ Count(q, kind) \in Nat
                          /\ AllAnswered(q, kind) => Count(q, kind) = Most(c, kind)
                          /\ Answered(q, kind) # {} => Count(q, kind) >= 1
  BY <1>2, KindCounted
<1>6. /\ Most(c, "draft") = c.ap /\ Most(c, "critique") = c.ap /\ Most(c, "loop") = c.ap
      /\ Most(c, "oc") = c.oc /\ Most(c, "bolster") = c.bolster /\ Most(c, "judge") = c.judges
      /\ Most(c, "final") = c.panel /\ Most(c, "juror") = c.jurors
  BY DEF Most
<1>7. \A s \in c.stages : StageComplete(q, s)
  BY DEF RequestComplete
<1>8. Count(q, "draft") >= 1
  <2>1. Done(Turn(q, "draft", 1))
    BY <1>2, <1>7 DEF Sound, StageComplete
  <2>2. 1 \in Answered(q, "draft")
    BY <1>3, <1>6, <2>1 DEF Answered
  <2> QED BY <1>5, <2>2 DEF Kinds
<1>9. /\ Count(q, "critique") >= If("partner_loop" \in c.stages, 1)
      /\ Count(q, "loop") >= If("partner_loop" \in c.stages, If("rubric" \in c.gates, 1))
  <2>0. Count(q, "critique") \in Nat /\ Count(q, "loop") \in Nat
    BY <1>5 DEF Kinds
  <2>1. CASE "partner_loop" \in c.stages
    <3>1. PICK r \in 1..c.ap : \A i \in 1..r : RoundComplete(q, i)
      BY <1>7, <2>1 DEF StageComplete, Settled
    <3>2. RoundComplete(q, 1) /\ 1 \in 1..c.ap
      BY <1>3, <3>1
    <3>3. /\ Done(Turn(q, "critique", 1))
          /\ c.scored => Done(Turn(q, "loop", 1))
      BY <3>2 DEF RoundComplete, RoundTurns
    <3>4. 1 \in Answered(q, "critique") /\ (c.scored => 1 \in Answered(q, "loop"))
      BY <1>6, <3>2, <3>3 DEF Answered
    <3> QED BY <1>4, <1>5, <2>0, <2>1, <3>4 DEF If, Kinds
  <2>2. CASE "partner_loop" \notin c.stages
    BY <2>0, <2>2 DEF If
  <2> QED BY <2>1, <2>2
<1>10. /\ Count(q, "oc") >= If("oc_attack" \in c.stages, c.oc)
       /\ Count(q, "bolster") >= If("bolster" \in c.stages, c.bolster)
       /\ Count(q, "judge") >= If(c.stages \cap Assessments # {}, c.judges)
       /\ Count(q, "juror") >= If("jury_panel" \in c.stages, c.jurors)
       /\ Count(q, "final") >= If("rubric_gate" \in c.stages, c.panel)
  <2>1. /\ "oc_attack" \in c.stages => AllAnswered(q, "oc")
        /\ "bolster" \in c.stages => AllAnswered(q, "bolster")
        /\ c.stages \cap Assessments # {} => AllAnswered(q, "judge")
        /\ "jury_panel" \in c.stages => AllAnswered(q, "juror")
        /\ "rubric_gate" \in c.stages => AllAnswered(q, "final")
    BY <1>7 DEF StageComplete, Assessments
  <2>2. {"oc", "bolster", "judge", "juror", "final"} \subseteq Kinds
    BY DEF Kinds
  <2>3. c.oc \in Nat /\ c.bolster \in Nat /\ c.panel \in Nat /\ c.jurors \in Nat
    BY <1>2 DEF Sound, IsLayout
  <2> QED BY <1>3, <1>5, <1>6, <2>1, <2>2, <2>3 DEF If
<1>11. If(c.stages \cap Assessments # {}, c.judges)
          = If("narrative_assessment" \in c.stages, c.judges)
               + If("judge_panel" \in c.stages, c.judges * 1)
  BY <1>3 DEF If, Assessments
<1>12. /\ If("oc_attack" \in c.stages, c.oc) \in Nat
       /\ If("bolster" \in c.stages, c.bolster) \in Nat
       /\ If("narrative_assessment" \in c.stages, c.judges) \in Nat
       /\ If("judge_panel" \in c.stages, c.judges * 1) \in Nat
       /\ If("jury_panel" \in c.stages, c.jurors) \in Nat
       /\ If("rubric_gate" \in c.stages, c.panel) \in Nat
       /\ If("partner_loop" \in c.stages, 1) \in Nat
       /\ If("partner_loop" \in c.stages, If("rubric" \in c.gates, 1)) \in Nat
  BY <1>2 DEF If, Sound, IsLayout
<1>13. If("partner_loop" \in c.stages, 1 + If("rubric" \in c.gates, 1))
          = If("partner_loop" \in c.stages, 1)
               + If("partner_loop" \in c.stages, If("rubric" \in c.gates, 1))
  BY DEF If
<1>14. EstimatedLeast(c, 1) =
          1 + If("partner_loop" \in c.stages, 1 + If("rubric" \in c.gates, 1))
            + If("oc_attack" \in c.stages, c.oc)
            + If("bolster" \in c.stages, c.bolster)
            + If("narrative_assessment" \in c.stages, c.judges)
            + If("judge_panel" \in c.stages, c.judges * 1)
            + If("jury_panel" \in c.stages, c.jurors)
            + If("rubric_gate" \in c.stages, c.panel)
  BY DEF EstimatedLeast
<1>15. \A kind \in {"draft", "critique", "loop", "oc", "bolster", "judge", "restructure",
                    "juror", "final"} : Count(q, kind) \in Nat
  BY <1>5 DEF Kinds
<1> QED
  BY <1>2, <1>8, <1>9, <1>10, <1>11, <1>12, <1>13, <1>14, <1>15, TurnsCounted

\* What a request costs is what the operator was told (pipeline_turn_ceiling,
\* estimate_run): for every launch and however many workers answer, its completed turns
\* stay within the ceiling of the commitment, which is the most the estimate counts, and a
\* complete request has taken the least of it.
THEOREM CallsAreEstimated == Spec => []CallsWithinEstimate
<1>1. Init => LoopsAreScored
  BY DEF Init, LoopsAreScored
<1>2. ASSUME IInv, LoopsAreScored PROVE CallsWithinEstimate
  <2>1. Committed /\ WellOrdered /\ Sound(pipeline)
    BY <1>2, CommittedIsSound DEF IInv
  <2>2. ASSUME NEW q
        PROVE  /\ Cardinality(TurnsIn(q)) <= Ceiling(pipeline)
               /\ RequestComplete(q) => EstimatedLeast(pipeline, 1) <= Cardinality(TurnsIn(q))
    BY <1>2, <2>1, CeilingHolds, LeastIsTaken
  <2> QED BY <2>1, <2>2, EstimateIsCeiling DEF CallsWithinEstimate, TurnsIn
<1>3. LoopsAreScored /\ IInv /\ [Next]_vars => LoopsAreScored'
  BY ScoresStay
<1> QED BY <1>1, <1>2, <1>3, Invariance, PTL DEF Spec

-----------------------------------------------------------------------------
(* What the judges' rulings count for. *)

\* What is on record is something the turn's output model lets it say.
SaidAsAsked == \A t \in DOMAIN done : done[t].said \in Outputs(t)

LEMMA OutputsStay ==
    ASSUME SaidAsAsked, [Next]_vars PROVE SaidAsAsked'
<1>1. CASE Answer
  <2>1. PICK call \in asked : \E said \in Outputs(call.turn) :
            done' = Learned(call.turn, [basis |-> call.basis, said |-> said])
    BY <1>1 DEF Answer
  <2>2. PICK said \in Outputs(call.turn) :
            done' = Learned(call.turn, [basis |-> call.basis, said |-> said])
    BY <2>1
  <2>3. PICK u : u = call.turn
    OBVIOUS
  <2>4. /\ DOMAIN done' = DOMAIN done \cup {u}
        /\ \A t \in DOMAIN done \cup {u} :
              done'[t].said = IF t = u THEN said ELSE done[t].said
    BY <2>2, <2>3 DEF Learned
  <2>5. \A t : Outputs(t)' = Outputs(t)
    BY <1>1 DEF Answer, Outputs
  <2> QED BY <2>2, <2>3, <2>4, <2>5 DEF SaidAsAsked
<1>2. CASE Ask \/ AnswerTwice \/ Refuse \/ Loses \/ UNCHANGED vars
  <2>1. UNCHANGED <<pipeline, done>>
    BY <1>2, LossesRecordNothing DEF Ask, AnswerTwice, Refuse, vars
  <2> QED BY <2>1 DEF SaidAsAsked, Outputs
<1> QED BY <1>1, <1>2 DEF Next, Loses

\* The panel rules on a draft of the associate's.
LEMMA JudgedDraftIsDraft ==
    ASSUME NEW q, JudgedDraft(q) # NoDraft
    PROVE  JudgedDraft(q).kind \in Drafting
BY PartsOfTurn DEF JudgedDraft, LatestDraft, Latest, Drafting

\* For every pair of a draft's objections and a judge's rulings, whichever of them fall on
\* one basis, and whatever was recorded in between (_align_rulings).
THEOREM RulingsAreCountedOnce == Spec => []RulingsCountOnce
<1>1. Init => SaidAsAsked
  BY DEF Init, SaidAsAsked
<1>2. ASSUME IInv, SaidAsAsked PROVE RulingsCountOnce
  <2>1. IsLayout(pipeline)
    BY <1>2, CommittedIsSound DEF IInv, Sound
  <2>2. SUFFICES ASSUME NEW q \in 0..units - 1, pipeline.family = "discovery",
                        JudgedDraft(q) # NoDraft, NEW n \in DOMAIN Heard(q)
        PROVE  LET objections == Asserts[Said(JudgedDraft(q))]
               IN  CountOnce(objections, Heard(q)[n], Aligned[objections][Heard(q)[n]])
    BY DEF RulingsCountOnce
  <2>3. PICK objections, rulings : /\ objections = Asserts[Said(JudgedDraft(q))]
                                   /\ rulings = Heard(q)[n]
    OBVIOUS
  <2>4. objections \in Asserted
    <3>1. Done(JudgedDraft(q)) /\ JudgedDraft(q).kind \in Drafting
      BY <2>1, <2>2, JudgedDraftDone, JudgedDraftIsDraft
    <3>2. Outputs(JudgedDraft(q)) = Texts
      BY <3>1 DEF Outputs, Drafting
    <3>3. Said(JudgedDraft(q)) \in Texts
      BY <1>2, <3>1, <3>2 DEF SaidAsAsked, Said, Done
    <3> QED BY <2>3, <3>3, TextsAreDrafts
  <2>5. rulings \in Opinions
    <3>1. Done(Turn(q, "judge", n)) /\ rulings = Said(Turn(q, "judge", n))
      BY <2>2, <2>3 DEF Heard, Answered
    <3>2. Turn(q, "judge", n).kind = "judge"
      BY PartsOfTurn
    <3>3. Outputs(Turn(q, "judge", n)) = Opinions
      BY <2>2, <3>2 DEF Outputs, Drafting
    <3> QED BY <1>2, <3>1, <3>3 DEF SaidAsAsked, Said, Done
  <2>6. Lists(objections, rulings)
    BY <2>4, <2>5, PanelsAreLists DEF Lists
  <2>7. Aligned[objections][rulings] = Align(objections, rulings)
    BY <2>4, <2>5 DEF Aligned
  <2> QED BY <2>3, <2>6, <2>7, AlignedOnce
<1>3. SaidAsAsked /\ [Next]_vars => SaidAsAsked'
  BY OutputsStay
<1> QED BY <1>1, <1>2, <1>3, Invariance, PTL DEF Spec

-----------------------------------------------------------------------------
(* The steps run out. *)

\* Calls are made for the run's requests, and as many as the bounds allow.
CallsInv ==
    /\ units \in Nat
    /\ rejected \in 0..MaxRejects
    /\ IsFiniteSet(asked) /\ Cardinality(asked) <= MaxAsked
    /\ \A call \in asked : call.turn.unit \in 0..units - 1
    /\ \A t \in DOMAIN done : t.unit \in 0..units - 1

LEMMA InitCallsInv == Init => CallsInv
<1> SUFFICES ASSUME Init PROVE CallsInv
  OBVIOUS
<1>1. units \in Nat
  BY LaunchesAreKnown DEF Init
<1>2. rejected = 0 /\ asked = {} /\ DOMAIN done = {} /\ MaxRejects \in Nat /\ MaxAsked \in Nat
  BY TextsAreDrafts DEF Init
<1>3. IsFiniteSet(asked) /\ Cardinality(asked) = 0
  BY <1>2, FS_EmptySet
<1> QED BY <1>1, <1>2, <1>3 DEF CallsInv

\* What a step does to the calls under way (worker: plan_next, record_turn, _discard).
CallMade ==
    /\ ~PlanFails
    /\ \E call : /\ call \notin asked /\ asked' = asked \cup {call}
                 /\ call.turn.unit \in 0..units - 1 /\ ~Done(call.turn)
                 /\ Cardinality(asked) < MaxAsked
                 /\ UNCHANGED <<pipeline, units, done, rejected>>

CallEnds(call) ==
    /\ call \in asked /\ asked' = asked \ {call} /\ UNCHANGED <<pipeline, units>>

CallLate == \E call : CallEnds(call) /\ Done(call.turn) /\ UNCHANGED <<done, rejected>>

CallRefused == PlanFails /\ \E call : CallEnds(call) /\ UNCHANGED <<done, rejected>>

CallLost ==
    /\ ~PlanFails
    /\ \E call : /\ CallEnds(call) /\ ~Done(call.turn) /\ UNCHANGED done
                 /\ rejected < MaxRejects /\ rejected' = rejected + 1

CallRecorded ==
    /\ ~PlanFails
    /\ \E call : /\ CallEnds(call) /\ ~Done(call.turn) /\ UNCHANGED rejected
                 /\ DOMAIN done' = DOMAIN done \cup {call.turn}

LEMMA CallSteps ==
    ASSUME IInv, Next PROVE CallMade \/ CallLate \/ CallRefused \/ CallLost \/ CallRecorded
<1>1. CASE Ask
  <2>1. PICK q \in 0..units - 1 : \E spec \in PlanRequest(q), copy \in 1..MaxAsked :
            /\ {c \in 1..MaxAsked : Call(spec, c) \in asked} = 1..copy - 1
            /\ asked' = asked \cup {Call(spec, copy)}
    BY <1>1 DEF Ask
  <2>2. PICK spec \in PlanRequest(q), copy \in 1..MaxAsked :
            /\ {c \in 1..MaxAsked : Call(spec, c) \in asked} = 1..copy - 1
            /\ asked' = asked \cup {Call(spec, copy)}
    BY <2>1
  <2>3. Call(spec, copy) \notin asked
    <3>1. copy \notin 1..copy - 1
      BY TextsAreDrafts
    <3> QED BY <2>2, <3>1
  <2>4. spec.turn.unit = q /\ ~Done(spec.turn)
    BY PlannedTurns, CommittedIsSound DEF IInv, Planned
  <2>5. Call(spec, copy).turn = spec.turn
    BY DEF Call
  <2> QED BY <1>1, <2>2, <2>3, <2>4, <2>5 DEF Ask, CallMade
<1>2. CASE AnswerTwice
  BY <1>2 DEF AnswerTwice, CallLate, CallEnds
<1>r. CASE Refuse
  BY <1>r DEF Refuse, CallRefused, CallEnds
<1>3. CASE Loses
  BY <1>3 DEF Loses, RejectInvalid, RejectDegenerate, LoseEvaluated, Lost, CallLost, CallEnds
<1>4. CASE Answer
  <2>1. PICK call \in asked : /\ ~Done(call.turn) /\ asked' = asked \ {call}
                              /\ \E rec : done' = Learned(call.turn, rec)
                              /\ UNCHANGED <<pipeline, units, rejected>> /\ ~PlanFails
    BY <1>4 DEF Answer
  <2>2. DOMAIN done' = DOMAIN done \cup {call.turn}
    BY <2>1 DEF Learned
  <2> QED BY <2>1, <2>2 DEF CallRecorded, CallEnds
<1> QED BY <1>1, <1>2, <1>r, <1>3, <1>4 DEF Next, Loses

LEMMA NextCallsInv == IInv /\ CallsInv /\ [Next]_vars => CallsInv'
<1> SUFFICES ASSUME IInv, CallsInv, [Next]_vars PROVE CallsInv'
  OBVIOUS
<1>0. MaxAsked \in Nat /\ MaxRejects \in Nat /\ Cardinality(asked) \in Nat
  BY TextsAreDrafts, FS_CardinalityType DEF CallsInv
<1>1. CASE CallMade
  <2>1. PICK call : /\ call \notin asked /\ asked' = asked \cup {call}
                    /\ call.turn.unit \in 0..units - 1 /\ Cardinality(asked) < MaxAsked
                    /\ UNCHANGED <<pipeline, units, done, rejected>>
    BY <1>1 DEF CallMade
  <2>2. IsFiniteSet(asked') /\ Cardinality(asked') = Cardinality(asked) + 1
    BY <2>1, FS_AddElement DEF CallsInv
  <2> QED BY <1>0, <2>1, <2>2 DEF CallsInv
<1>2. ASSUME NEW call, CallEnds(call), rejected' \in 0..MaxRejects,
             DOMAIN done' \subseteq DOMAIN done \cup {call.turn}
      PROVE  CallsInv'
  <2>1. asked' = asked \ {call} /\ call \in asked /\ units' = units
    BY <1>2 DEF CallEnds
  <2>2. IsFiniteSet(asked') /\ Cardinality(asked') = Cardinality(asked) - 1
    BY <2>1, FS_RemoveElement DEF CallsInv
  <2> QED BY <1>0, <1>2, <2>1, <2>2 DEF CallsInv
<1>3. CASE CallLate \/ CallRefused \/ CallRecorded
  BY <1>2, <1>3 DEF CallLate, CallRefused, CallRecorded, CallsInv
<1>4. CASE CallLost
  <2>1. PICK call : /\ CallEnds(call) /\ UNCHANGED done
                    /\ rejected < MaxRejects /\ rejected' = rejected + 1
    BY <1>4 DEF CallLost
  <2>2. rejected' \in 0..MaxRejects
    BY <1>0, <2>1 DEF CallsInv
  <2> QED BY <1>2, <2>1, <2>2
<1>5. CASE UNCHANGED vars
  BY <1>5 DEF vars, CallsInv
<1> QED BY <1>1, <1>3, <1>4, <1>5, CallSteps

\* The requests of a run take together what each may take.
LEMMA CeilingIsNat ==
    ASSUME Sound(pipeline) PROVE Ceiling(pipeline) \in Nat
<1>1. IsLayout(pipeline)
  BY DEF Sound
<1>2. \A n \in Nat : \A b : If(b, n) \in Nat
  BY DEF If
<1> QED BY <1>1, <1>2 DEF IsLayout, Ceiling

LEMMA RunWithinCeiling ==
    ASSUME IInv, LoopsAreScored, CallsInv
    PROVE  /\ IsFiniteSet(DOMAIN done) /\ Cardinality(DOMAIN done) \in Nat
           /\ Cardinality(DOMAIN done) <= units * Ceiling(pipeline)
           /\ units * Ceiling(pipeline) \in Nat
<1>1. Sound(pipeline) /\ WellOrdered
  BY CommittedIsSound DEF IInv
<1>2. PICK c : c = Ceiling(pipeline)
  OBVIOUS
<1>3. c \in Nat /\ units \in Nat
  BY <1>1, <1>2, CeilingIsNat DEF CallsInv
<1>4. PICK U : U = [k \in 0..units |-> {t \in DOMAIN done : t.unit \in 0..k - 1}]
  OBVIOUS
<1> DEFINE S == {k \in 0..units :
                    IsFiniteSet(U[k]) /\ Cardinality(U[k]) \in Nat /\ Cardinality(U[k]) <= k * c}
<1>5. 0 \in S
  <2>1. U[0] = {} /\ 0 \in 0..units /\ 0 * c = 0
    BY <1>3, <1>4
  <2> QED BY <2>1, FS_EmptySet
<1>6. ASSUME NEW k \in 1..units, k - 1 \in S PROVE k \in S
  <2>1. IsFiniteSet(TurnsIn(k - 1)) /\ Cardinality(TurnsIn(k - 1)) <= c
    BY <1>1, <1>2, CeilingHolds, TurnsCounted
  <2>2. U[k] = U[k - 1] \cup TurnsIn(k - 1)
    <3>1. k \in 0..units /\ k - 1 \in 0..units /\ 0..k - 1 = 0..(k - 1) - 1 \cup {k - 1}
      BY <1>3
    <3> QED BY <1>4, <3>1 DEF TurnsIn
  <2>3. U[k - 1] \cap TurnsIn(k - 1) = {}
    <3>1. k - 1 \in 0..units /\ k - 1 \notin 0..(k - 1) - 1
      BY <1>3
    <3> QED BY <1>4, <3>1 DEF TurnsIn
  <2>4. IsFiniteSet(U[k - 1]) /\ Cardinality(U[k - 1]) \in Nat
        /\ Cardinality(U[k - 1]) <= (k - 1) * c
    BY <1>6
  <2>5. /\ IsFiniteSet(U[k])
        /\ Cardinality(U[k]) = Cardinality(U[k - 1]) + Cardinality(TurnsIn(k - 1))
    BY <2>1, <2>2, <2>3, <2>4, Apart
  <2>6. Cardinality(TurnsIn(k - 1)) \in Nat
    BY <2>1, FS_CardinalityType
  <2>7. (k - 1) * c + c = k * c /\ (k - 1) * c \in Int
    BY <1>3
  <2>8. Cardinality(U[k]) \in Nat /\ Cardinality(U[k]) <= k * c
    BY <1>3, <2>1, <2>4, <2>5, <2>6, <2>7
  <2> QED BY <2>5, <2>8
<1> HIDE DEF S
<1>7. units \in S
  BY <1>3, <1>5, <1>6, UpTo
<1>8. U[units] = DOMAIN done
  <2>1. units \in 0..units /\ \A t \in DOMAIN done : t.unit \in 0..units - 1
    BY <1>3 DEF CallsInv
  <2> QED BY <1>4, <2>1
<1>9. units * c \in Nat
  BY <1>3
<1> QED BY <1>2, <1>7, <1>8, <1>9 DEF S

\* The answers the run can still take, and what it has to do for them: of a turn asked
\* more than once every answer but the first is late.  Once the plan fails there is
\* nothing to do but to refuse what was asked.
Pending == {call \in asked : ~Done(call.turn)}

Budget == units * Ceiling(pipeline) - Cardinality(DOMAIN done) + (MaxRejects - rejected)

Open ==
    Budget * (3 * MaxAsked + 1) + 2 * MaxAsked + Cardinality(asked) - 3 * Cardinality(Pending)

Ahead == IF PlanFails THEN Cardinality(asked) ELSE Open

Bounded ==
    /\ Budget \in Nat /\ Open \in Nat
    /\ IsFiniteSet(asked) /\ Cardinality(asked) \in Nat /\ Cardinality(asked) <= MaxAsked
    /\ IsFiniteSet(Pending) /\ Cardinality(Pending) \in Nat
    /\ Cardinality(Pending) <= Cardinality(asked)

LEMMA CallsAreBounded == IInv /\ LoopsAreScored /\ CallsInv => Bounded
<1> SUFFICES ASSUME IInv, LoopsAreScored, CallsInv PROVE Bounded
  OBVIOUS
<1>1. /\ Budget \in Nat /\ MaxAsked \in Nat
  BY RunWithinCeiling, TextsAreDrafts DEF Budget, CallsInv
<1>2. Pending \in SUBSET asked
  BY DEF Pending
<1>3. /\ IsFiniteSet(Pending) /\ Cardinality(Pending) <= Cardinality(asked)
      /\ Cardinality(Pending) \in Nat /\ Cardinality(asked) \in Nat
  BY <1>2, FS_Subset, FS_CardinalityType DEF CallsInv
<1>4. Cardinality(asked) <= MaxAsked
  BY DEF CallsInv
<1>5. Budget * (3 * MaxAsked + 1) \in Nat
  BY <1>1
<1>6. Open \in Nat
  BY <1>1, <1>3, <1>4, <1>5 DEF Open
<1> QED BY <1>1, <1>3, <1>4, <1>6 DEF Bounded, CallsInv

LEMMA OneLess ==
    ASSUME NEW b \in Int, NEW w \in Int
    PROVE  (b - 1) * w = b * w - w /\ b * w \in Int
OBVIOUS

LEMMA OpenGoesDown ==
    ASSUME IInv, LoopsAreScored, CallsInv, Next, Bounded, Bounded', ~PlanFails
    PROVE  Open' \in Nat /\ Open' < Open /\ (CallRecorded => Cardinality(asked)' < Open)
<1>0. pipeline' = pipeline /\ units' = units
  BY CallSteps DEF CallMade, CallLate, CallRefused, CallLost, CallRecorded, CallEnds
<1>1. PICK b, a, p, b1, a1, p1 :
          /\ b = Budget /\ a = Cardinality(asked) /\ p = Cardinality(Pending)
          /\ b1 = Budget' /\ a1 = Cardinality(asked)' /\ p1 = Cardinality(Pending)'
  OBVIOUS
<1>2. PICK w : w = 3 * MaxAsked + 1
  OBVIOUS
<1>3. /\ b \in Nat /\ a \in Nat /\ p \in Nat /\ p <= a /\ a <= MaxAsked /\ MaxAsked \in Nat
      /\ b1 \in Nat /\ a1 \in Nat /\ p1 \in Nat /\ p1 <= a1 /\ w \in Int
      /\ IsFiniteSet(asked) /\ IsFiniteSet(Pending)
  <2>1. MaxAsked \in Nat
    BY TextsAreDrafts
  <2> QED BY <1>1, <1>2, <2>1 DEF Bounded
<1>4. Open = b * w + 2 * MaxAsked + a - 3 * p /\ Open' = b1 * w + 2 * MaxAsked + a1 - 3 * p1
  BY <1>1, <1>2 DEF Open
<1>5. Open' \in Nat
  BY DEF Bounded
<1>n. ~CallRecorded \/ ~(CallMade \/ CallLate \/ CallLost)
  <2>1. CallMade \/ CallLate \/ CallLost => done' = done
    BY DEF CallMade, CallLate, CallLost
  <2>2. CallRecorded => DOMAIN done' # DOMAIN done
    BY DEF CallRecorded, CallEnds, Done
  <2> QED BY <2>1, <2>2
<1>6. CASE CallMade
  <2>1. PICK call : /\ call \notin asked /\ asked' = asked \cup {call} /\ ~Done(call.turn)
                    /\ UNCHANGED <<pipeline, units, done, rejected>>
    BY <1>6 DEF CallMade
  <2>2. Pending' = Pending \cup {call} /\ call \notin Pending
    BY <2>1 DEF Pending, Done
  <2>3. a1 = a + 1 /\ p1 = p + 1
    BY <1>1, <1>3, <2>1, <2>2, FS_AddElement
  <2>4. b1 = b
    BY <1>0, <1>1, <2>1 DEF Budget
  <2>5. b * w \in Int
    BY <1>3, OneLess
  <2>6. Open' < Open
    BY <1>3, <1>4, <1>5, <2>3, <2>4, <2>5
  <2> QED BY <1>5, <1>6, <1>n, <2>6
<1>7. CASE CallLate
  <2>1. PICK call : /\ call \in asked /\ asked' = asked \ {call} /\ Done(call.turn)
                    /\ UNCHANGED <<done, rejected>>
    BY <1>7 DEF CallLate, CallEnds
  <2>2. Pending' = Pending
    BY <2>1 DEF Pending, Done
  <2>3. a1 = a - 1 /\ p1 = p
    BY <1>1, <1>3, <2>1, <2>2, FS_RemoveElement
  <2>4. b1 = b
    BY <1>0, <1>1, <2>1 DEF Budget
  <2>5. b * w \in Int
    BY <1>3, OneLess
  <2>6. Open' < Open
    BY <1>3, <1>4, <1>5, <2>3, <2>4, <2>5
  <2> QED BY <1>5, <1>7, <1>n, <2>6
<1>8. CASE CallLost
  <2>1. PICK call : /\ call \in asked /\ asked' = asked \ {call} /\ ~Done(call.turn)
                    /\ done' = done /\ rejected' = rejected + 1 /\ rejected < MaxRejects
    BY <1>8 DEF CallLost, CallEnds
  <2>2. Pending' = Pending \ {call} /\ call \in Pending
    BY <2>1 DEF Pending, Done
  <2>3. a1 = a - 1 /\ p1 = p - 1
    BY <1>1, <1>3, <2>1, <2>2, FS_RemoveElement
  <2>4. b1 = b - 1
    BY <1>0, <1>1, <2>1, RunWithinCeiling, TextsAreDrafts DEF Budget, CallsInv
  <2>5. b1 * w = b * w - w /\ b * w \in Int
    BY <1>3, <2>4, OneLess
  <2>6. Open' < Open
    BY <1>2, <1>3, <1>4, <1>5, <2>3, <2>5
  <2> QED BY <1>5, <1>8, <1>n, <2>6
<1>9. CASE CallRecorded
  <2>1. PICK call : /\ call \in asked /\ asked' = asked \ {call} /\ ~Done(call.turn)
                    /\ rejected' = rejected /\ DOMAIN done' = DOMAIN done \cup {call.turn}
    BY <1>9 DEF CallRecorded, CallEnds
  <2>2. a1 = a - 1
    BY <1>1, <1>3, <2>1, FS_RemoveElement
  <2>3. Cardinality(DOMAIN done)' = Cardinality(DOMAIN done) + 1
    BY <2>1, RunWithinCeiling, FS_AddElement DEF Done
  <2>4. b1 = b - 1
    BY <1>0, <1>1, <2>1, <2>3, RunWithinCeiling, TextsAreDrafts DEF Budget, CallsInv
  <2>5. b1 * w = b * w - w /\ b * w \in Int
    BY <1>3, <2>4, OneLess
  <2>6. b1 * w >= 0
    BY <1>2, <1>3
  <2>7. Open' < Open
    BY <1>2, <1>3, <1>4, <1>5, <2>2, <2>5
  <2>8. a1 < Open
    BY <1>2, <1>3, <1>4, <1>5, <2>2, <2>5, <2>6
  <2> QED BY <1>1, <1>5, <2>7, <2>8
<1>10. CallMade \/ CallLate \/ CallLost \/ CallRecorded
  BY CallSteps DEF CallRefused
<1> QED BY <1>6, <1>7, <1>8, <1>9, <1>10, <1>n

\* Once a plan has failed every plan does: nothing more is recorded.
LEMMA FailedStays ==
    ASSUME UNCHANGED <<pipeline, units, done>>
    PROVE  PlanFails' <=> PlanFails
<1>1. \A q : OverLimit(q)' <=> OverLimit(q)
  BY PlanUnchanged
<1> QED BY <1>1 DEF PlanFails

LEMMA StepsGoDown ==
    ASSUME IInv, LoopsAreScored, CallsInv, Next, Bounded, Bounded'
    PROVE  Ahead' \in Nat /\ Ahead' < Ahead
<1>1. CASE PlanFails
  <2>1. CallLate \/ CallRefused
    BY <1>1, CallSteps DEF CallMade, CallLost, CallRecorded
  <2>2. PICK call : CallEnds(call) /\ UNCHANGED done
    BY <2>1 DEF CallLate, CallRefused
  <2>3. Cardinality(asked') = Cardinality(asked) - 1
    BY <2>2, FS_RemoveElement DEF CallEnds, Bounded
  <2>4. PlanFails'
    BY <1>1, <2>2, FailedStays DEF CallEnds
  <2> QED BY <1>1, <2>3, <2>4 DEF Ahead, Bounded
<1>2. CASE ~PlanFails
  <2>1. Open' \in Nat /\ Open' < Open /\ (CallRecorded => Cardinality(asked)' < Open)
    BY <1>2, OpenGoesDown
  <2>2. CASE PlanFails'
    <3>1. CallRecorded
      <4>1. CallMade \/ CallLate \/ CallLost => UNCHANGED <<pipeline, units, done>>
        BY DEF CallMade, CallLate, CallLost, CallEnds
      <4>2. CallMade \/ CallLate \/ CallLost \/ CallRecorded
        BY <1>2, CallSteps DEF CallRefused
      <4> QED BY <1>2, <2>2, <4>1, <4>2, FailedStays
    <3> QED BY <1>2, <2>1, <2>2, <3>1 DEF Ahead, Bounded
  <2>3. CASE ~PlanFails'
    BY <1>2, <2>1, <2>3 DEF Ahead
  <2> QED BY <2>2, <2>3
<1> QED BY <1>1, <1>2

\* No run goes on for ever (plan_next, record_turn): whatever workers ask, record, discard
\* or lose, each step takes the run nearer to where none is left, and until then a request
\* that is not over has a plan (PlansNeverRunDry).
StepsRunOut == [][Ahead' \in Nat /\ Ahead' < Ahead]_vars

THEOREM RunsComeToAnEnd == Spec => StepsRunOut
<1> DEFINE Inv == IInv /\ LoopsAreScored /\ CallsInv
<1>1. Init => Inv
  BY InitIInv, InitCallsInv DEF Init, LoopsAreScored
<1>2. Inv /\ [Next]_vars => Inv'
  BY NextIInv, ScoresStay, NextCallsInv
<1>3. Inv => Bounded
  BY CallsAreBounded
<1>4. Inv /\ Bounded /\ Bounded' /\ [Next]_vars => [Ahead' \in Nat /\ Ahead' < Ahead]_vars
  BY StepsGoDown
<1> QED BY <1>1, <1>2, <1>3, <1>4, PTL DEF Spec, StepsRunOut

-----------------------------------------------------------------------------
(* The gate ledger. *)

TextGates == {"completeness", "fabrication"}

\* What the journal holds of a completed draft are the verdicts on it, and a rubric's
\* verdict is of a whole panel and on the journal as soon as there is one.
JournalInv ==
    /\ \A t \in DOMAIN done : t.kind \in Drafting =>
          \A g \in TextGates \cap pipeline.gates :
             g \in DOMAIN ResultsOf(t) /\ ResultsOf(t)[g] = Verdict(g, Said(t))
    /\ \A t : t.kind # "final" => "rubric" \notin DOMAIN ResultsOf(t)
    /\ \A e \in ever : e.gate = "rubric" =>
          /\ e.turn.kind = "final" /\ e.status \in {"pass", "fail"}
          /\ Done(e.turn) /\ AllAnswered(e.turn.unit, "final")
    /\ \A q : AllAnswered(q, "final") =>
          \E e \in ever : e.gate = "rubric" /\ e.turn.unit = q

\* What is served is a draft.
LEMMA DraftsAreServed ==
    ASSUME NEW q
    PROVE  /\ OperativeDraft(q) = NoDraft \/ OperativeDraft(q).kind \in Drafting
           /\ OperativeDraft(q).kind # "final"
BY PartsOfTurn DEF OperativeDraft, JudgedDraft, LatestDraft, Latest, Drafting, NoDraft

\* Neither the gates of one turn nor those of a degenerate answer speak of the rubric.
LEMMA GatesOfOneTurn ==
    ASSUME NEW gates, NEW drafted, NEW said
    PROVE  /\ "rubric" \notin DOMAIN Results(gates, drafted, said)
           /\ "rubric" \notin DOMAIN Degenerate(gates)
BY DEF Results, Degenerate, Gating

\* The results of one turn leave those of the others, and what was ever on the journal
\* stays there (GateEvaluated).
LEMMA EvaluatedResults ==
    ASSUME NEW turn, NEW results, Evaluated(turn, results)
    PROVE  /\ \A t : t # turn => ResultsOf(t)' = ResultsOf(t)
           /\ ResultsOf(turn)' = Renewed(ResultsOf(turn), results)
           /\ ever \subseteq ever'
           /\ \A e \in ever' : \/ e \in ever
                               \/ /\ e.turn = turn /\ e.gate \in DOMAIN results
                                  /\ e.status = results[e.gate]
           /\ \A g \in DOMAIN results :
                 [turn |-> turn, gate |-> g, status |-> results[g]] \in ever'
<1>1. /\ DOMAIN latest' = DOMAIN latest \cup {turn}
      /\ latest'[turn] = Renewed(ResultsOf(turn), results)
      /\ \A t \in DOMAIN latest : t # turn => latest'[t] = latest[t]
  BY DEF Evaluated
<1>2. ASSUME NEW t, t # turn PROVE ResultsOf(t)' = ResultsOf(t)
  BY <1>1, <1>2 DEF ResultsOf
<1>3. ResultsOf(turn)' = Renewed(ResultsOf(turn), results)
  BY <1>1 DEF ResultsOf
<1>4. ever' = ever \cup {[turn |-> turn, gate |-> g, status |-> results[g]] :
                             g \in DOMAIN results}
  BY DEF Evaluated
<1> QED BY <1>2, <1>3, <1>4

\* An answer that is lost leaves the results of a completed turn as they are, whatever
\* its gates found (_discard, a crash before TurnCompleted).
LEMMA LossesLeaveTheRest ==
    ASSUME Loses
    PROVE  /\ \A t \in DOMAIN done : ResultsOf(t)' = ResultsOf(t)
           /\ \A t : "rubric" \in DOMAIN ResultsOf(t)' => "rubric" \in DOMAIN ResultsOf(t)
           /\ ever \subseteq ever'
           /\ \A e \in ever' : e.gate = "rubric" => e \in ever
<1>1. CASE RejectInvalid
  BY <1>1 DEF RejectInvalid, ResultsOf
<1>2. CASE RejectDegenerate \/ LoseEvaluated
  <2>0. PICK call \in asked : \E results :
            /\ ~Done(call.turn) /\ Evaluated(call.turn, results)
            /\ "rubric" \notin DOMAIN results
    <3>1. CASE RejectDegenerate
      BY <3>1, GatesOfOneTurn DEF RejectDegenerate, Lost
    <3>2. CASE LoseEvaluated
      <4>1. PICK call \in asked : \E said : Lost(call) /\ Evaluated(call.turn, Gated(call.turn, said))
        BY <3>2 DEF LoseEvaluated
      <4>2. PICK said : Lost(call) /\ Evaluated(call.turn, Gated(call.turn, said))
        BY <4>1
      <4> QED BY <4>2, GatesOfOneTurn DEF Lost, Gated
    <3> QED BY <1>2, <3>1, <3>2
  <2>1. PICK results : /\ ~Done(call.turn) /\ Evaluated(call.turn, results)
                       /\ "rubric" \notin DOMAIN results
    BY <2>0
  <2>2. \A t \in DOMAIN done : t # call.turn
    BY <2>1 DEF Done
  <2>3. PICK old : old = ResultsOf(call.turn)
    OBVIOUS
  <2>4. "rubric" \in DOMAIN ResultsOf(call.turn)' => "rubric" \in DOMAIN old
    <3>1. ResultsOf(call.turn)' = Renewed(old, results)
      BY <2>1, <2>3, EvaluatedResults
    <3> QED BY <2>1, <3>1 DEF Renewed
  <2> QED BY <2>1, <2>2, <2>3, <2>4, EvaluatedResults
<1> QED BY <1>1, <1>2 DEF Loses

\* The last seat of a panel brings the verdict with it, and no other answer brings any
\* (_maybe_emit_rubric_gate).
LEMMA AnswerResults ==
    ASSUME IInv, Answer
    PROVE  \E call \in asked : \E rec, verdict :
              /\ Completes(call.turn, rec) /\ verdict \in PanelVerdicts(call.turn)
              /\ Evaluated(call.turn, Renewed(Gated(call.turn, rec.said), verdict))
<1>1. PICK call \in asked :
          /\ ~Done(call.turn)
          /\ \E said \in Outputs(call.turn) :
                /\ \E verdict \in PanelVerdicts(call.turn) :
                      Evaluated(call.turn, Renewed(Gated(call.turn, said), verdict))
                /\ done' = Learned(call.turn, [basis |-> call.basis, said |-> said])
          /\ pipeline' = pipeline
  BY DEF Answer
<1>2. PICK said, verdict :
          /\ verdict \in PanelVerdicts(call.turn)
          /\ Evaluated(call.turn, Renewed(Gated(call.turn, said), verdict))
          /\ done' = Learned(call.turn, [basis |-> call.basis, said |-> said])
  BY <1>1
<1>3. PICK rec : rec = [basis |-> call.basis, said |-> said]
  OBVIOUS
<1>4. [turn |-> call.turn, basis |-> rec.basis] \in PlanRequest(call.turn.unit)
  BY <1>1, <1>3 DEF IInv, AskedIsPlanned
<1>5. Planned(call.turn.unit, [turn |-> call.turn, basis |-> rec.basis])
  BY <1>4, PlannedTurns, CommittedIsSound DEF IInv
<1>6. Grows(call.turn, rec)
  BY <1>1, <1>2, <1>3 DEF Grows
<1> QED BY <1>2, <1>3, <1>5, <1>6 DEF Completes

\* The seats of a panel are missing until the last of them answers.
LEMMA LastSeat ==
    ASSUME NEW u, NEW rec, Grows(u, rec), Proper(u), NEW q,
           ~AllAnswered(q, "final"), AllAnswered(q, "final")'
    PROVE  u.kind = "final" /\ u.unit = q /\ Missing(q, "final") = {u.k}
<1>1. u.kind = "final" /\ u.unit = q
  BY Untouched
<1>2. \A k \in 1..Most(pipeline, "final") : Done(Turn(q, "final", k))'
  BY DEF AllAnswered, Missing, Answered, Grows
<1>3. \A k \in 1..Most(pipeline, "final") : Done(Turn(q, "final", k)) \/ Turn(q, "final", k) = u
  BY <1>2, GrownDone DEF Done
<1>4. \A k \in Missing(q, "final") : k = u.k
  BY <1>3, PartsOfTurn DEF Missing, Answered
<1>5. Missing(q, "final") # {}
  BY DEF AllAnswered
<1> QED BY <1>1, <1>4, <1>5

LEMMA AnswerKeepsJournal ==
    ASSUME IInv, JournalInv, Answer PROVE JournalInv'
<1>0. PICK call \in asked : \E rec, verdict :
          /\ Completes(call.turn, rec) /\ verdict \in PanelVerdicts(call.turn)
          /\ Evaluated(call.turn, Renewed(Gated(call.turn, rec.said), verdict))
  BY AnswerResults
<1>1. PICK u, rec, verdict :
          /\ Completes(u, rec) /\ verdict \in PanelVerdicts(u)
          /\ Evaluated(u, Renewed(Gated(u, rec.said), verdict))
  BY <1>0
<1>2. PICK gated, gates, results :
          /\ gates = pipeline.gates
          /\ gated = Results(gates, u.kind \in Drafting, rec.said)
          /\ results = Renewed(gated, verdict)
  OBVIOUS
<1>3. Grows(u, rec) /\ pipeline' = pipeline /\ Proper(u) /\ ~Done(u)
  BY <1>1, CompletesPlanned DEF Grows
<1>4. Evaluated(u, results)
  BY <1>1, <1>2 DEF Gated
<1>5. /\ verdict = << >> \/ (verdict = [rubric |-> "pass"] \/ verdict = [rubric |-> "fail"])
      /\ verdict # << >> => u.kind = "final" /\ Missing(u.unit, "final") = {u.k}
      /\ /\ u.kind = "final" /\ Missing(u.unit, "final") = {u.k}
         /\ ~\E e \in ever : e.gate = "rubric" /\ e.turn.unit = u.unit
         => verdict # << >>
  BY <1>1 DEF PanelVerdicts, PanelStatuses
<1>6. /\ DOMAIN verdict \subseteq {"rubric"}
      /\ "rubric" \in DOMAIN verdict => verdict["rubric"] \in {"pass", "fail"}
      /\ verdict # << >> <=> "rubric" \in DOMAIN verdict
  BY <1>5
<1>7. /\ DOMAIN results = DOMAIN gated \cup DOMAIN verdict
      /\ \A g \in DOMAIN verdict : results[g] = verdict[g]
      /\ \A g \in DOMAIN gated \ DOMAIN verdict : results[g] = gated[g]
  BY <1>2 DEF Renewed
<1>8. /\ "rubric" \notin DOMAIN gated
      /\ u.kind \in Drafting => \A g \in TextGates \cap gates :
            g \in DOMAIN gated /\ gated[g] = Verdict(g, rec.said)
  <2>1. "rubric" \notin DOMAIN gated
    BY <1>2 DEF Results, Gating
  <2>2. ASSUME u.kind \in Drafting, NEW g \in TextGates \cap gates
        PROVE  g \in DOMAIN gated /\ gated[g] = Verdict(g, rec.said)
    <3>1. g \in Gating(gates, u.kind \in Drafting)
      BY <2>2 DEF Gating, Selected, GateNames, TextGates
    <3> QED BY <1>2, <3>1 DEF Results
  <2> QED BY <2>1, <2>2
<1>9. "rubric" \in DOMAIN results <=> verdict # << >>
  BY <1>6, <1>7, <1>8
<1>10. ASSUME NEW t \in DOMAIN done', t.kind \in Drafting, NEW g \in TextGates \cap pipeline.gates
       PROVE  g \in DOMAIN ResultsOf(t)' /\ ResultsOf(t)'[g] = Verdict(g, Said(t)')
  <2>1. CASE t = u
    <3>1. g \in DOMAIN results /\ results[g] = Verdict(g, rec.said)
      BY <1>2, <1>6, <1>7, <1>8, <1>10, <2>1 DEF TextGates
    <3>2. Said(t)' = rec.said
      BY <1>3, <2>1, GrownDone DEF Said
    <3>3. PICK old : ResultsOf(t)' = Renewed(old, results)
      BY <1>4, <2>1, EvaluatedResults
    <3> QED BY <3>1, <3>2, <3>3 DEF Renewed
  <2>2. CASE t # u
    <3>0. DOMAIN done' = DOMAIN done \cup {u}
      BY <1>3, GrownDone
    <3>1. t \in DOMAIN done /\ Done(t)
      BY <1>10, <2>2, <3>0 DEF Done
    <3>2. Said(t)' = Said(t) /\ ResultsOf(t)' = ResultsOf(t)
      BY <1>3, <1>4, <2>2, <3>1, DoneStays, EvaluatedResults
    <3> QED BY <1>10, <3>1, <3>2 DEF JournalInv
  <2> QED BY <2>1, <2>2
<1>11. ASSUME NEW t, t.kind # "final" PROVE "rubric" \notin DOMAIN ResultsOf(t)'
  <2>1. CASE t = u
    <3>1. "rubric" \notin DOMAIN results
      BY <1>5, <1>9, <1>11, <2>1
    <3>2. PICK old : old = ResultsOf(u) /\ ResultsOf(t)' = Renewed(old, results)
      BY <1>4, <2>1, EvaluatedResults
    <3>3. "rubric" \notin DOMAIN old
      BY <1>11, <2>1, <3>2 DEF JournalInv
    <3> QED BY <3>1, <3>2, <3>3 DEF Renewed
  <2>2. CASE t # u
    BY <1>4, <1>11, <2>2, EvaluatedResults DEF JournalInv
  <2> QED BY <2>1, <2>2
<1>12. ASSUME NEW e \in ever', e.gate = "rubric"
       PROVE  /\ e.turn.kind = "final" /\ e.status \in {"pass", "fail"}
              /\ Done(e.turn)' /\ AllAnswered(e.turn.unit, "final")'
  <2>1. CASE e \in ever
    <3>1. /\ e.turn.kind = "final" /\ e.status \in {"pass", "fail"}
          /\ Done(e.turn) /\ AllAnswered(e.turn.unit, "final")
      BY <1>12, <2>1 DEF JournalInv
    <3> QED BY <1>3, <3>1, DoneStays, AnsweredStays
  <2>2. CASE e \notin ever
    <3>1. e.turn = u /\ "rubric" \in DOMAIN results /\ e.status = results["rubric"]
      BY <1>4, <1>12, <2>2, EvaluatedResults
    <3>2. u.kind = "final" /\ Missing(u.unit, "final") = {u.k}
      BY <1>5, <1>9, <3>1
    <3>3. e.status \in {"pass", "fail"}
      BY <1>6, <1>7, <1>9, <3>1
    <3>4. Done(u)'
      BY <1>3, GrownDone DEF Done
    <3>5. AllAnswered(u.unit, "final")'
      <4>1. u = Turn(u.unit, "final", u.k)
        BY <1>3, <3>2 DEF Proper
      <4>2. ASSUME NEW k \in 1..Most(pipeline, "final")
            PROVE  Done(Turn(u.unit, "final", k))'
        <5>1. CASE k = u.k
          BY <3>4, <4>1, <5>1
        <5>2. CASE k # u.k
          <6>1. Done(Turn(u.unit, "final", k))
            BY <3>2, <5>2 DEF Missing, Answered
          <6> QED BY <1>3, <6>1, DoneStays
        <5> QED BY <5>1, <5>2
      <4> QED BY <1>3, <4>2 DEF AllAnswered, Missing, Answered
    <3> QED BY <3>1, <3>2, <3>3, <3>4, <3>5
  <2> QED BY <2>1, <2>2
<1>13. ASSUME NEW q, AllAnswered(q, "final")'
       PROVE  \E e \in ever' : e.gate = "rubric" /\ e.turn.unit = q
  <2>1. CASE AllAnswered(q, "final")
    <3>1. PICK e \in ever : e.gate = "rubric" /\ e.turn.unit = q
      BY <2>1 DEF JournalInv
    <3> QED BY <1>4, <3>1, EvaluatedResults
  <2>2. CASE ~AllAnswered(q, "final")
    <3>1. u.kind = "final" /\ u.unit = q /\ Missing(q, "final") = {u.k}
      BY <1>3, <1>13, <2>2, LastSeat
    <3>2. ~\E e \in ever : e.gate = "rubric" /\ e.turn.unit = q
      BY <2>2 DEF JournalInv
    <3>3. "rubric" \in DOMAIN results
      BY <1>5, <1>9, <3>1, <3>2
    <3>4. [turn |-> u, gate |-> "rubric", status |-> results["rubric"]] \in ever'
      BY <1>4, <3>3, EvaluatedResults
    <3> QED BY <3>1, <3>4
  <2> QED BY <2>1, <2>2
<1> QED BY <1>3, <1>10, <1>11, <1>12, <1>13 DEF JournalInv

LEMMA JournalHolds == Spec => []JournalInv
<1>1. ASSUME Init PROVE JournalInv
  <2>1. Sound(pipeline)
    BY <1>1, CommittedIsSound, InitIInv DEF IInv
  <2>2. DOMAIN done = {} /\ DOMAIN latest = {} /\ ever = {}
    BY <1>1 DEF Init
  <2>3. \A t : DOMAIN ResultsOf(t) = {}
    BY <2>2 DEF ResultsOf
  <2>4. ASSUME NEW q PROVE ~AllAnswered(q, "final")
    <3>1. Most(pipeline, "final") \in Nat /\ Most(pipeline, "final") >= 1
      BY <2>1 DEF Most, Sound, IsLayout
    <3>2. 1 \in Missing(q, "final")
      BY <2>2, <3>1 DEF Missing, Answered, Done
    <3> QED BY <3>2 DEF AllAnswered
  <2> QED BY <2>2, <2>3, <2>4 DEF JournalInv
<1>2. ASSUME IInv, JournalInv, [Next]_vars PROVE JournalInv'
  <2>1. CASE Answer
    BY <1>2, <2>1, AnswerKeepsJournal
  <2>2. CASE Ask \/ AnswerTwice \/ Refuse \/ Loses \/ UNCHANGED vars
    <3>1. UNCHANGED <<pipeline, done>>
      BY <2>2, LossesRecordNothing DEF Ask, AnswerTwice, Refuse, vars
    <3>2. /\ \A t \in DOMAIN done : ResultsOf(t)' = ResultsOf(t)
          /\ \A t : "rubric" \in DOMAIN ResultsOf(t)' => "rubric" \in DOMAIN ResultsOf(t)
          /\ ever \subseteq ever'
          /\ \A e \in ever' : e.gate = "rubric" => e \in ever
      <4>1. CASE Loses
        BY <4>1, LossesLeaveTheRest
      <4>2. CASE Ask \/ AnswerTwice \/ Refuse \/ UNCHANGED vars
        <5>1. latest' = latest /\ ever' = ever
          BY <4>2 DEF Ask, AnswerTwice, Refuse, vars
        <5> QED BY <5>1 DEF ResultsOf
      <4> QED BY <2>2, <4>1, <4>2
    <3>3. /\ \A t : (Done(t)' <=> Done(t)) /\ Said(t)' = Said(t)
          /\ \A q : AllAnswered(q, "final")' <=> AllAnswered(q, "final")
      BY <3>1 DEF Done, Said, AllAnswered, Missing, Answered
    <3> QED BY <1>2, <3>1, <3>2, <3>3 DEF JournalInv
  <2> QED BY <1>2, <2>1, <2>2 DEF Next, Loses
<1> QED BY <1>1, <1>2, Invariance, PTL DEF Spec

\* What the ledger says of the rubric (_turn_gate_status): nothing before the whole panel
\* has answered, and after that one of its verdicts.
LEMMA RubricStands ==
    ASSUME JournalInv, NEW q
    PROVE  /\ Standing(q, "rubric") # "pending" <=> AllAnswered(q, "final")
           /\ Standing(q, "rubric") = "fail" => "fail" \in Recorded(q, "rubric")
<1>1. ~("rubric" \in DOMAIN ResultsOf(OperativeDraft(q)))
  BY DraftsAreServed DEF JournalInv
<1>2. Standing(q, "rubric") = IF Recorded(q, "rubric") = {} THEN "pending"
                              ELSE Worst(Recorded(q, "rubric"))
  BY <1>1 DEF Standing
<1>3. \A s \in Recorded(q, "rubric") : s \in {"pass", "fail"} /\ AllAnswered(q, "final")
  BY DEF Recorded, JournalInv
<1>4. AllAnswered(q, "final") => Recorded(q, "rubric") # {}
  <2> SUFFICES ASSUME AllAnswered(q, "final") PROVE Recorded(q, "rubric") # {}
    OBVIOUS
  <2>1. PICK e \in ever : e.gate = "rubric" /\ e.turn.unit = q
    BY DEF JournalInv
  <2>2. Done(e.turn)
    BY <2>1 DEF JournalInv
  <2>3. e.status \in Recorded(q, "rubric")
    BY <2>1, <2>2 DEF Recorded
  <2> QED BY <2>3
<1> QED BY <1>2, <1>3, <1>4 DEF Worst

\* What it says of a draft that is served (build_ledger).
LEMMA DraftStands ==
    ASSUME JournalInv, NEW q, Done(OperativeDraft(q)), OperativeDraft(q) # NoDraft,
           NEW g \in TextGates \cap pipeline.gates
    PROVE  Standing(q, g) = Verdict(g, Said(OperativeDraft(q)))
BY DraftsAreServed DEF JournalInv, Standing, Done

\* The text gates of a request speak of the draft that is served, and the rubric's verdict
\* is there exactly when its whole panel has scored that draft (build_ledger), whatever
\* was discarded or lost under the same turn ids and however the seats' answers arrive.
THEOREM LedgerIsOfServed == Spec => []LedgerSpeaksOfServed
<1>1. ASSUME IInv, JournalInv PROVE LedgerSpeaksOfServed
  <2> SUFFICES ASSUME NEW q \in 0..units - 1
               PROVE  /\ OperativeDraft(q) # NoDraft =>
                            \A g \in {"completeness", "fabrication"} \cap pipeline.gates :
                               Standing(q, g) = Verdict(g, Said(OperativeDraft(q)))
                      /\ Standing(q, "rubric") # "pending" <=> AllAnswered(q, "final")
                      /\ AllAnswered(q, "final") =>
                            \A k \in Answered(q, "final") :
                               done[Turn(q, "final", k)].basis = OperativeDraft(q)
    BY DEF LedgerSpeaksOfServed
  <2>1. IsLayout(pipeline)
    BY <1>1, CommittedIsSound DEF IInv, Sound
  <2>2. OperativeDraft(q) # NoDraft => Done(OperativeDraft(q))
    BY <2>1, JudgedDraftDone, LatestIsDone DEF OperativeDraft
  <2>3. ASSUME NEW k \in Answered(q, "final")
        PROVE  done[Turn(q, "final", k)].basis = OperativeDraft(q)
    <3>1. Turn(q, "final", k) \in DOMAIN done
      BY DEF Answered, Done
    <3> QED BY <1>1, <3>1, PartsOfTurn DEF IInv, ReviewsMatchDrafts
  <2>4. OperativeDraft(q) # NoDraft =>
            \A g \in {"completeness", "fabrication"} \cap pipeline.gates :
               Standing(q, g) = Verdict(g, Said(OperativeDraft(q)))
    BY <1>1, <2>2, DraftStands DEF TextGates
  <2> QED BY <1>1, <2>3, <2>4, RubricStands
<1> QED BY <1>1, Invariance, JournalHolds, PTL

\* A complete run is held back by its turns only for what the drafts it serves say, or
\* what a panel decided (_export_ready): discards, crashes and cured findings leave
\* nothing behind.
THEOREM TheServedBlocks == Spec => []OnlyTheServedBlocks
<1>1. ASSUME IInv, JournalInv PROVE OnlyTheServedBlocks
  <2> SUFFICES ASSUME \A q \in 0..units - 1 : RequestComplete(q)
               PROVE  /\ "fabrication" \in TurnBlockers <=>
                            /\ "fabrication" \in pipeline.gates
                            /\ \E q \in 0..units - 1 :
                                  Verdict("fabrication", Said(OperativeDraft(q))) # "pass"
                      /\ "rubric" \in TurnBlockers =>
                            \E q \in 0..units - 1 : "fail" \in Recorded(q, "rubric")
    BY DEF OnlyTheServedBlocks
  <2>1. Sound(pipeline) /\ WellOrdered /\ Committed
    BY <1>1, CommittedIsSound DEF IInv
  <2>2. ASSUME NEW q \in 0..units - 1, "fabrication" \in pipeline.gates
        PROVE  Standing(q, "fabrication") = Verdict("fabrication", Said(OperativeDraft(q)))
    <3>1. Done(Turn(q, "draft", 1))
      BY <2>1 DEF RequestComplete, StageComplete, Sound
    <3>2. Done(OperativeDraft(q)) /\ OperativeDraft(q) # NoDraft
      BY <2>1, <3>1, DraftsAreDone, NoDraftIsNoTurn
    <3> QED BY <1>1, <2>2, <3>2, DraftStands DEF TextGates
  <2>3. \A text : Verdict("fabrication", text) \in {"pass", "pending", "fail"}
    BY DEF Verdict, Fabrication
  <2>4. "fabrication" \in TurnBlockers <=>
            /\ "fabrication" \in pipeline.gates
            /\ \E q \in 0..units - 1 :
                  Verdict("fabrication", Said(OperativeDraft(q))) # "pass"
    <3>1. "fabrication" \in TurnBlockers <=>
              /\ "fabrication" \in pipeline.gates
              /\ \E q \in 0..units - 1 : Standing(q, "fabrication") \in {"pending", "fail"}
      BY DEF TurnBlockers, BlockingGates
    <3> QED BY <2>2, <2>3, <3>1
  <2>5. ASSUME "rubric" \in TurnBlockers
        PROVE  \E q \in 0..units - 1 : "fail" \in Recorded(q, "rubric")
    <3>1. "rubric" \in pipeline.gates
      BY <2>5 DEF TurnBlockers
    <3>2. PICK q \in 0..units - 1 : Standing(q, "rubric") \in {"pending", "fail"}
      BY <2>5 DEF TurnBlockers
    <3>3. "rubric_gate" \in pipeline.stages
      BY <2>1, <3>1 DEF Committed, Compiles, Owned
    <3>4. AllAnswered(q, "final")
      BY <3>3 DEF RequestComplete, StageComplete
    <3> QED BY <1>1, <3>2, <3>4, RubricStands
  <2> QED BY <2>4, <2>5
<1> QED BY <1>1, Invariance, JournalHolds, PTL

=============================================================================
