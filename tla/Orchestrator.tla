---------------------------- MODULE Orchestrator ----------------------------
(***************************************************************************)
(* The run orchestrator (orchestrator.py) as functions on what a run keeps *)
(* on disk: the folded journal, the write-once turn bodies and the attorney*)
(* gates.  Verbs that append one event are single steps; those that append *)
(* several also have the states a crash between two of them leaves.        *)
(* Which turns a request needs, and in which order, comes from stages.py   *)
(* and is a parameter here: a turn may run when the turns before it are    *)
(* done.  Turns are numbered in the order plan_next lists them.            *)
(***************************************************************************)
EXTENDS RunJournal

CONSTANTS Stages, StageOf, Before,
          RubricTurns,   \* the final rubric panel's turns
          Outputs, NoBody,
          Gates, HardHuman,  \* attorney gates; the others are policy-delegable
          Raises,        \* [Turns -> SUBSET Gates]: gates a turn's draft implies
          CheckpointStages, Gated,
          MaxTurnAttempts    \* max_attempts of the launch config

ASSUME PlanAssumption ==
    /\ Turns \subseteq Nat /\ IsFiniteSet(Turns)
    /\ StageOf \in [Turns -> Stages] /\ Before \in [Turns -> SUBSET Turns]
    /\ RubricTurns \subseteq Turns
    /\ MaxTurnAttempts \in Nat \ {0}
ASSUME GateAssumption ==
    /\ HardHuman \subseteq Gates /\ Raises \in [Turns -> SUBSET Gates]
    /\ Gated \in BOOLEAN /\ NoBody \notin Outputs
ASSUME BoundaryAssumption ==
    CheckpointStages \subseteq Stages /\ Boundaries = CheckpointStages \cup {"policy_decisions"}

Vault == [run : RunState, body : [Turns -> Outputs \cup {NoBody}],
          gates : [Gates -> {"none", "open", "resolved"}]]

Launched == [run |-> Started, body |-> [t \in Turns |-> NoBody],
             gates |-> [g \in Gates |-> "none"]]

-----------------------------------------------------------------------------
\* _plan: what can run now, nothing unless the run is running.
Plan(v) == IF v.run.status # "running" THEN {}
           ELSE {t \in Turns \ v.run.done : Before[t] \subseteq v.run.done}

\* specs[0] of a non-empty plan.
First(S) == CHOOSE t \in S : \A u \in S : t <= u

AllDone(v) == v.run.done = Turns
OpenGates(v, kind) == {g \in kind : v.gates[g] = "open"}

\* _cap_transition: a graceful stop, unless the run is stopped already.
CapTransition(v) ==
    IF v.run.status # "running" THEN v
    ELSE [v EXCEPT !.run = RunFinished(@, "capped")]

\* plan_next's own effect: a run at its cap is capped before it is planned, a
\* paused one is left alone.
Planned(v) == IF v.run.status = "running" /\ OverCap(v.run) THEN CapTransition(v) ELSE v

-----------------------------------------------------------------------------
\* derive_and_store: the gates of the drafts in T, those that exist kept.
DerivedOver(v, T) ==
    [v EXCEPT !.gates = [g \in Gates |-> IF \E t \in T : g \in Raises[t]
                                         THEN "open" ELSE v.gates[g]]]
Derived(v, T) ==
    [v EXCEPT !.gates = [g \in Gates |->
        IF v.gates[g] = "none" /\ \E t \in T : g \in Raises[t]
        THEN "open" ELSE v.gates[g]]]

\* _maybe_emit_rubric_gate: once, when the panel is complete.
RubricGate(v) ==
    IF RubricTurns \subseteq v.run.done THEN [v EXCEPT !.run = RubricEvaluated(@)] ELSE v

\* _finalize: recover derived gates and the rubric gate, then finish, or wait for
\* the hard-human gates.
FinalizeWithoutRecovery(v) ==
    IF v.run.status \notin {"running", "needs_decisions"} \/ ~AllDone(v) THEN v
    ELSE IF OpenGates(v, HardHuman) # {}
         THEN [v EXCEPT !.run = RunFinished(@, "needs_decisions")]
         ELSE [v EXCEPT !.run = RunFinished(@, "finished")]
FinalizeAnyStatus(v) ==
    LET w == RubricGate(Derived(v, v.run.done))
    IN  IF OpenGates(w, HardHuman) # {}
        THEN [w EXCEPT !.run = RunFinished(@, "needs_decisions")]
        ELSE [w EXCEPT !.run = RunFinished(@, "finished")]
Finalize(v) ==
    LET w == RubricGate(Derived(v, v.run.done))
    IN  IF v.run.status \notin {"running", "needs_decisions"} \/ ~AllDone(v) THEN v
        ELSE IF OpenGates(w, HardHuman) # {}
             THEN [w EXCEPT !.run = RunFinished(@, "needs_decisions")]
             ELSE [w EXCEPT !.run = RunFinished(@, "finished")]

\* _maybe_checkpoint: a gated run stops before a stage all its turns are about to
\* enter, or while policy-delegable gates are open.
MaybeCheckpoint(v) ==
    LET next == {StageOf[t] : t \in Plan(v)}
        due  == {s \in CheckpointStages \ v.run.cleared : next = {s}}
    IN  IF ~Gated \/ v.run.status # "running" THEN v
        ELSE IF due # {}
             THEN [v EXCEPT !.run = CheckpointReached(@, CHOOSE s \in due : TRUE)]
             ELSE IF "policy_decisions" \notin v.run.cleared
                     /\ OpenGates(v, Gates \ HardHuman) # {}
                  THEN [v EXCEPT !.run = CheckpointReached(@, "policy_decisions")]
                  ELSE v

-----------------------------------------------------------------------------
\* _book_spend: a call whose usage was not reported settles nothing.  Every call has
\* an id of its own and is recorded once, so the search for an equal SpendRecorded
\* finds none and is left out.
BookedTwice(v, t, call) ==
    [v EXCEPT !.run = SpendRecorded(SpendRecorded(@, t, call.cost), t, call.cost)]
Booked(v, t, call) ==
    IF call.reported THEN [v EXCEPT !.run = SpendRecorded(@, t, call.cost)] ELSE v

\* _record_spec of a valid output, in the order of its durable writes: the body,
\* the gates, the spend, TurnCompleted, the rubric gate; then the cap, or the end
\* of the run and the checkpoint.
Sealed(v, t, call)    == [v EXCEPT !.body[t] = call.out]
GatesLater(v, t, call) == Sealed(v, t, call)
GatesOpen(v, t, call) == Derived(Sealed(v, t, call), {t})
Paid(v, t, call)      == Booked(GatesOpen(v, t, call), t, call)
Completed(v, t, call) == [Paid(v, t, call) EXCEPT !.run = TurnCompleted(@, t)]
Scored(v, t, call)    == IF t \in RubricTurns THEN RubricGate(Completed(v, t, call))
                         ELSE Completed(v, t, call)
Recorded(v, t, call) ==
    LET w == Scored(v, t, call)
    IN  IF OverCap(w.run) THEN CapTransition(w) ELSE MaybeCheckpoint(Finalize(w))

\* write_turn_body accepts a body only once, or again the same.
Seals(v, t, out) == v.body[t] \in {NoBody, out}

\* The decisions of a draft are stored one after the other.
GatesBegun(v, t, call) ==
    {[Sealed(v, t, call) EXCEPT
        !.gates = [g \in Gates |-> IF g \in G THEN GatesOpen(v, t, call).gates[g]
                                            ELSE v.gates[g]]] : G \in SUBSET Raises[t]}

\* What a crash inside _record_spec may leave.
RecordTorn(v, t, call) ==
    GatesBegun(v, t, call)
    \cup {Paid(v, t, call), Completed(v, t, call), Scored(v, t, call)}
    \cup (IF OverCap(Scored(v, t, call).run) THEN {} ELSE {Finalize(Scored(v, t, call))})

\* record_turn of a turn another worker completed: only the money is recorded.
Replayed(v, t, call) == Finalize(Booked(v, t, call))

\* _discard: the spend, the attempt, and the end of a run out of attempts.
AttemptCeiling(v) == MaxTurnAttempts + v.run.granted
Attempted(v, t, call) ==
    LET w == Booked(v, t, call)
    IN  [w EXCEPT !.run = TurnDiscarded(@, t, @.discarded[t] + 1)]
DiscardedPastCeiling(v, t, call) ==
    LET w == Attempted(v, t, call)
    IN  IF w.run.discarded[t] > AttemptCeiling(v)
        THEN [w EXCEPT !.run = RunFinished(@, "needs_attention")] ELSE w
Discarded(v, t, call) ==
    LET w == Attempted(v, t, call)
    IN  IF w.run.discarded[t] >= AttemptCeiling(v)
        THEN [w EXCEPT !.run = RunFinished(@, "needs_attention")] ELSE w

DiscardTorn(v, t, call) == {Booked(v, t, call), Attempted(v, t, call)}

-----------------------------------------------------------------------------
\* The operator's verbs; each is guarded as the code refuses it otherwise.
CanPause(v) == ~Terminal(v.run)
Pause(v, reason) == [v EXCEPT !.run = RunPaused(@, reason)]

CanResume(v) == v.run.status = "paused"
Resume(v) == [v EXCEPT !.run = RunResumed(@)]

CanContinue(v) == v.run.status = "checkpoint"
Continue(v) == [v EXCEPT !.run = CheckpointCleared(@, @.boundary)]

RaiseCap(v, usd) == [v EXCEPT !.run = CapRaised(@, usd)]

\* reopen_run: refused while a turn without a completion has no attempt left.
CanReopen(v, grant) ==
    /\ v.run.status = "needs_attention"
    /\ \A t \in Turns \ v.run.done : v.run.discarded[t] < AttemptCeiling(v) + grant
Reopen(v, grant) == [v EXCEPT !.run = RunReopened(@, grant)]

NeedsAttention(v) == [v EXCEPT !.run = RunFinished(@, "needs_attention")]

\* decisions.resolve: the resolution, then another try at the end of the run.
Resolved(v, g) == [v EXCEPT !.gates[g] = "resolved"]
=============================================================================
