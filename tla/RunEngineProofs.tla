-------------------------- MODULE RunEngineProofs --------------------------
(***************************************************************************)
(* Theorems about the run engine, for every plan, set of workers, budget,  *)
(* and number of faults and operator verbs.                                *)
(***************************************************************************)
EXTENDS RunEngine, FiniteSetTheorems, WellFoundedInduction, TLAPS

-----------------------------------------------------------------------------
(* The journal: what no event may undo. *)

Reserved(s) == s.booked \cup s.pending

\* r keeps what s says of the plan and of the attempts; needs_attention is left by
\* reopen alone, which is not such a step.
Follows(s, r) ==
    /\ r \in RunState
    /\ r.done = s.done /\ r.discarded = s.discarded /\ r.granted = s.granted
    /\ Reserved(s) \subseteq Reserved(r)
    /\ s.status = "needs_attention" => r.status = "needs_attention"

LEMMA Statuses ==
    /\ "running" \in Status /\ "paused" \in Status /\ "checkpoint" \in Status
    /\ "capped" \in Status /\ "needs_attention" \in Status
    /\ "needs_decisions" \in Status /\ "finished" \in Status
  BY DEF Status

LEMMA IntentFollows ==
    ASSUME NEW s \in RunState, NEW t \in Turns
    PROVE  Follows(s, TurnIntent(s, t)) /\ t \in Reserved(TurnIntent(s, t))
  BY DEF Follows, Reserved, RunState, TurnIntent

LEMMA SpendFollows ==
    ASSUME NEW s \in RunState, NEW t \in Turns, NEW usd \in Nat
    PROVE  /\ Follows(s, SpendRecorded(s, t, usd))
           /\ SpendRecorded(s, t, usd).status = s.status
<1>1. /\ s.spend + usd \in Nat /\ s.booked \cup {t} \in SUBSET Turns
      /\ s.pending \ {t} \in SUBSET Turns
  BY DEF RunState
<1>2. SpendRecorded(s, t, usd) \in RunState
  BY <1>1 DEF RunState, SpendRecorded
<1> QED BY <1>2 DEF Follows, Reserved, RunState, SpendRecorded

LEMMA RubricFollows ==
    ASSUME NEW s \in RunState
    PROVE  /\ Follows(s, RubricEvaluated(s))
           /\ RubricEvaluated(s).status = s.status
  BY DEF Follows, Reserved, RunState, RubricEvaluated

LEMMA FinishFollows ==
    ASSUME NEW s \in RunState, NEW x \in Status,
           s.status = "needs_attention" => x = "needs_attention"
    PROVE  Follows(s, RunFinished(s, x)) /\ RunFinished(s, x).status = x
  BY DEF Follows, Reserved, RunState, RunFinished

LEMMA PauseFollows ==
    ASSUME NEW s \in RunState, NEW reason \in Reason, s.status # "needs_attention"
    PROVE  Follows(s, RunPaused(s, reason))
  BY Statuses DEF Follows, Reserved, RunState, RunPaused

LEMMA ResumeFollows ==
    ASSUME NEW s \in RunState PROVE Follows(s, RunResumed(s))
<1>1. "none" \in Reason
  BY DEF Reason
<1> QED BY <1>1, Statuses DEF Follows, Reserved, RunState, RunResumed

LEMMA RaiseFollows ==
    ASSUME NEW s \in RunState, NEW usd \in Nat PROVE Follows(s, CapRaised(s, usd))
  BY Statuses DEF Follows, Reserved, RunState, CapRaised

LEMMA CheckpointFollows ==
    ASSUME NEW s \in RunState, NEW b \in Boundaries, s.status = "running"
    PROVE  Follows(s, CheckpointReached(s, b))
  BY Statuses DEF Follows, Reserved, RunState, CheckpointReached

LEMMA ClearFollows ==
    ASSUME NEW s \in RunState, NEW b PROVE Follows(s, CheckpointCleared(s, b))
<1>1. s.cleared \cup ({b} \cap Boundaries) \in SUBSET Boundaries
  BY DEF RunState
<1> QED BY <1>1, Statuses DEF Follows, Reserved, RunState, CheckpointCleared

LEMMA EnqueueFollows ==
    ASSUME NEW s \in RunState PROVE Follows(s, RunEnqueued(s))
  BY DEF Follows, Reserved, RunState, RunEnqueued

-----------------------------------------------------------------------------
(* The vault: what no step of the run may undo. *)

Extends(v, x) ==
    /\ x \in Vault
    /\ v.run.done \subseteq x.run.done
    /\ Reserved(v.run) \subseteq Reserved(x.run)
    /\ \A t \in Turns : v.body[t] # NoBody => x.body[t] = v.body[t]
    /\ \A g \in Gates : /\ v.gates[g] # "none" => x.gates[g] # "none"
                        /\ v.gates[g] = "resolved" => x.gates[g] = "resolved"

\* A step that is neither a discard nor a reopen.
Grows(v, x) ==
    /\ Extends(v, x)
    /\ x.run.discarded = v.run.discarded /\ x.run.granted = v.run.granted
    /\ v.run.status = "needs_attention" => x.run.status = "needs_attention"

\* One that completes no turn either.
Keeps(v, x) == Grows(v, x) /\ x.run.done = v.run.done

LEMMA GrowsOn ==
    ASSUME NEW u, NEW v, NEW x, Grows(u, v), Grows(v, x) PROVE Grows(u, x)
  BY DEF Grows, Extends

LEMMA KeepsOn ==
    ASSUME NEW u, NEW v, NEW x, Keeps(u, v), Keeps(v, x) PROVE Keeps(u, x)
  BY GrowsOn DEF Keeps

LEMMA KeepsSelf == ASSUME NEW v \in Vault PROVE Keeps(v, v)
  BY DEF Keeps, Grows, Extends

\* Appending to the journal touches neither the bodies nor the gates.
LEMMA JournalKeeps ==
    ASSUME NEW v \in Vault, NEW r, Follows(v.run, r)
    PROVE  Keeps(v, [v EXCEPT !.run = r])
  BY DEF Vault, Follows, Keeps, Grows, Extends

LEMMA RunOf == ASSUME NEW v \in Vault PROVE v.run \in RunState
  BY DEF Vault

LEMMA DerivedKeeps ==
    ASSUME NEW v \in Vault, NEW T
    PROVE  /\ Keeps(v, Derived(v, T)) /\ Derived(v, T).run = v.run
           /\ Derived(v, T).body = v.body
           /\ \A t \in T : \A g \in Raises[t] \cap Gates : Derived(v, T).gates[g] # "none"
  BY DEF Vault, Keeps, Grows, Extends, Derived

LEMMA RubricGateKeeps ==
    ASSUME NEW v \in Vault
    PROVE  /\ Keeps(v, RubricGate(v)) /\ RubricGate(v).run.status = v.run.status
           /\ RubricGate(v).body = v.body /\ RubricGate(v).gates = v.gates
<1>1. CASE RubricTurns \subseteq v.run.done
  <2>1. RubricGate(v) = [v EXCEPT !.run = RubricEvaluated(v.run)]
    BY <1>1 DEF RubricGate
  <2>2. Keeps(v, RubricGate(v))
    BY <2>1, RunOf, RubricFollows, JournalKeeps
  <2> QED BY <2>1, <2>2, RunOf, RubricFollows DEF Vault
<1>2. CASE ~(RubricTurns \subseteq v.run.done)
  BY <1>2, KeepsSelf DEF RubricGate
<1> QED BY <1>1, <1>2

LEMMA CapKeeps == ASSUME NEW v \in Vault PROVE Keeps(v, CapTransition(v))
<1>1. CASE v.run.status = "running"
  <2>1. Follows(v.run, RunFinished(v.run, "capped"))
    BY <1>1, RunOf, Statuses, FinishFollows
  <2> QED BY <1>1, <2>1, JournalKeeps DEF CapTransition
<1>2. CASE v.run.status # "running"
  BY <1>2, KeepsSelf DEF CapTransition
<1> QED BY <1>1, <1>2

LEMMA PlannedKeeps == ASSUME NEW v \in Vault PROVE Keeps(v, Planned(v))
  BY CapKeeps, KeepsSelf DEF Planned

LEMMA FinalizeKeeps == ASSUME NEW v \in Vault PROVE Keeps(v, Finalize(v))
<1> DEFINE w == RubricGate(Derived(v, v.run.done))
<1>1. Keeps(v, w) /\ w \in Vault /\ w.run.status = v.run.status
  <2>1. Keeps(v, Derived(v, v.run.done)) /\ Derived(v, v.run.done) \in Vault
        /\ Derived(v, v.run.done).run = v.run
    BY DerivedKeeps DEF Keeps, Grows, Extends
  <2> QED BY <2>1, RubricGateKeeps, KeepsOn DEF Keeps, Grows, Extends
<1> HIDE DEF w
<1>2. CASE v.run.status \in {"running", "needs_decisions"} /\ AllDone(v)
  <2>1. \A x \in {"needs_decisions", "finished"} : Keeps(w, [w EXCEPT !.run = RunFinished(w.run, x)])
    BY <1>1, <1>2, RunOf, Statuses, FinishFollows, JournalKeeps
  <2>2. \/ Finalize(v) = [w EXCEPT !.run = RunFinished(w.run, "needs_decisions")]
        \/ Finalize(v) = [w EXCEPT !.run = RunFinished(w.run, "finished")]
    BY <1>2 DEF Finalize, w
  <2> QED BY <1>1, <2>1, <2>2, KeepsOn
<1>3. CASE ~(v.run.status \in {"running", "needs_decisions"} /\ AllDone(v))
  BY <1>3, KeepsSelf DEF Finalize
<1> QED BY <1>2, <1>3

LEMMA CheckpointKeeps == ASSUME NEW v \in Vault PROVE Keeps(v, MaybeCheckpoint(v))
<1>1. ASSUME NEW b \in Boundaries, v.run.status = "running"
      PROVE  Keeps(v, [v EXCEPT !.run = CheckpointReached(v.run, b)])
  BY <1>1, RunOf, CheckpointFollows, JournalKeeps
<1>2. "policy_decisions" \in Boundaries /\ CheckpointStages \subseteq Boundaries
  BY BoundaryAssumption
<1> QED BY <1>1, <1>2, KeepsSelf DEF MaybeCheckpoint

-----------------------------------------------------------------------------
(* record_turn: what a completion and a discard leave. *)

\* CompletedSettled and the retry budget, of any vault.
Settled(v) ==
    \A t \in v.run.done :
        /\ v.body[t] # NoBody
        /\ t \in Reserved(v.run)
        /\ \A g \in Raises[t] : v.gates[g] # "none"

Within(v, k) ==
    \A t \in Turns :
        /\ v.run.discarded[t] <= AttemptCeiling(v) + k
        /\ t \notin v.run.done /\ v.run.status # "needs_attention"
             => v.run.discarded[t] < AttemptCeiling(v) + k

LEMMA SettledKept ==
    ASSUME NEW v \in Vault, NEW x, Settled(v), Extends(v, x), x.run.done = v.run.done
    PROVE  Settled(x)
<1>1. \A t \in v.run.done : t \in Turns /\ Raises[t] \subseteq Gates
  BY RunOf, GateAssumption DEF RunState
<1> QED BY <1>1 DEF Settled, Extends

LEMMA WithinKept ==
    ASSUME NEW v \in Vault, NEW x, NEW k \in Nat, NEW l \in Nat,
           Within(v, k), Grows(v, x), k <= l
    PROVE  Within(x, l)
<1>1. /\ AttemptCeiling(x) = AttemptCeiling(v) /\ AttemptCeiling(v) \in Nat
      /\ v.run.discarded \in [Turns -> Nat]
  BY RunOf, PlanAssumption DEF Grows, RunState, AttemptCeiling
<1> QED BY <1>1 DEF Within, Grows, Extends

LEMMA BookedKeeps ==
    ASSUME NEW v \in Vault, NEW t \in Turns, NEW call \in Call
    PROVE  /\ Keeps(v, Booked(v, t, call)) /\ Booked(v, t, call) \in Vault
           /\ Booked(v, t, call).run.status = v.run.status
<1>1. call.cost \in Nat
  <2>1. call.cost \in Costs
    BY DEF Call
  <2>2. call.cost \in 0 .. MaxPlausible
    BY <2>1, EngineAssumption
  <2> QED BY <2>2, MoneyAssumption
<1>2. Follows(v.run, SpendRecorded(v.run, t, call.cost))
      /\ SpendRecorded(v.run, t, call.cost).status = v.run.status
  BY <1>1, RunOf, SpendFollows
<1>3. CASE call.reported
  <2>1. Booked(v, t, call) = [v EXCEPT !.run = SpendRecorded(v.run, t, call.cost)]
    BY <1>3 DEF Booked
  <2>2. Keeps(v, Booked(v, t, call))
    BY <1>2, <2>1, JournalKeeps
  <2> QED BY <1>2, <2>1, <2>2 DEF Keeps, Grows, Extends, Vault
<1>4. CASE ~call.reported
  BY <1>4, KeepsSelf DEF Booked
<1> QED BY <1>3, <1>4

LEMMA CompletedGrows ==
    ASSUME NEW v \in Vault, NEW t \in Turns
    PROVE  LET x == [v EXCEPT !.run = TurnCompleted(v.run, t)]
           IN  Grows(v, x) /\ x.run.done = v.run.done \cup {t}
<1>1. /\ TurnCompleted(v.run, t) \in RunState
      /\ TurnCompleted(v.run, t).done = v.run.done \cup {t}
      /\ TurnCompleted(v.run, t).discarded = v.run.discarded
      /\ TurnCompleted(v.run, t).granted = v.run.granted
      /\ TurnCompleted(v.run, t).status = v.run.status
      /\ Reserved(TurnCompleted(v.run, t)) = Reserved(v.run)
  BY RunOf DEF RunState, TurnCompleted, Reserved
<1> QED BY <1>1 DEF Vault, Grows, Extends

\* Some of the decisions of a draft, with its body.
LEMMA GatesBegunKeeps ==
    ASSUME NEW v \in Vault, NEW t \in Turns, NEW call \in Call, call.out \in Outputs,
           NEW y \in GatesBegun(v, t, call)
    PROVE  y \in Vault /\ y.run = v.run /\ Keeps(Sealed(v, t, call), y)
<1> DEFINE s == Sealed(v, t, call)
           o == GatesOpen(v, t, call)
<1>1. s \in Vault /\ s.run = v.run /\ s.gates = v.gates
  BY DEF Sealed, Vault
<1>2. Keeps(s, o) /\ o \in Vault
  BY <1>1, DerivedKeeps DEF GatesOpen, Keeps, Grows, Extends
<1>3. PICK G \in SUBSET Raises[t] :
        y = [s EXCEPT !.gates = [g \in Gates |-> IF g \in G THEN o.gates[g] ELSE v.gates[g]]]
  BY DEF GatesBegun
<1> HIDE DEF s, o
<1>4. DEFINE gates == [g \in Gates |-> IF g \in G THEN o.gates[g] ELSE v.gates[g]]
<1>5. /\ gates \in [Gates -> {"none", "open", "resolved"}]
      /\ \A g \in Gates : gates[g] \in {s.gates[g], o.gates[g]}
  BY <1>1, <1>2 DEF Vault
<1>6. y = [s EXCEPT !.gates = gates]
  BY <1>3
<1> HIDE DEF gates
<1>7. y \in Vault /\ y.run = s.run /\ y.body = s.body /\ y.gates = gates
  BY <1>1, <1>5, <1>6 DEF Vault
<1>8. \A g \in Gates : /\ s.gates[g] # "none" => y.gates[g] # "none"
                       /\ s.gates[g] = "resolved" => y.gates[g] = "resolved"
  BY <1>2, <1>5, <1>7 DEF Keeps, Grows, Extends
<1>9. Keeps(s, y)
  BY <1>7, <1>8 DEF Keeps, Grows, Extends
<1> QED BY <1>1, <1>7, <1>9 DEF s

\* A valid output, up to each point where record_turn may stop.
LEMMA RecordedGrows ==
    ASSUME NEW v \in Vault, NEW t \in Turns, NEW call \in Call,
           call.out \in Outputs, Seals(v, t, call.out),
           Settled(v), t \in Reserved(v.run),
           NEW x \in RecordTorn(v, t, call) \cup {Recorded(v, t, call)}
    PROVE  Grows(v, x) /\ Settled(x)
<1> DEFINE s == Sealed(v, t, call)
           o == GatesOpen(v, t, call)
           p == Paid(v, t, call)
           c == Completed(v, t, call)
           z == Scored(v, t, call)
<1>0. call.out # NoBody /\ Raises[t] \subseteq Gates
  BY GateAssumption
<1>1. Keeps(v, s) /\ s \in Vault /\ s.body[t] = call.out
  BY DEF Sealed, Seals, Vault, Keeps, Grows, Extends
<1>2. /\ Keeps(s, o) /\ o \in Vault
      /\ \A g \in Raises[t] : o.gates[g] # "none"
  BY <1>0, <1>1, DerivedKeeps DEF GatesOpen, Keeps, Grows, Extends
<1>3. Keeps(o, p) /\ p \in Vault
  BY <1>2, BookedKeeps DEF Paid
<1>4. Grows(p, c) /\ c \in Vault /\ c.run.done = p.run.done \cup {t}
  BY <1>3, CompletedGrows DEF Completed, Grows, Extends
<1>5. Keeps(c, z) /\ z \in Vault
  BY <1>4, RubricGateKeeps, KeepsSelf DEF Scored, Keeps, Grows, Extends
<1> HIDE DEF s, o, p, c, z
<1>6. Keeps(v, o) /\ Keeps(v, p) /\ \A y \in GatesBegun(v, t, call) : Keeps(v, y)
  BY <1>1, <1>2, <1>3, GatesBegunKeeps, KeepsOn DEF s
<1>7. Grows(v, c) /\ c.run.done = v.run.done \cup {t}
  BY <1>4, <1>6, GrowsOn DEF Keeps
<1>8. Settled(c)
  <2>1. c.body[t] # NoBody
    BY <1>0, <1>1, <1>2, <1>3, <1>4 DEF Keeps, Grows, Extends
  <2>2. \A g \in Raises[t] : c.gates[g] # "none"
    BY <1>0, <1>2, <1>3, <1>4 DEF Keeps, Grows, Extends
  <2>3. t \in Reserved(c.run)
    BY <1>7 DEF Grows, Extends
  <2>4. \A u \in v.run.done : u \in Turns /\ Raises[u] \subseteq Gates
    BY RunOf, GateAssumption DEF RunState
  <2>5. \A u \in v.run.done : /\ c.body[u] # NoBody /\ u \in Reserved(c.run)
                              /\ \A g \in Raises[u] : c.gates[g] # "none"
    BY <1>7, <2>4 DEF Settled, Grows, Extends
  <2> QED BY <1>7, <2>1, <2>2, <2>3, <2>5 DEF Settled
<1>9. ASSUME NEW y, Keeps(c, y) PROVE Grows(v, y) /\ Settled(y)
  BY <1>4, <1>7, <1>8, <1>9, GrowsOn, SettledKept DEF Keeps, Grows
<1>10. ASSUME NEW y, Keeps(v, y) PROVE Grows(v, y) /\ Settled(y)
  BY <1>10, SettledKept DEF Keeps, Grows
<1>11. Keeps(c, c) /\ Keeps(c, Finalize(z)) /\ Finalize(z) \in Vault
  <2>1. Keeps(z, Finalize(z)) /\ Keeps(c, c)
    BY <1>4, <1>5, FinalizeKeeps, KeepsSelf
  <2> QED BY <1>5, <2>1, KeepsOn DEF Keeps, Grows, Extends
<1>12. Keeps(c, CapTransition(z)) /\ Keeps(c, MaybeCheckpoint(Finalize(z)))
  BY <1>5, <1>11, CapKeeps, CheckpointKeeps, KeepsOn
<1>13. x \in GatesBegun(v, t, call)
               \cup {p, c, z, Finalize(z), CapTransition(z), MaybeCheckpoint(Finalize(z))}
  BY DEF RecordTorn, Recorded, p, c, z
<1> QED BY <1>1, <1>5, <1>6, <1>9, <1>10, <1>11, <1>12, <1>13

LEMMA ReplayedKeeps ==
    ASSUME NEW v \in Vault, NEW t \in Turns, NEW call \in Call
    PROVE  Keeps(v, Replayed(v, t, call))
  BY BookedKeeps, FinalizeKeeps, KeepsOn DEF Replayed

\* A discard keeps all but the attempts; the last attempt needs the operator, and a
\* crash before it says so leaves one attempt more.
LEMMA AttemptedExtends ==
    ASSUME NEW v \in Vault, NEW t \in Turns, NEW call \in Call, NEW k \in Nat,
           Within(v, k), t \notin v.run.done, v.run.status # "needs_attention"
    PROVE  LET w == Attempted(v, t, call)
           IN  /\ Extends(v, w) /\ w.run.done = v.run.done
               /\ w.run.status = v.run.status /\ w.run.granted = v.run.granted
               /\ w.run.discarded = [v.run.discarded EXCEPT ![t] = @ + 1]
               /\ w.run.discarded[t] <= AttemptCeiling(v) + k
               /\ Within(w, k + 1)
<1> DEFINE b == Booked(v, t, call)
           w == Attempted(v, t, call)
<1>1. /\ b \in Vault /\ b.run \in RunState /\ Keeps(v, b)
      /\ b.run.status = v.run.status
  BY BookedKeeps, RunOf
<1>2. w = [b EXCEPT !.run = TurnDiscarded(b.run, t, b.run.discarded[t] + 1)]
  BY DEF Attempted
<1> HIDE DEF b, w
<1>3. b.run.discarded = v.run.discarded /\ v.run.discarded \in [Turns -> Nat]
  BY <1>1, RunOf DEF Keeps, Grows, RunState
<1> DEFINE r == TurnDiscarded(b.run, t, b.run.discarded[t] + 1)
<1>4. /\ r \in RunState /\ r.done = b.run.done /\ Reserved(r) = Reserved(b.run)
      /\ r.status = b.run.status /\ r.granted = b.run.granted
      /\ r.discarded = [v.run.discarded EXCEPT ![t] = @ + 1]
  BY <1>1, <1>3 DEF RunState, TurnDiscarded, Reserved
<1> HIDE DEF r
<1>5. Extends(b, w) /\ w.run = r
  BY <1>1, <1>2, <1>4 DEF Vault, Extends, r
<1>6. Extends(v, w)
  BY <1>1, <1>5 DEF Keeps, Grows, Extends
<1>7. /\ w.run.done = v.run.done /\ w.run.status = v.run.status
      /\ w.run.granted = v.run.granted
      /\ w.run.discarded = [v.run.discarded EXCEPT ![t] = @ + 1]
  BY <1>1, <1>4, <1>5 DEF Keeps, Grows
<1>8. AttemptCeiling(w) = AttemptCeiling(v) /\ AttemptCeiling(v) \in Nat
  BY <1>7, RunOf, PlanAssumption DEF AttemptCeiling, RunState
<1>9. w.run.discarded[t] <= AttemptCeiling(v) + k /\ Within(w, k + 1)
  BY <1>3, <1>7, <1>8 DEF Within
<1> QED BY <1>6, <1>7, <1>9 DEF w

LEMMA DiscardedExtends ==
    ASSUME NEW v \in Vault, NEW t \in Turns, NEW call \in Call, NEW k \in Nat,
           Within(v, k), Settled(v), t \notin v.run.done, v.run.status = "running"
    PROVE  /\ LET x == Discarded(v, t, call)
              IN  Extends(v, x) /\ Settled(x) /\ Within(x, k)
           /\ \A x \in DiscardTorn(v, t, call) :
                Extends(v, x) /\ Settled(x) /\ Within(x, k + 1)
<1> DEFINE w == Attempted(v, t, call)
           x == Discarded(v, t, call)
<1>1. /\ Extends(v, w) /\ w.run.done = v.run.done /\ w \in Vault
      /\ w.run.status = "running" /\ w.run.granted = v.run.granted
      /\ w.run.discarded = [v.run.discarded EXCEPT ![t] = @ + 1]
      /\ w.run.discarded[t] <= AttemptCeiling(v) + k
      /\ Within(w, k + 1) /\ Settled(w)
  <2>1. /\ Extends(v, w) /\ w.run.done = v.run.done
        /\ w.run.status = "running" /\ w.run.granted = v.run.granted
        /\ w.run.discarded = [v.run.discarded EXCEPT ![t] = @ + 1]
        /\ w.run.discarded[t] <= AttemptCeiling(v) + k
        /\ Within(w, k + 1)
    BY AttemptedExtends
  <2> HIDE DEF w
  <2> QED BY <2>1, SettledKept DEF Extends
<1>2. /\ Extends(v, Booked(v, t, call)) /\ Settled(Booked(v, t, call))
      /\ Within(Booked(v, t, call), k + 1)
  BY BookedKeeps, SettledKept, WithinKept DEF Keeps, Grows
<1>3. \A u \in Turns \ {t} : w.run.discarded[u] = v.run.discarded[u]
  BY <1>1, RunOf DEF RunState
<1>4. /\ AttemptCeiling(v) \in Nat /\ v.run.discarded \in [Turns -> Nat]
      /\ w.run.discarded[t] \in Nat
  BY <1>1, RunOf, PlanAssumption DEF AttemptCeiling, RunState
<1> HIDE DEF w
<1>5. CASE w.run.discarded[t] >= AttemptCeiling(v)
  <2>1. x = [w EXCEPT !.run = RunFinished(w.run, "needs_attention")]
    BY <1>5 DEF Discarded, w
  <2>2. Keeps(w, x) /\ x.run.status = "needs_attention"
    BY <1>1, <2>1, RunOf, Statuses, FinishFollows, JournalKeeps, SMTT(20) DEF Vault
  <2>3. Extends(v, x) /\ x.run.done = v.run.done /\ Settled(x)
    BY <1>1, <2>2, SettledKept DEF Keeps, Grows, Extends
  <2>4. x.run.discarded = w.run.discarded /\ AttemptCeiling(x) = AttemptCeiling(v)
    BY <1>1, <2>2 DEF Keeps, Grows, AttemptCeiling
  <2>5. Within(x, k)
    BY <1>1, <1>3, <2>2, <2>4 DEF Within
  <2> QED BY <1>1, <1>2, <2>3, <2>5 DEF DiscardTorn, w
<1>6. CASE ~(w.run.discarded[t] >= AttemptCeiling(v))
  <2>1. x = w
    BY <1>6 DEF Discarded, w
  <2>2. AttemptCeiling(w) = AttemptCeiling(v)
    BY <1>1 DEF AttemptCeiling
  <2>3. Within(w, k)
    BY <1>1, <1>3, <1>4, <1>6, <2>2 DEF Within
  <2> QED BY <1>1, <1>2, <2>1, <2>3 DEF DiscardTorn, w
<1> QED BY <1>5, <1>6

\* A record_turn that is not refused.
LEMMA RecordMoves ==
    ASSUME NEW v \in Vault, NEW t \in Turns, NEW call \in Call, NEW k \in Nat,
           Within(v, k), Settled(v), t \in Reserved(v.run),
           t \in Plan(v) \cup v.run.done,
           t \in Plan(v) /\ call.out # Invalid => Seals(v, t, call.out)
    PROVE  /\ LET x == RecordTurn(v, t, call)
              IN  Extends(v, x) /\ Settled(x) /\ Within(x, k)
           /\ \A x \in TornRecord(v, t, call) :
                Extends(v, x) /\ Settled(x) /\ Within(x, k + 1)
<1>1. ASSUME NEW x, Keeps(v, x)
      PROVE  Extends(v, x) /\ Settled(x) /\ Within(x, k) /\ Within(x, k + 1)
  BY <1>1, SettledKept, WithinKept DEF Keeps, Grows
<1>2. CASE t \in v.run.done
  BY <1>1, <1>2, ReplayedKeeps, BookedKeeps DEF RecordTurn, TornRecord
<1>3. CASE t \notin v.run.done /\ call.out = Invalid
  <2>1. v.run.status = "running"
    BY <1>3 DEF Plan
  <2> QED BY <1>3, <2>1, DiscardedExtends DEF RecordTurn, TornRecord
<1>4. CASE t \notin v.run.done /\ call.out # Invalid
  <2>1. call.out \in Outputs /\ Seals(v, t, call.out)
    BY <1>4 DEF Call
  <2>2. ASSUME NEW x \in RecordTorn(v, t, call) \cup {Recorded(v, t, call)}
        PROVE  Extends(v, x) /\ Settled(x) /\ Within(x, k) /\ Within(x, k + 1)
    <3>1. Grows(v, x) /\ Settled(x)
      BY <2>1, RecordedGrows
    <3> QED BY <3>1, WithinKept DEF Grows
  <2> QED BY <1>4, <2>2 DEF RecordTurn, TornRecord
<1> QED BY <1>2, <1>3, <1>4

-----------------------------------------------------------------------------
(* The operator's verbs. *)

LEMMA PauseKeeps ==
    ASSUME NEW v \in Vault, NEW reason \in Reason, CanPause(v)
    PROVE  Keeps(v, Pause(v, reason))
<1>1. v.run.status # "needs_attention"
  BY DEF CanPause, Terminal
<1> QED BY <1>1, RunOf, PauseFollows, JournalKeeps DEF Pause

LEMMA VerbsKeep ==
    ASSUME NEW v \in Vault
    PROVE  /\ Keeps(v, Resume(v))
           /\ Keeps(v, Continue(v))
           /\ \A usd \in Nat : Keeps(v, RaiseCap(v, usd))
           /\ Keeps(v, NeedsAttention(v))
           /\ \A t \in Turns : /\ Keeps(v, [v EXCEPT !.run = TurnIntent(v.run, t)])
                               /\ t \in Reserved(TurnIntent(v.run, t))
           /\ Keeps(v, [v EXCEPT !.run = RunEnqueued(v.run)])
<1>1. v.run \in RunState
  BY RunOf
<1>2. Keeps(v, Resume(v))
  BY <1>1, ResumeFollows, JournalKeeps DEF Resume
<1>3. Keeps(v, Continue(v))
  BY <1>1, ClearFollows, JournalKeeps DEF Continue
<1>4. \A usd \in Nat : Keeps(v, RaiseCap(v, usd))
  BY <1>1, RaiseFollows, JournalKeeps DEF RaiseCap
<1>5. Keeps(v, NeedsAttention(v))
  BY <1>1, Statuses, FinishFollows, JournalKeeps DEF NeedsAttention
<1>6. \A t \in Turns : /\ Keeps(v, [v EXCEPT !.run = TurnIntent(v.run, t)])
                       /\ t \in Reserved(TurnIntent(v.run, t))
  BY <1>1, IntentFollows, JournalKeeps
<1>7. Keeps(v, [v EXCEPT !.run = RunEnqueued(v.run)])
  BY <1>1, EnqueueFollows, JournalKeeps
<1> QED BY <1>2, <1>3, <1>4, <1>5, <1>6, <1>7

LEMMA ResolvedKeeps ==
    ASSUME NEW v \in Vault, NEW g PROVE Keeps(v, Resolved(v, g))
  BY DEF Vault, Keeps, Grows, Extends, Resolved

\* reopen grants every turn left to run an attempt.
LEMMA ReopenExtends ==
    ASSUME NEW v \in Vault, NEW grant \in Nat, NEW k \in Nat,
           CanReopen(v, grant), Within(v, k), Settled(v)
    PROVE  LET x == Reopen(v, grant)
           IN  Extends(v, x) /\ Settled(x) /\ Within(x, k)
<1> DEFINE r == RunReopened(v.run, grant)
           x == Reopen(v, grant)
<1>1. v.run \in RunState /\ v.run.granted + grant \in Nat /\ v.run.granted \in Nat
  BY RunOf DEF RunState
<1>2. /\ r \in RunState /\ r.done = v.run.done /\ Reserved(r) = Reserved(v.run)
      /\ r.granted = v.run.granted + grant /\ r.discarded = v.run.discarded
  BY <1>1, Statuses DEF RunReopened, RunState, Reserved
<1> HIDE DEF r
<1>3. Extends(v, x) /\ x.run = r
  BY <1>2 DEF Vault, Extends, Reopen, r
<1>4. Settled(x)
  BY <1>2, <1>3, SettledKept
<1>5. /\ AttemptCeiling(v) \in Nat /\ AttemptCeiling(x) = AttemptCeiling(v) + grant
      /\ x.run.discarded = v.run.discarded /\ v.run.discarded \in [Turns -> Nat]
  BY <1>1, <1>2, <1>3, PlanAssumption DEF AttemptCeiling, RunState
<1>6. Within(x, k)
  BY <1>2, <1>3, <1>5 DEF Within, CanReopen
<1> QED BY <1>3, <1>4, <1>6

-----------------------------------------------------------------------------
(* The inductive invariant.  A turn is completed only from "record", so what a *)
(* completion needs is claimed of every worker on its way there: the money of  *)
(* its turn is reserved, or booked by whoever got there first.                 *)

Ready(r, v) ==
    /\ r \in Worker
    /\ r.pc \in {"intent", "prompt", "call", "calling", "record"} => r.turn \in Turns
    /\ r.pc \in {"prompt", "call", "calling", "record"} => r.turn \in Reserved(v.run)
    /\ r.pc = "record" => r.call \in Call

WorkersReady ==
    /\ worker \in [Workers -> Worker]
    /\ \A w \in Workers : Ready(worker[w], vault)

Counters == paid \in Nat /\ torn \in Nat /\ faults \in Nat /\ ops \in Nat

IInv ==
    /\ LQTypeOK
    /\ vault \in Vault
    /\ Counters
    /\ WorkersReady
    /\ Settled(vault)
    /\ Within(vault, torn)

LEMMA IInvImplies == IInv => TypeOK /\ CompletedSettled /\ RetryCeiling
<1> SUFFICES ASSUME IInv PROVE TypeOK /\ CompletedSettled /\ RetryCeiling
  OBVIOUS
<1>1. TypeOK
  BY DEF IInv, Counters, WorkersReady, Ready, TypeOK
<1>2. CompletedSettled
  BY DEF IInv, Settled, Reserved, CompletedSettled
<1>3. RetryCeiling
  BY DEF IInv, Within, RetryCeiling
<1> QED BY <1>1, <1>2, <1>3

LEMMA InitInv == Init => IInv
<1> SUFFICES ASSUME Init PROVE IInv
  OBVIOUS
<1> USE DEF Init
<1>1. LQTypeOK
  BY DEF LQInit, LQTypeOK
<1>2. Started \in RunState
  <2>1. "none" \in Reason /\ HardCap \in Nat
    BY MoneyAssumption DEF Reason
  <2> QED BY <2>1, Statuses DEF Started, RunState
<1>3. vault \in Vault
  BY <1>2 DEF Launched, Vault
<1>4. Settled(vault)
  BY DEF Launched, Started, Settled
<1>5. Within(vault, torn)
  <2>1. /\ \A t \in Turns : vault.run.discarded[t] = 0
        /\ vault.run.granted = 0 /\ torn = 0
    BY DEF Launched, Started
  <2> QED BY <2>1, PlanAssumption DEF Within, AttemptCeiling
<1>6. WorkersReady
  BY DEF Resting, WorkersReady, Ready, Worker, Step
<1> QED BY <1>1, <1>3, <1>4, <1>5, <1>6 DEF IInv, Counters

-----------------------------------------------------------------------------
(* The vault, step by step. *)

GoodStep == Extends(vault, vault') /\ Settled(vault') /\ Within(vault', torn')

LEMMA KeepsIsGood ==
    ASSUME IInv, Keeps(vault, vault'), torn' = torn PROVE GoodStep
  BY SettledKept, WithinKept DEF IInv, Counters, GoodStep, Keeps, Grows

LEMMA CalmIsGood ==
    ASSUME IInv, vault' = vault, torn' = torn PROVE GoodStep
  BY KeepsSelf, KeepsIsGood DEF IInv

LEMMA RecordingReady ==
    ASSUME IInv, NEW w \in Workers, At(w, "record"), ~Refused(w)
    PROVE  /\ Turn(w) \in Turns /\ worker[w].call \in Call
           /\ Turn(w) \in Reserved(vault.run)
           /\ Turn(w) \in Plan(vault) \cup vault.run.done
           /\ Turn(w) \in Plan(vault) /\ worker[w].call.out # Invalid
                => Seals(vault, Turn(w), worker[w].call.out)
<1>1. Ready(worker[w], vault) /\ worker[w].pc = "record"
  BY DEF IInv, WorkersReady, At
<1> QED BY <1>1 DEF Ready, Turn, Refused

LEMMA DriveVault ==
    ASSUME IInv, NEW w \in Workers, Drive(w) PROVE GoodStep
<1>0. vault \in Vault /\ torn \in Nat /\ Settled(vault) /\ Within(vault, torn)
  BY DEF IInv, Counters
<1>1. CASE \/ Take(w) \/ Start(w) \/ CallProvider(w) \/ GoodAnswer(w) \/ Beat(w)
           \/ HandBack(w) \/ BackOff(w) \/ Drop(w)
  <2>1. vault' = vault /\ torn' = torn
    BY <1>1 DEF Take, Start, CallProvider, GoodAnswer, Answer, Beat, HandBack, BackOff, Drop, Calm
  <2> QED BY <2>1, CalmIsGood
<1>2. CASE Reawaken(w)
  BY <1>0, <1>2, VerbsKeep, KeepsSelf, KeepsIsGood DEF Reawaken, Calm
<1>3. CASE PlanNext(w) \/ Prompt(w)
  BY <1>0, <1>3, PlannedKeeps, KeepsIsGood DEF PlanNext, Prompt, Calm
<1>4. CASE Intend(w)
  <2>1. Turn(w) \in Turns /\ torn' = torn
        /\ vault' = [vault EXCEPT !.run = TurnIntent(vault.run, Turn(w))]
    BY <1>4 DEF IInv, WorkersReady, Ready, Intend, At, Turn, Calm
  <2> QED BY <1>0, <2>1, VerbsKeep, KeepsIsGood
<1>5. CASE Record(w)
  <2>1. CASE Refused(w)
    BY <1>5, <2>1, CalmIsGood DEF Record, Calm
  <2>2. CASE ~Refused(w)
    <3>1. At(w, "record") /\ torn' = torn
          /\ vault' = RecordTurn(vault, Turn(w), worker[w].call)
      BY <1>5, <2>2 DEF Record, Calm
    <3> QED BY <1>0, <2>2, <3>1, RecordingReady, RecordMoves DEF GoodStep
  <2> QED BY <2>1, <2>2
<1>6. CASE PauseForCapacity(w)
  <2>1. "capacity" \in Reason
    BY DEF Reason
  <2> QED BY <1>0, <1>6, <2>1, PauseKeeps, KeepsSelf, KeepsIsGood DEF PauseForCapacity, Calm
<1>7. CASE Fail(w) \/ DeadLetter(w)
  BY <1>0, <1>7, VerbsKeep, KeepsIsGood DEF Fail, DeadLetter, Calm
<1>8. CASE Close(w)
  BY <1>0, <1>8, FinalizeKeeps, KeepsIsGood DEF Close, Calm
<1> QED BY <1>1, <1>2, <1>3, <1>4, <1>5, <1>6, <1>7, <1>8 DEF Drive

LEMMA MisfortuneVault ==
    ASSUME IInv, NEW w \in Workers, Misfortune(w) PROVE GoodStep
<1>0. vault \in Vault /\ torn \in Nat /\ Settled(vault) /\ Within(vault, torn)
  BY DEF IInv, Counters
<1>1. CASE BadAnswer(w) \/ ProviderError(w) \/ Shutdown(w) \/ Contend(w) \/ Crash(w)
  <2>1. vault' = vault /\ torn' = torn
    BY <1>1 DEF BadAnswer, Answer, ProviderError, Shutdown, Contend, Crash
  <2> QED BY <2>1, CalmIsGood
<1>2. CASE RecordCrash(w)
  <2>1. /\ At(w, "record") /\ ~Refused(w) /\ torn' = torn + 1
        /\ vault' \in TornRecord(vault, Turn(w), worker[w].call)
    BY <1>2 DEF RecordCrash
  <2> QED BY <1>0, <2>1, RecordingReady, RecordMoves DEF GoodStep
<1> QED BY <1>1, <1>2 DEF Misfortune

LEMMA OutsideVault ==
    ASSUME IInv, Deliver \/ DeliverCrash \/ ComeDue \/ LoseLease \/ OperatorStep
    PROVE  GoodStep
<1>0. vault \in Vault /\ torn \in Nat /\ Settled(vault) /\ Within(vault, torn)
  BY DEF IInv, Counters
<1>1. CASE Deliver
  BY <1>0, <1>1, VerbsKeep, KeepsIsGood DEF Deliver, Calm
<1>2. CASE DeliverCrash \/ ComeDue \/ LoseLease
  BY <1>2, CalmIsGood DEF DeliverCrash, ComeDue, LoseLease, Calm
<1>3. CASE OperatorPause
  <2>1. "manual" \in Reason
    BY DEF Reason
  <2> QED BY <1>0, <1>3, <2>1, PauseKeeps, KeepsIsGood DEF OperatorPause, Operator, Elsewhere
<1>4. CASE OperatorResume \/ OperatorContinue
  BY <1>0, <1>4, VerbsKeep, KeepsIsGood
     DEF OperatorResume, OperatorContinue, Operator, Elsewhere
<1>5. CASE OperatorRaiseCap
  <2>1. PICK usd \in Caps : vault' = RaiseCap(vault, usd) /\ torn' = torn
    BY <1>5 DEF OperatorRaiseCap, Operator, Elsewhere
  <2>2. usd \in Nat
    BY EngineAssumption
  <2> QED BY <1>0, <2>1, <2>2, VerbsKeep, KeepsIsGood
<1>6. CASE OperatorReopen
  <2>1. PICK grant \in Grants : CanReopen(vault, grant) /\ vault' = Reopen(vault, grant)
    BY <1>6 DEF OperatorReopen, Operator
  <2>2. grant \in Nat /\ torn' = torn
    BY <1>6, EngineAssumption DEF OperatorReopen
  <2> QED BY <1>0, <2>1, <2>2, ReopenExtends DEF GoodStep
<1>7. CASE Resolve
  <2>1. PICK g : \/ vault' = Finalize(Resolved(vault, g))
                 \/ vault' = Resolved(vault, g)
    BY <1>7 DEF Resolve, Operator
  <2>2. Keeps(vault, Resolved(vault, g)) /\ Resolved(vault, g) \in Vault
    BY <1>0, ResolvedKeeps DEF Keeps, Grows, Extends
  <2>3. Keeps(vault, vault') /\ torn' = torn
    BY <1>7, <2>1, <2>2, FinalizeKeeps, KeepsOn DEF Resolve
  <2> QED BY <2>3, KeepsIsGood
<1>8. CASE ResolveAgain
  BY <1>0, <1>8, FinalizeKeeps, KeepsIsGood DEF ResolveAgain, Elsewhere
<1> QED BY <1>1, <1>2, <1>3, <1>4, <1>5, <1>6, <1>7, <1>8 DEF OperatorStep

LEMMA VaultStep == ASSUME IInv, Next PROVE GoodStep
  BY DriveVault, MisfortuneVault, OutsideVault DEF Next

-----------------------------------------------------------------------------
(* The queue. *)

LEMMA QueueStep == ASSUME LQTypeOK, Next PROVE LQTypeOK'
<1>0. /\ RunItem \in Ids
      /\ \A i \in Ids : Present(i) => queue[i] \in Item
      /\ \A o \in Workers \cup {NoOne}, v \in BOOLEAN, n \in Nat : Entry(o, v, n) \in Item
  BY EngineAssumption DEF LQTypeOK, Present, Item, Entry
<1>1. ASSUME NEW w \in Workers, Claim(w, RunItem) \/ Renew(w, RunItem) PROVE LQTypeOK'
  <2>1. queue[RunItem] \in Item
    BY <1>0, <1>1 DEF Claim, Renew, Owns
  <2>2. queue[RunItem].attempts \in Nat /\ queue[RunItem].attempts + 1 \in Nat
    BY <2>1 DEF Item
  <2>3. /\ Entry(w, FALSE, queue[RunItem].attempts) \in Item
        /\ Entry(w, FALSE, queue[RunItem].attempts + 1) \in Item
    BY <2>2 DEF Entry, Item
  <2> QED BY <1>1, <2>3 DEF Claim, Renew, LQTypeOK
<1>2. ASSUME NEW w \in Workers, Complete(w, RunItem) PROVE LQTypeOK'
  BY <1>2 DEF Complete, LQTypeOK
<1>3. ASSUME NEW w \in Workers, NEW refund \in BOOLEAN, NEW now \in BOOLEAN,
             Release(w, RunItem, refund, now)
      PROVE  LQTypeOK'
  <2>1. CASE ~Owns(w, RunItem)
    BY <1>3, <2>1 DEF Release, LQTypeOK
  <2>2. CASE Owns(w, RunItem)
    <3>1. queue[RunItem].attempts \in Nat
      BY <1>0, <2>2 DEF Owns, Item
    <3>2. Kept(queue[RunItem].attempts, refund) \in Nat
      BY <3>1 DEF Kept
    <3> QED BY <1>0, <1>3, <2>2, <3>2 DEF Release, LQTypeOK
  <2> QED BY <2>1, <2>2
<1>4. ASSUME EnsureEnqueued(RunItem) PROVE LQTypeOK'
  BY <1>0, <1>4 DEF EnsureEnqueued, LQTypeOK
<1>5. ASSUME NEW S, Surface(S) \/ Reclaim(S) PROVE LQTypeOK'
  <2>1. \A i \in Ids : Present(i) =>
          /\ Entry(queue[i].owner, TRUE, queue[i].attempts) \in Item
          /\ Entry(NoOne, TRUE, queue[i].attempts) \in Item
    BY <1>0 DEF Item
  <2> QED BY <1>5, <2>1 DEF Surface, Reclaim, LQTypeOK
<1>6. ASSUME queue' = queue PROVE LQTypeOK'
  BY <1>6 DEF LQTypeOK
<1>7. ASSUME NEW w \in Workers, Drive(w) PROVE LQTypeOK'
  <2>1. CASE Take(w) \/ CallProvider(w) \/ GoodAnswer(w) \/ Beat(w)
    <3>1. Claim(w, RunItem) \/ Renew(w, RunItem) \/ queue' = queue
      BY <2>1 DEF Take, CallProvider, GoodAnswer, Answer, Beat
    <3> QED BY <1>1, <1>6, <3>1
  <2>2. CASE HandBack(w) \/ BackOff(w)
    <3>1. \/ \E now \in BOOLEAN : Release(w, RunItem, TRUE, now)
          \/ \E now \in BOOLEAN : Release(w, RunItem, FALSE, now)
      BY <2>2 DEF HandBack, BackOff
    <3>2. TRUE \in BOOLEAN /\ FALSE \in BOOLEAN
      OBVIOUS
    <3> QED BY <1>3, <3>1, <3>2
  <2>3. CASE Drop(w)
    BY <1>2, <2>3 DEF Drop
  <2>4. CASE \/ Start(w) \/ Reawaken(w) \/ PlanNext(w) \/ Intend(w) \/ Prompt(w)
             \/ Record(w) \/ PauseForCapacity(w) \/ Fail(w) \/ DeadLetter(w) \/ Close(w)
    BY <1>6, <2>4 DEF Start, Reawaken, PlanNext, Intend, Prompt, Record,
                      PauseForCapacity, Fail, DeadLetter, Close
  <2> QED BY <1>7, <2>1, <2>2, <2>3, <2>4 DEF Drive
<1>8. ASSUME NEW w \in Workers, Misfortune(w) PROVE LQTypeOK'
  <2>1. CASE BadAnswer(w) \/ ProviderError(w)
    BY <1>1, <1>6, <2>1 DEF BadAnswer, Answer, ProviderError
  <2>2. CASE Shutdown(w)
    <3>1. Release(w, RunItem, TRUE, TRUE) /\ TRUE \in BOOLEAN
      BY <2>2 DEF Shutdown
    <3> QED BY <1>3, <3>1
  <2>3. CASE RecordCrash(w) \/ Contend(w) \/ Crash(w)
    BY <1>6, <2>3 DEF RecordCrash, Contend, Crash
  <2> QED BY <1>8, <2>1, <2>2, <2>3 DEF Misfortune
<1>9. CASE Deliver \/ DeliverCrash \/ ComeDue \/ LoseLease
  BY <1>4, <1>5, <1>9 DEF Deliver, DeliverCrash, ComeDue, LoseLease
<1>10. CASE OperatorStep
  BY <1>4, <1>6, <1>10
     DEF OperatorStep, OperatorPause, OperatorResume, OperatorContinue, OperatorRaiseCap,
         OperatorReopen, Resolve, ResolveAgain
<1> QED BY <1>7, <1>8, <1>9, <1>10 DEF Next

-----------------------------------------------------------------------------
(* The workers. *)

\* A non-empty plan has a first turn.
LEMMA SmallestTurn ==
    ASSUME NEW S \in SUBSET Turns, S # {} PROVE \E t \in S : \A u \in S : t <= u
<1> DEFINE Below(t) == {u \in S : u < t}
           Cuts == {Below(t) : t \in S}
<1> HIDE DEF Below, Cuts
<1>1. IsFiniteSet(S) /\ S \subseteq Nat
  BY PlanAssumption, FS_Subset
<1>2. IsWellFoundedOn(StrictSubsetOrdering(S), SUBSET S)
  BY <1>1, FS_StrictSubsetOrderingWellFounded, FS_FiniteSubsetsOfFinite
<1>3. Cuts \subseteq SUBSET S /\ Cuts # {}
  BY DEF Below, Cuts
<1>4. PICK C \in Cuts : \A D \in Cuts : <<D, C>> \notin StrictSubsetOrdering(S)
  BY <1>2, <1>3, WFMin
<1>5. PICK t \in S : C = Below(t)
  BY DEF Cuts
<1>6. ASSUME NEW u \in S, u < t PROVE FALSE
  <2>0. u \in Nat /\ t \in Nat /\ \A x \in S : x \in Nat
    BY <1>1
  <2>1. ~(u < u) /\ \A x \in S : x < u => x < t
    BY <1>6, <2>0
  <2>2. Below(u) \in Cuts
    BY DEF Cuts
  <2>3. /\ Below(u) \in SUBSET S /\ Below(t) \in SUBSET S
        /\ Below(u) \subseteq Below(t) /\ Below(u) # Below(t)
    BY <1>6, <2>1 DEF Below
  <2>5. <<Below(u), Below(t)>> \in StrictSubsetOrdering(S)
    BY <2>3 DEF StrictSubsetOrdering
  <2> QED BY <1>4, <1>5, <2>2, <2>5
<1>7. \A u \in S : t <= u
  BY <1>1, <1>6
<1> QED BY <1>7

LEMMA NextTurnPlanned ==
    ASSUME NEW v, Plan(v) # {} PROVE NextTurn(v) \in Turns
<1>1. Plan(v) \in SUBSET Turns
  BY DEF Plan
<1>2. \E t \in Plan(v) : \A u \in Plan(v) : t <= u
  BY <1>1, SmallestTurn
<1>3. First(Plan(v)) \in Plan(v)
  BY <1>2 DEF First
<1> QED BY <1>1, <1>3 DEF NextTurn

LEMMA ReadyKept ==
    ASSUME NEW r, NEW v, NEW x, Ready(r, v), Extends(v, x) PROVE Ready(r, x)
  BY DEF Ready, Extends

LEMMA OneMoves ==
    ASSUME IInv, Extends(vault, vault'), NEW w \in Workers, NEW r,
           Ready(r, vault'), worker' = [worker EXCEPT ![w] = r]
    PROVE  WorkersReady'
<1>1. \A u \in Workers : worker[u] \in Worker /\ Ready(worker[u], vault')
  BY ReadyKept DEF IInv, WorkersReady
<1>2. r \in Worker
  BY DEF Ready
<1> QED BY <1>1, <1>2 DEF IInv, WorkersReady

LEMMA NoneMoves ==
    ASSUME IInv, Extends(vault, vault'), worker' = worker PROVE WorkersReady'
  BY ReadyKept DEF IInv, WorkersReady

LEMMA RestingReady == ASSUME NEW v PROVE Ready(Resting, v) /\ Resting \in Worker
  BY DEF Ready, Resting, Worker, Step

LEMMA Leaves ==
    ASSUME IInv, Extends(vault, vault'), NEW w \in Workers, Leave(w) PROVE WorkersReady'
  BY RestingReady, OneMoves DEF Leave

\* A step of the drain that is not on the way to record_turn.
LEMMA GoesTo ==
    ASSUME IInv, Extends(vault, vault'), NEW w \in Workers,
           NEW pc \in {"start", "resume", "plan", "beat", "seat", "handback", "fatal",
                       "poison", "closing", "complete"},
           Goto(w, pc) \/ worker' = [worker EXCEPT ![w].pc = pc, ![w].call = NoCall]
    PROVE  WorkersReady'
<1>1. worker[w] \in Worker /\ worker \in [Workers -> Worker]
  BY DEF IInv, WorkersReady
<1>2. pc \in Step /\ pc \notin {"intent", "prompt", "call", "calling", "record"}
  BY DEF Step
<1>3. /\ Ready([worker[w] EXCEPT !.pc = pc], vault')
      /\ Ready([worker[w] EXCEPT !.pc = pc, !.call = NoCall], vault')
  BY <1>1, <1>2 DEF Ready, Worker
<1>4. \/ worker' = [worker EXCEPT ![w] = [worker[w] EXCEPT !.pc = pc]]
      \/ worker' = [worker EXCEPT ![w] = [worker[w] EXCEPT !.pc = pc, !.call = NoCall]]
  BY <1>1 DEF Goto
<1> QED BY <1>3, <1>4, OneMoves

\* A step towards it, the turn kept.
LEMMA GoesOn ==
    ASSUME IInv, Extends(vault, vault'), NEW w \in Workers,
           NEW pc \in {"prompt", "call", "calling"},
           worker[w].turn \in Turns, worker[w].turn \in Reserved(vault'.run), Goto(w, pc)
    PROVE  WorkersReady'
<1>1. worker[w] \in Worker /\ worker \in [Workers -> Worker]
  BY DEF IInv, WorkersReady
<1>2. Ready([worker[w] EXCEPT !.pc = pc], vault')
  BY <1>1 DEF Ready, Worker, Step
<1> QED BY <1>1, <1>2, OneMoves DEF Goto

LEMMA Answered ==
    ASSUME IInv, Extends(vault, vault'), NEW w \in Workers, NEW call \in Call, Answer(w, call)
    PROVE  WorkersReady'
<1>1. CASE Leave(w)
  BY <1>1, Leaves
<1>2. CASE worker' = [worker EXCEPT ![w].pc = "record", ![w].call = call]
  <2>1. /\ worker[w] \in Worker /\ worker \in [Workers -> Worker]
        /\ Ready(worker[w], vault') /\ worker[w].pc = "calling"
    BY ReadyKept DEF IInv, WorkersReady, Answer, At
  <2>2. Ready([worker[w] EXCEPT !.pc = "record", !.call = call], vault')
    BY <2>1 DEF Ready, Worker, Step
  <2>3. worker' = [worker EXCEPT ![w] = [worker[w] EXCEPT !.pc = "record", !.call = call]]
    BY <1>2, <2>1
  <2> QED BY <2>2, <2>3, OneMoves
<1> QED BY <1>1, <1>2 DEF Answer

LEMMA DriveWorkers ==
    ASSUME IInv, NEW w \in Workers, Drive(w), Extends(vault, vault') PROVE WorkersReady'
<1>0. /\ worker \in [Workers -> Worker] /\ worker[w] \in Worker
      /\ Ready(worker[w], vault) /\ Ready(worker[w], vault')
  BY ReadyKept DEF IInv, WorkersReady
<1>1. CASE Take(w)
  <2>1. queue[RunItem].attempts + 1 \in Nat
    <3>1. queue[RunItem] \in Item
      BY <1>1, EngineAssumption DEF Take, Claim, Present, IInv, LQTypeOK
    <3> QED BY <3>1 DEF Item
  <2> DEFINE r == [Resting EXCEPT !.pc = "start", !.tries = queue[RunItem].attempts + 1]
  <2>2. Ready(r, vault')
    BY <2>1 DEF Resting, Ready, Worker, Step
  <2> QED BY <1>1, <2>2, OneMoves DEF Take
<1>2. CASE Start(w)
  BY <1>2, GoesTo DEF Start
<1>3. CASE Reawaken(w)
  BY <1>3, GoesTo DEF Reawaken
<1>4. CASE PlanNext(w)
  <2> DEFINE pc == IF Plan(vault') = {} THEN "closing" ELSE "intent"
             r == [worker[w] EXCEPT !.pc = pc, !.turn = NextTurn(vault')]
  <2>1. /\ Plan(vault') = {} => NextTurn(vault') = NoTurn
        /\ Plan(vault') # {} => NextTurn(vault') \in Turns
    BY NextTurnPlanned DEF NextTurn
  <2>2. Ready(r, vault')
    BY <1>0, <2>1 DEF Ready, Worker, Step
  <2>3. worker' = [worker EXCEPT ![w] = r]
    BY <1>0, <1>4 DEF PlanNext
  <2> QED BY <2>2, <2>3, OneMoves
<1>5. CASE Intend(w)
  <2>1. Turn(w) \in Turns /\ Goto(w, "prompt")
        /\ vault' = [vault EXCEPT !.run = TurnIntent(vault.run, Turn(w))]
    BY <1>0, <1>5 DEF Ready, Intend, At, Turn
  <2>2. vault'.run = TurnIntent(vault.run, Turn(w))
    BY <2>1 DEF IInv, Vault
  <2>3. Turn(w) \in Reserved(vault'.run)
    BY <2>1, <2>2, VerbsKeep DEF IInv
  <2> QED BY <2>1, <2>3, GoesOn DEF Turn
<1>6. CASE Prompt(w)
  <2>1. worker[w].turn \in Turns /\ worker[w].turn \in Reserved(vault'.run)
    BY <1>0, <1>6 DEF Ready, Prompt, At
  <2> QED BY <1>6, <2>1, GoesOn, GoesTo DEF Prompt
<1>7. CASE CallProvider(w)
  <2>1. worker[w].turn \in Turns /\ worker[w].turn \in Reserved(vault'.run)
    BY <1>0, <1>7 DEF Ready, CallProvider, At
  <2> QED BY <1>7, <2>1, GoesOn, Leaves DEF CallProvider
<1>8. CASE GoodAnswer(w)
  BY <1>8, Answered DEF GoodAnswer
<1>9. CASE Record(w)
  BY <1>9, GoesTo DEF Record
<1>10. CASE Beat(w)
  <2>1. CASE Leave(w)
    BY <2>1, Leaves
  <2>2. CASE worker' = [worker EXCEPT ![w].pc = "plan", ![w].turn = NoTurn]
    <3>1. Ready([worker[w] EXCEPT !.pc = "plan", !.turn = NoTurn], vault')
      BY <1>0 DEF Ready, Worker, Step
    <3>2. worker' = [worker EXCEPT ![w] = [worker[w] EXCEPT !.pc = "plan", !.turn = NoTurn]]
      BY <1>0, <2>2
    <3> QED BY <3>1, <3>2, OneMoves
  <2> QED BY <1>10, <2>1, <2>2 DEF Beat
<1>11. CASE HandBack(w) \/ BackOff(w) \/ Drop(w)
  BY <1>11, Leaves DEF HandBack, BackOff, Drop
<1>12. CASE PauseForCapacity(w) \/ Fail(w) \/ DeadLetter(w) \/ Close(w)
  BY <1>12, GoesTo DEF PauseForCapacity, Fail, DeadLetter, Close
<1> QED BY <1>1, <1>2, <1>3, <1>4, <1>5, <1>6, <1>7, <1>8, <1>9, <1>10, <1>11, <1>12 DEF Drive

LEMMA MisfortuneWorkers ==
    ASSUME IInv, NEW w \in Workers, Misfortune(w), Extends(vault, vault') PROVE WorkersReady'
<1>1. CASE BadAnswer(w)
  BY <1>1, Answered DEF BadAnswer
<1>2. CASE ProviderError(w)
  BY <1>2, GoesTo, Leaves DEF ProviderError
<1>3. CASE RecordCrash(w) \/ Shutdown(w) \/ Crash(w)
  BY <1>3, Leaves DEF RecordCrash, Shutdown, Crash
<1>4. CASE Contend(w)
  BY <1>4, GoesTo DEF Contend
<1> QED BY <1>1, <1>2, <1>3, <1>4 DEF Misfortune

LEMMA OutsideWorkers ==
    ASSUME IInv, Extends(vault, vault'),
           Deliver \/ DeliverCrash \/ ComeDue \/ LoseLease \/ OperatorStep
    PROVE  WorkersReady'
<1>1. worker' = worker
  BY DEF Deliver, DeliverCrash, ComeDue, LoseLease, OperatorStep, OperatorPause,
         OperatorResume, OperatorContinue, OperatorRaiseCap, OperatorReopen, Resolve,
         ResolveAgain, Elsewhere
<1> QED BY <1>1, NoneMoves

LEMMA WorkersStep ==
    ASSUME IInv, Next, Extends(vault, vault') PROVE WorkersReady'
  BY DriveWorkers, MisfortuneWorkers, OutsideWorkers DEF Next

-----------------------------------------------------------------------------
(* The counters. *)

LEMMA CountersStep == ASSUME IInv, Next PROVE Counters'
<1>0. paid \in Nat /\ torn \in Nat /\ faults \in Nat /\ ops \in Nat
  BY DEF IInv, Counters
<1>1. ASSUME NEW w \in Workers, NEW call \in Call, Answer(w, call)
      PROVE  paid' \in Nat /\ torn' = torn /\ ops' = ops
  <2>1. call.cost \in Costs
    BY DEF Call
  <2>2. call.cost \in 0 .. MaxPlausible
    BY <2>1, EngineAssumption
  <2> QED BY <1>0, <1>1, <2>2, MoneyAssumption DEF Answer
<1>2. ASSUME NEW w \in Workers, Drive(w) PROVE Counters'
  <2>1. CASE GoodAnswer(w)
    BY <1>0, <1>1, <2>1 DEF GoodAnswer, Counters
  <2>2. CASE ~GoodAnswer(w)
    <3>1. UNCHANGED <<paid, torn, faults, ops>>
      BY <1>2, <2>2 DEF Drive, Take, Start, Reawaken, PlanNext, Intend, Prompt, CallProvider,
           Record, Beat, PauseForCapacity, HandBack, Fail, BackOff, DeadLetter, Close, Drop,
           Unbilled, Calm
    <3> QED BY <1>0, <3>1 DEF Counters
  <2> QED BY <2>1, <2>2
<1>3. ASSUME NEW w \in Workers, Misfortune(w) PROVE Counters'
  <2>1. CASE BadAnswer(w)
    BY <1>0, <1>1, <2>1 DEF BadAnswer, Fault, Counters
  <2>2. CASE ~BadAnswer(w)
    <3>1. /\ paid' = paid /\ ops' = ops /\ faults' = faults + 1
          /\ torn' = torn \/ torn' = torn + 1
      BY <1>3, <2>2 DEF Misfortune, ProviderError, RecordCrash, Shutdown, Contend, Crash, Fault
    <3> QED BY <1>0, <3>1 DEF Counters
  <2> QED BY <2>1, <2>2
<1>4. CASE Deliver \/ DeliverCrash \/ ComeDue \/ LoseLease
  <2>1. /\ paid' = paid /\ ops' = ops /\ torn' = torn
        /\ faults' = faults \/ faults' = faults + 1
    BY <1>4 DEF Deliver, DeliverCrash, ComeDue, LoseLease, Unbilled, Calm, Fault
  <2> QED BY <1>0, <2>1 DEF Counters
<1>5. CASE OperatorStep
  BY <1>0, <1>5
     DEF OperatorStep, OperatorPause, OperatorResume, OperatorContinue, OperatorRaiseCap,
         OperatorReopen, Resolve, ResolveAgain, Operator, Elsewhere, Fault, Counters
<1> QED BY <1>2, <1>3, <1>4, <1>5 DEF Next

-----------------------------------------------------------------------------
(* The end of a run, and what its watchers see: a step of the vault is a step of the *)
(* lifecycle, and a run that has ended says so rightly.                               *)

Over == {"finished", "needs_decisions"}

\* FinishedComplete, of any vault
Ended(v) ==
    v.run.status \in Over =>
        /\ AllDone(v)
        /\ v.run.rubric
        /\ \A t \in Turns : \A g \in Raises[t] : v.gates[g] # "none"
        /\ v.run.status = "finished" => OpenGates(v, HardHuman) = {}

\* RunLifecycle's steps, of two vaults
Lands(v, x) ==
    \E t \in Turns :
        /\ v.run.status = "running"
        /\ t \notin v.run.done /\ Before[t] \subseteq v.run.done
        /\ x.run.done = v.run.done \cup {t}
        /\ \/ x.run.status \in {"running", "checkpoint", "capped"}
           \/ x.run.done = Turns /\ x.run.status \in Over

Ends(v, x) ==
    /\ v.run.status \in {"running", "needs_decisions"} /\ v.run.done = Turns
    /\ x.run.status \in Over /\ x.run.done = v.run.done

Stops(v, x) ==
    /\ \/ v.run.status = "running" /\ x.run.status = "capped"
       \/ /\ v.run.status \notin {"finished", "capped", "needs_attention"}
          /\ x.run.status = "paused"
       \/ x.run.status = "needs_attention"
    /\ x.run.done = v.run.done

Restarts(v, x) ==
    /\ v.run.status \in {"paused", "checkpoint", "capped", "needs_attention"}
    /\ x.run.status = "running" /\ x.run.done = v.run.done

Same(v, x) == x.run.status = v.run.status /\ x.run.done = v.run.done

Lives(v, x) == Same(v, x) \/ Lands(v, x) \/ Ends(v, x) \/ Stops(v, x) \/ Restarts(v, x)

GoodEnd(v, x) == Lives(v, x) /\ Ended(x)

\* A step that neither moves the run nor touches its rubric gate or its attorney gates.
Quiet(v, x) == Same(v, x) /\ x.run.rubric = v.run.rubric /\ x.gates = v.gates

LEMMA QuietEnds ==
    ASSUME NEW v, NEW x, Quiet(v, x), Ended(v) PROVE GoodEnd(v, x)
  BY DEF Quiet, Same, Ended, GoodEnd, Lives, AllDone, OpenGates

LEMMA StopEnds ==
    ASSUME NEW v, NEW x, Stops(v, x) \/ Restarts(v, x) PROVE GoodEnd(v, x)
<1>1. x.run.status \notin Over
  BY DEF Stops, Restarts, Over
<1> QED BY <1>1 DEF GoodEnd, Lives, Ended

\* A vault with only its journal changed.
LEMMA RunPart ==
    ASSUME NEW v \in Vault, NEW r
    PROVE  LET x == [v EXCEPT !.run = r]
           IN  x.run = r /\ x.gates = v.gates /\ x.body = v.body
  BY DEF Vault

LEMMA BookedQuiet ==
    ASSUME NEW v \in Vault, NEW t, NEW call PROVE Quiet(v, Booked(v, t, call))
<1>1. v.run \in RunState
  BY RunOf
<1>2. LET r == SpendRecorded(v.run, t, call.cost)
      IN  r.status = v.run.status /\ r.done = v.run.done /\ r.rubric = v.run.rubric
  BY <1>1 DEF SpendRecorded, RunState
<1> QED BY <1>2, RunPart DEF Booked, Quiet, Same

LEMMA AttemptedQuiet ==
    ASSUME NEW v \in Vault, NEW t \in Turns, NEW call \in Call
    PROVE  Quiet(v, Attempted(v, t, call)) /\ Attempted(v, t, call).run.status = v.run.status
<1> DEFINE b == Booked(v, t, call)
           n == b.run.discarded[t] + 1
<1>1. Quiet(v, b) /\ b \in Vault /\ b.run \in RunState
  BY BookedQuiet, BookedKeeps, RunOf
<1>2. Attempted(v, t, call) = [b EXCEPT !.run = TurnDiscarded(b.run, t, n)]
  BY DEF Attempted
<1> HIDE DEF b, n
<1>3. LET r == TurnDiscarded(b.run, t, n)
      IN  r.status = b.run.status /\ r.done = b.run.done /\ r.rubric = b.run.rubric
  BY <1>1 DEF TurnDiscarded, RunState
<1> QED BY <1>1, <1>2, <1>3, RunPart DEF Quiet, Same

\* _finalize ends a run only when all is there, whatever a crash had left undone.
LEMMA FinalizeEnds ==
    ASSUME NEW v \in Vault, Ended(v)
    PROVE  /\ Ended(Finalize(v)) /\ Finalize(v).run.done = v.run.done
           /\ Finalize(v) = v \/ Ends(v, Finalize(v))
<1> DEFINE d == Derived(v, v.run.done)
           w == RubricGate(d)
<1>1. CASE v.run.status \notin {"running", "needs_decisions"} \/ ~AllDone(v)
  BY <1>1 DEF Finalize
<1>2. CASE v.run.status \in {"running", "needs_decisions"} /\ AllDone(v)
  <2>1. /\ d \in Vault /\ d.run = v.run
        /\ \A t \in Turns : \A g \in Raises[t] : d.gates[g] # "none"
    BY <1>2, DerivedKeeps, GateAssumption DEF Keeps, Grows, Extends, AllDone
  <2> HIDE DEF d
  <2>2. RubricTurns \subseteq d.run.done
    BY <1>2, <2>1, PlanAssumption DEF AllDone
  <2>3. w = [d EXCEPT !.run = RubricEvaluated(d.run)]
    BY <2>2 DEF RubricGate
  <2>4. w.run = RubricEvaluated(d.run) /\ w.gates = d.gates /\ d.run \in RunState
    BY <2>1, <2>3, RunPart, RunOf
  <2>5. /\ w.run.done = Turns /\ w.run.rubric /\ w \in Vault
        /\ \A t \in Turns : \A g \in Raises[t] : w.gates[g] # "none"
    <3>1. RubricEvaluated(d.run).done = d.run.done /\ RubricEvaluated(d.run).rubric = TRUE
      BY <2>4 DEF RubricEvaluated, RunState
    <3>2. w \in Vault
      BY <2>1, RubricGateKeeps DEF Keeps, Grows, Extends
    <3> QED BY <1>2, <2>1, <2>4, <3>1, <3>2 DEF AllDone
  <2> HIDE DEF w
  <2>6. ASSUME NEW status \in Over, NEW x, x = [w EXCEPT !.run = RunFinished(w.run, status)],
               status = "finished" => OpenGates(w, HardHuman) = {}
        PROVE  Ended(x) /\ x.run.done = v.run.done /\ Ends(v, x)
    <3>1. /\ x.run = RunFinished(w.run, status) /\ x.gates = w.gates
          /\ w.run \in RunState
      BY <2>5, <2>6, RunPart, RunOf
    <3>2. /\ x.run.status = status /\ x.run.done = w.run.done
          /\ x.run.rubric = w.run.rubric
      BY <3>1 DEF RunFinished, RunState
    <3>3. OpenGates(x, HardHuman) = OpenGates(w, HardHuman)
      BY <3>1 DEF OpenGates
    <3>4. Ended(x)
      BY <2>5, <2>6, <3>1, <3>2, <3>3 DEF Ended, AllDone
    <3>5. Ends(v, x)
      BY <1>2, <2>5, <3>2 DEF Ends, AllDone
    <3> QED BY <3>4, <3>5 DEF Ends
  <2>7. CASE OpenGates(w, HardHuman) # {}
    <3>1. Finalize(v) = [w EXCEPT !.run = RunFinished(w.run, "needs_decisions")]
      BY <1>2, <2>7 DEF Finalize, w, d
    <3> QED BY <2>6, <3>1 DEF Over
  <2>8. CASE OpenGates(w, HardHuman) = {}
    <3>1. Finalize(v) = [w EXCEPT !.run = RunFinished(w.run, "finished")]
      BY <1>2, <2>8 DEF Finalize, w, d
    <3> QED BY <2>6, <2>8, <3>1 DEF Over
  <2> QED BY <2>7, <2>8
<1> QED BY <1>1, <1>2

\* The same, after a step that leaves the run where it was.
LEMMA ThenFinalize ==
    ASSUME NEW v, NEW u \in Vault, Same(v, u), Ended(u)
    PROVE  GoodEnd(v, Finalize(u))
  BY FinalizeEnds DEF GoodEnd, Lives, Same, Ends

LEMMA CapEnds ==
    ASSUME NEW v \in Vault, Ended(v)
    PROVE  GoodEnd(v, CapTransition(v)) /\ GoodEnd(v, Planned(v))
<1>1. Quiet(v, v) /\ v.run \in RunState
  BY RunOf DEF Quiet, Same
<1>2. ASSUME v.run.status = "running"
      PROVE  Stops(v, [v EXCEPT !.run = RunFinished(v.run, "capped")])
  BY <1>1, <1>2, RunPart DEF Stops, RunFinished, RunState
<1> QED BY <1>1, <1>2, QuietEnds, StopEnds DEF CapTransition, Planned

\* A recorded turn lands, and the run may stop or end with it (_record_spec).
LEMMA RecordedLands ==
    ASSUME NEW v \in Vault, NEW t \in Turns, NEW call \in Call, Ended(v),
           call.out \in Outputs, t \in Plan(v),
           NEW x \in RecordTorn(v, t, call) \cup {Recorded(v, t, call)}
    PROVE  GoodEnd(v, x)
<1> DEFINE s == Sealed(v, t, call)
           o == GatesOpen(v, t, call)
           p == Paid(v, t, call)
           c == Completed(v, t, call)
           z == Scored(v, t, call)
           f == Finalize(z)
<1>0. /\ v.run.status = "running" /\ t \notin v.run.done /\ Before[t] \subseteq v.run.done
      /\ "running" \notin Over /\ "checkpoint" \notin Over /\ "capped" \notin Over
  BY DEF Plan, Over
<1>1. s \in Vault /\ s.run = v.run
  BY DEF Sealed, Vault
<1>2. o \in Vault /\ o.run = v.run
  BY <1>1, DerivedKeeps DEF GatesOpen, Keeps, Grows, Extends
<1>3. p \in Vault /\ Same(v, p)
  BY <1>2, BookedKeeps, BookedQuiet DEF Paid, Quiet, Same
<1>4. c \in Vault /\ c.run.status = "running" /\ c.run.done = v.run.done \cup {t}
  <2>1. c = [p EXCEPT !.run = TurnCompleted(p.run, t)]
    BY DEF Completed
  <2> HIDE DEF p
  <2>2. c.run = TurnCompleted(p.run, t) /\ p.run \in RunState /\ c \in Vault
    BY <1>3, <2>1, RunPart, RunOf, CompletedGrows DEF Grows, Extends
  <2> QED BY <1>0, <1>3, <2>2 DEF TurnCompleted, RunState, Same
<1>5. z \in Vault /\ z.run.status = "running" /\ z.run.done = v.run.done \cup {t}
  BY <1>4, RubricGateKeeps DEF Scored, Keeps, Grows, Extends
<1> HIDE DEF s, o, p, c, z
<1>6. Ended(z)
  BY <1>0, <1>5 DEF Ended
<1>7. ASSUME NEW y, y.run.done = v.run.done \cup {t}, Ended(y),
             \/ y.run.status \in {"running", "checkpoint", "capped"}
             \/ y.run.done = Turns /\ y.run.status \in Over
      PROVE  GoodEnd(v, y)
  <2>1. Lands(v, y)
    BY <1>0, <1>7 DEF Lands
  <2> QED BY <1>7, <2>1 DEF GoodEnd, Lives
<1>8. ASSUME NEW y, Same(v, y)
      PROVE  GoodEnd(v, y)
  BY <1>0, <1>8 DEF GoodEnd, Lives, Ended, Same
<1>9. /\ f \in Vault /\ Ended(f) /\ f.run.done = z.run.done
      /\ f.run.status = "running" \/ (f.run.done = Turns /\ f.run.status \in Over)
  BY <1>5, <1>6, FinalizeEnds, FinalizeKeeps DEF Ends, Keeps, Grows, Extends
<1> HIDE DEF f
<1>10. GoodEnd(v, f)
  BY <1>5, <1>7, <1>9
<1>11. GoodEnd(v, CapTransition(z))
  <2>1. CapTransition(z) = [z EXCEPT !.run = RunFinished(z.run, "capped")]
    BY <1>5 DEF CapTransition
  <2>2. CapTransition(z).run = RunFinished(z.run, "capped") /\ z.run \in RunState
    BY <1>5, <2>1, RunPart, RunOf
  <2>3. CapTransition(z).run.status = "capped" /\ CapTransition(z).run.done = z.run.done
    BY <2>2 DEF RunFinished, RunState
  <2> QED BY <1>0, <1>5, <1>7, <2>3 DEF Ended
<1>12. GoodEnd(v, MaybeCheckpoint(f))
  <2>1. CASE MaybeCheckpoint(f) = f
    BY <1>10, <2>1
  <2>2. CASE MaybeCheckpoint(f) # f
    <3>1. PICK b : MaybeCheckpoint(f) = [f EXCEPT !.run = CheckpointReached(f.run, b)]
      BY <2>2 DEF MaybeCheckpoint
    <3>2. /\ MaybeCheckpoint(f).run = CheckpointReached(f.run, b) /\ f.run \in RunState
      BY <1>9, <3>1, RunPart, RunOf
    <3>3. /\ MaybeCheckpoint(f).run.status = "checkpoint"
          /\ MaybeCheckpoint(f).run.done = f.run.done
      BY <3>2 DEF CheckpointReached, RunState
    <3> QED BY <1>0, <1>5, <1>7, <1>9, <3>3 DEF Ended
  <2> QED BY <2>1, <2>2
<1>13. x \in GatesBegun(v, t, call)
               \cup {p, c, z, f, CapTransition(z), MaybeCheckpoint(f)}
  BY DEF RecordTorn, Recorded, p, c, z, f
<1>14. GoodEnd(v, p) /\ \A y \in GatesBegun(v, t, call) : GoodEnd(v, y)
  BY <1>3, <1>8, GatesBegunKeeps DEF Same
<1>15. GoodEnd(v, c) /\ GoodEnd(v, z)
  BY <1>0, <1>4, <1>5, <1>7 DEF Ended
<1> QED BY <1>10, <1>11, <1>12, <1>13, <1>14, <1>15

LEMMA RecordEnds ==
    ASSUME NEW v \in Vault, NEW t \in Turns, NEW call \in Call, Ended(v),
           t \in Plan(v) \cup v.run.done,
           NEW x \in TornRecord(v, t, call) \cup {RecordTurn(v, t, call)}
    PROVE  GoodEnd(v, x)
<1> DEFINE b == Booked(v, t, call)
           a == Attempted(v, t, call)
<1>1. Quiet(v, b) /\ b \in Vault /\ GoodEnd(v, b)
  BY BookedQuiet, BookedKeeps, QuietEnds
<1>2. Quiet(v, a) /\ GoodEnd(v, a)
  BY AttemptedQuiet, QuietEnds
<1>3. CASE t \in v.run.done
  <2>1. x = b \/ x = Finalize(b)
    BY <1>3 DEF TornRecord, RecordTurn, Replayed
  <2> HIDE DEF b
  <2> QED BY <1>1, <2>1, ThenFinalize DEF Quiet, GoodEnd
<1>4. CASE t \notin v.run.done /\ call.out = Invalid
  <2>1. x = b \/ x = a \/ x = [a EXCEPT !.run = RunFinished(a.run, "needs_attention")]
    BY <1>4 DEF TornRecord, RecordTurn, DiscardTorn, Discarded
  <2>2. ASSUME x = [a EXCEPT !.run = RunFinished(a.run, "needs_attention")]
        PROVE  Stops(v, x)
    <3>1. a \in Vault
      <4>1. b \in Vault /\ b.run \in RunState /\ b.run.discarded[t] + 1 \in Nat
        BY <1>1, RunOf DEF RunState
      <4>2. TurnDiscarded(b.run, t, b.run.discarded[t] + 1) \in RunState
        BY <4>1 DEF TurnDiscarded, RunState
      <4> QED BY <4>1, <4>2 DEF Attempted, Vault
    <3> HIDE DEF a
    <3>2. x.run = RunFinished(a.run, "needs_attention") /\ a.run \in RunState
      BY <2>2, <3>1, RunPart, RunOf
    <3> QED BY <1>2, <3>2 DEF RunFinished, RunState, Stops, Quiet, Same
  <2> QED BY <1>1, <1>2, <2>1, <2>2, StopEnds
<1>5. CASE t \notin v.run.done /\ call.out # Invalid
  <2>1. call.out \in Outputs /\ t \in Plan(v)
    BY <1>5 DEF Call
  <2>2. x \in RecordTorn(v, t, call) \cup {Recorded(v, t, call)}
    BY <1>5 DEF TornRecord, RecordTurn
  <2> QED BY <2>1, <2>2, RecordedLands
<1> QED BY <1>3, <1>4, <1>5

\* The operator's verbs, and a worker's.
LEMMA VerbsEnd ==
    ASSUME NEW v \in Vault, Ended(v)
    PROVE  /\ GoodEnd(v, v)
           /\ CanPause(v) => \A reason : GoodEnd(v, Pause(v, reason))
           /\ CanResume(v) => GoodEnd(v, Resume(v))
           /\ CanContinue(v) => GoodEnd(v, Continue(v))
           /\ \A usd : GoodEnd(v, RaiseCap(v, usd))
           /\ \A grant : CanReopen(v, grant) => GoodEnd(v, Reopen(v, grant))
           /\ GoodEnd(v, NeedsAttention(v))
           /\ \A t : GoodEnd(v, [v EXCEPT !.run = TurnIntent(v.run, t)])
           /\ GoodEnd(v, [v EXCEPT !.run = RunEnqueued(v.run)])
<1>0. v.run \in RunState
  BY RunOf
<1>1. GoodEnd(v, v)
  BY QuietEnds DEF Quiet, Same
<1>2. ASSUME CanPause(v), NEW reason
      PROVE  Stops(v, Pause(v, reason))
  <2>1. Pause(v, reason).run = RunPaused(v.run, reason)
    BY RunPart DEF Pause
  <2> QED BY <1>0, <1>2, <2>1 DEF CanPause, Terminal, RunPaused, RunState, Stops
<1>3. ASSUME CanResume(v)
      PROVE  Restarts(v, Resume(v))
  <2>1. Resume(v).run = RunResumed(v.run)
    BY RunPart DEF Resume
  <2> QED BY <1>0, <1>3, <2>1 DEF CanResume, RunResumed, RunState, Restarts
<1>4. ASSUME CanContinue(v)
      PROVE  Restarts(v, Continue(v))
  <2>1. Continue(v).run = CheckpointCleared(v.run, v.run.boundary)
    BY RunPart DEF Continue
  <2> QED BY <1>0, <1>4, <2>1 DEF CanContinue, CheckpointCleared, RunState, Restarts
<1>5. ASSUME NEW usd
      PROVE  GoodEnd(v, RaiseCap(v, usd))
  <2>1. /\ RaiseCap(v, usd).run = CapRaised(v.run, usd) /\ RaiseCap(v, usd).gates = v.gates
    BY RunPart DEF RaiseCap
  <2>2. CASE v.run.status = "capped"
    <3>1. Restarts(v, RaiseCap(v, usd))
      BY <1>0, <2>1, <2>2 DEF CapRaised, RunState, Restarts
    <3> QED BY <3>1, StopEnds
  <2>3. CASE v.run.status # "capped"
    <3>1. Quiet(v, RaiseCap(v, usd))
      BY <1>0, <2>1, <2>3 DEF CapRaised, RunState, Quiet, Same
    <3> QED BY <3>1, QuietEnds
  <2> QED BY <2>2, <2>3
<1>6. ASSUME NEW grant, CanReopen(v, grant)
      PROVE  Restarts(v, Reopen(v, grant))
  <2>1. Reopen(v, grant).run = RunReopened(v.run, grant)
    BY RunPart DEF Reopen
  <2> QED BY <1>0, <1>6, <2>1 DEF CanReopen, RunReopened, RunState, Restarts
<1>7. Stops(v, NeedsAttention(v))
  BY <1>0, RunPart DEF NeedsAttention, RunFinished, RunState, Stops
<1>8. ASSUME NEW t
      PROVE  Quiet(v, [v EXCEPT !.run = TurnIntent(v.run, t)])
  BY <1>0, RunPart DEF TurnIntent, RunState, Quiet, Same
<1>9. Quiet(v, [v EXCEPT !.run = RunEnqueued(v.run)])
  BY <1>0, RunPart DEF RunEnqueued, RunState, Quiet, Same
<1> QED BY <1>1, <1>2, <1>3, <1>4, <1>5, <1>6, <1>7, <1>8, <1>9, QuietEnds, StopEnds

\* A resolution closes a gate and moves nothing else.
LEMMA ResolvedEnds ==
    ASSUME NEW v \in Vault, Ended(v), NEW g \in Gates, v.gates[g] = "open"
    PROVE  /\ Resolved(v, g) \in Vault /\ Same(v, Resolved(v, g)) /\ Ended(Resolved(v, g))
           /\ GoodEnd(v, Resolved(v, g)) /\ GoodEnd(v, Finalize(Resolved(v, g)))
<1> DEFINE x == Resolved(v, g)
<1>1. x \in Vault /\ x.run = v.run /\ x.gates = [v.gates EXCEPT ![g] = "resolved"]
      /\ v.gates \in [Gates -> {"none", "open", "resolved"}]
  BY DEF Resolved, Vault
<1> HIDE DEF x
<1>2. /\ \A h \in Gates : v.gates[h] # "none" => x.gates[h] # "none"
      /\ OpenGates(x, HardHuman) \subseteq OpenGates(v, HardHuman)
  BY <1>1, GateAssumption DEF OpenGates
<1>3. Same(v, x) /\ Ended(x)
  BY <1>1, <1>2, GateAssumption DEF Same, Ended, AllDone
<1>4. GoodEnd(v, x) /\ GoodEnd(v, Finalize(x))
  BY <1>1, <1>3, ThenFinalize DEF GoodEnd, Lives
<1> QED BY <1>1, <1>3, <1>4 DEF x

LEMMA DriveEnds ==
    ASSUME IInv, Ended(vault), NEW w \in Workers, Drive(w) PROVE GoodEnd(vault, vault')
<1>0. vault \in Vault
  BY DEF IInv
<1>1. CASE \/ Take(w) \/ Start(w) \/ CallProvider(w) \/ GoodAnswer(w) \/ Beat(w)
           \/ HandBack(w) \/ BackOff(w) \/ Drop(w)
  <2>1. vault' = vault
    BY <1>1 DEF Take, Start, CallProvider, GoodAnswer, Answer, Beat, HandBack, BackOff, Drop, Calm
  <2> QED BY <1>0, <2>1, VerbsEnd
<1>2. CASE Reawaken(w)
  BY <1>0, <1>2, VerbsEnd DEF Reawaken
<1>3. CASE PlanNext(w) \/ Prompt(w)
  BY <1>0, <1>3, CapEnds DEF PlanNext, Prompt
<1>4. CASE Intend(w)
  BY <1>0, <1>4, VerbsEnd DEF Intend
<1>5. CASE Record(w)
  <2>1. CASE Refused(w)
    BY <1>0, <1>5, <2>1, VerbsEnd DEF Record
  <2>2. CASE ~Refused(w)
    <3>1. At(w, "record") /\ vault' = RecordTurn(vault, Turn(w), worker[w].call)
      BY <1>5, <2>2 DEF Record
    <3>2. /\ Turn(w) \in Turns /\ worker[w].call \in Call
          /\ Turn(w) \in Plan(vault) \cup vault.run.done
      BY <2>2, <3>1, RecordingReady
    <3> QED BY <1>0, <3>1, <3>2, RecordEnds
  <2> QED BY <2>1, <2>2
<1>6. CASE PauseForCapacity(w)
  BY <1>0, <1>6, VerbsEnd DEF PauseForCapacity
<1>7. CASE Fail(w) \/ DeadLetter(w)
  BY <1>0, <1>7, VerbsEnd DEF Fail, DeadLetter
<1>8. CASE Close(w)
  BY <1>0, <1>8, ThenFinalize DEF Close, Same
<1> QED BY <1>1, <1>2, <1>3, <1>4, <1>5, <1>6, <1>7, <1>8 DEF Drive

LEMMA OtherEnds ==
    ASSUME IInv, Ended(vault),
           \/ \E w \in Workers : Misfortune(w)
           \/ Deliver \/ DeliverCrash \/ ComeDue \/ LoseLease \/ OperatorStep
    PROVE  GoodEnd(vault, vault')
<1>0. vault \in Vault
  BY DEF IInv
<1>1. ASSUME NEW w \in Workers, Misfortune(w)
      PROVE  GoodEnd(vault, vault')
  <2>1. CASE vault' = vault
    BY <1>0, <2>1, VerbsEnd
  <2>2. CASE RecordCrash(w)
    <3>1. /\ At(w, "record") /\ ~Refused(w)
          /\ vault' \in TornRecord(vault, Turn(w), worker[w].call)
      BY <2>2 DEF RecordCrash
    <3>2. /\ Turn(w) \in Turns /\ worker[w].call \in Call
          /\ Turn(w) \in Plan(vault) \cup vault.run.done
      BY <3>1, RecordingReady
    <3> QED BY <1>0, <3>1, <3>2, RecordEnds
  <2> QED BY <1>1, <2>1, <2>2
          DEF Misfortune, BadAnswer, Answer, ProviderError, Shutdown, Contend, Crash
<1>2. CASE DeliverCrash \/ ComeDue \/ LoseLease
  BY <1>0, <1>2, VerbsEnd DEF DeliverCrash, ComeDue, LoseLease
<1>3. CASE Deliver
  BY <1>0, <1>3, VerbsEnd DEF Deliver
<1>4. CASE OperatorPause \/ OperatorResume \/ OperatorContinue
  BY <1>0, <1>4, VerbsEnd DEF OperatorPause, OperatorResume, OperatorContinue, Operator
<1>5. CASE OperatorRaiseCap \/ OperatorReopen
  BY <1>0, <1>5, VerbsEnd DEF OperatorRaiseCap, OperatorReopen, Operator
<1>6. CASE Resolve
  BY <1>0, <1>6, ResolvedEnds DEF Resolve, Operator
<1>7. CASE ResolveAgain
  BY <1>0, <1>7, ThenFinalize DEF ResolveAgain, Same
<1> QED BY <1>1, <1>2, <1>3, <1>4, <1>5, <1>6, <1>7 DEF OperatorStep

LEMMA EndStep ==
    ASSUME IInv, Ended(vault), [Next]_vars PROVE GoodEnd(vault, vault')
<1>1. CASE vault' = vault
  BY <1>1, VerbsEnd DEF IInv
<1> QED BY <1>1, DriveEnds, OtherEnds DEF Next, vars

-----------------------------------------------------------------------------
(* Money.  Only the record of an answer moves the ledger, and by no more than its   *)
(* provider billed.                                                                 *)

Cost(call) == IF call.reported THEN call.cost ELSE 0

\* A step that leaves the ledger where it was, and forgets no reservation.
Thrifty(s, r) == r.spend = s.spend /\ s.pending \subseteq r.pending
Frugal(v, x) == Thrifty(v.run, x.run)

\* One that books the call, or nothing of it yet.
Charges(v, x, call) == x.run.spend \in {v.run.spend, v.run.spend + Cost(call)}

LEMMA CostsBounded ==
    ASSUME NEW call \in Call
    PROVE  /\ call.cost \in Nat /\ call.cost <= MaxPlausible
           /\ Cost(call) \in Nat /\ Cost(call) <= call.cost
<1>1. call.cost \in 0 .. MaxPlausible
  BY EngineAssumption DEF Call
<1> QED BY <1>1, MoneyAssumption DEF Cost

LEMMA FrugalRun ==
    ASSUME NEW v \in Vault, NEW r, Thrifty(v.run, r)
    PROVE  Frugal(v, [v EXCEPT !.run = r])
  BY RunPart DEF Frugal

LEMMA FrugalSelf == ASSUME NEW v PROVE Frugal(v, v)
  BY DEF Frugal, Thrifty

LEMMA FrugalOn ==
    ASSUME NEW u, NEW v, NEW x, Frugal(u, v), Frugal(v, x) PROVE Frugal(u, x)
  BY DEF Frugal, Thrifty

LEMMA JournalThrifty ==
    ASSUME NEW s \in RunState
    PROVE  /\ Thrifty(s, RubricEvaluated(s)) /\ Thrifty(s, RunResumed(s))
           /\ Thrifty(s, RunEnqueued(s))
           /\ \A x : /\ Thrifty(s, RunFinished(s, x)) /\ Thrifty(s, RunPaused(s, x))
                     /\ Thrifty(s, CheckpointReached(s, x)) /\ Thrifty(s, CheckpointCleared(s, x))
                     /\ Thrifty(s, CapRaised(s, x)) /\ Thrifty(s, RunReopened(s, x))
                     /\ Thrifty(s, TurnIntent(s, x)) /\ Thrifty(s, TurnCompleted(s, x))
           /\ \A t, n : Thrifty(s, TurnDiscarded(s, t, n))
<1>1. Thrifty(s, RubricEvaluated(s)) /\ Thrifty(s, RunResumed(s)) /\ Thrifty(s, RunEnqueued(s))
  BY DEF Thrifty, RunState, RubricEvaluated, RunResumed, RunEnqueued
<1>2. ASSUME NEW x
      PROVE  /\ Thrifty(s, RunFinished(s, x)) /\ Thrifty(s, RunPaused(s, x))
             /\ Thrifty(s, CheckpointReached(s, x)) /\ Thrifty(s, CheckpointCleared(s, x))
  BY DEF Thrifty, RunState, RunFinished, RunPaused, CheckpointReached, CheckpointCleared
<1>3. ASSUME NEW x
      PROVE  /\ Thrifty(s, CapRaised(s, x)) /\ Thrifty(s, RunReopened(s, x))
             /\ Thrifty(s, TurnIntent(s, x)) /\ Thrifty(s, TurnCompleted(s, x))
  BY DEF Thrifty, RunState, CapRaised, RunReopened, TurnIntent, TurnCompleted
<1>4. ASSUME NEW t, NEW n
      PROVE  Thrifty(s, TurnDiscarded(s, t, n))
  BY DEF Thrifty, RunState, TurnDiscarded
<1> QED BY <1>1, <1>2, <1>3, <1>4

LEMMA VerbsFrugal ==
    ASSUME NEW v \in Vault
    PROVE  /\ \A x : /\ Frugal(v, Pause(v, x)) /\ Frugal(v, RaiseCap(v, x))
                     /\ Frugal(v, Reopen(v, x)) /\ Frugal(v, Resolved(v, x))
                     /\ Frugal(v, [v EXCEPT !.run = TurnIntent(v.run, x)])
           /\ Frugal(v, Resume(v)) /\ Frugal(v, Continue(v)) /\ Frugal(v, NeedsAttention(v))
           /\ Frugal(v, [v EXCEPT !.run = RunEnqueued(v.run)])
<1>1. ASSUME NEW x
      PROVE  Frugal(v, Resolved(v, x))
  BY DEF Vault, Resolved, Frugal, Thrifty
<1>2. v.run \in RunState
  BY RunOf
<1> QED BY <1>1, <1>2, JournalThrifty, FrugalRun
        DEF Pause, RaiseCap, Reopen, Resume, Continue, NeedsAttention

LEMMA PlanningFrugal ==
    ASSUME NEW v \in Vault
    PROVE  /\ Frugal(v, RubricGate(v)) /\ Frugal(v, CapTransition(v)) /\ Frugal(v, Planned(v))
           /\ Frugal(v, MaybeCheckpoint(v))
<1>1. v.run \in RunState
  BY RunOf
<1>2. Frugal(v, RubricGate(v))
  BY <1>1, JournalThrifty, FrugalRun, FrugalSelf DEF RubricGate
<1>3. Frugal(v, CapTransition(v)) /\ Frugal(v, Planned(v))
  BY <1>1, JournalThrifty, FrugalRun, FrugalSelf DEF CapTransition, Planned
<1>4. MaybeCheckpoint(v) = v \/ \E b : MaybeCheckpoint(v) = [v EXCEPT !.run = CheckpointReached(v.run, b)]
  BY DEF MaybeCheckpoint
<1>5. Frugal(v, MaybeCheckpoint(v))
  BY <1>1, <1>4, JournalThrifty, FrugalRun, FrugalSelf
<1> QED BY <1>2, <1>3, <1>5

LEMMA FinalizeFrugal == ASSUME NEW v \in Vault PROVE Frugal(v, Finalize(v))
<1> DEFINE w == RubricGate(Derived(v, v.run.done))
<1>1. Frugal(v, w) /\ w \in Vault
  <2>1. Derived(v, v.run.done) \in Vault /\ Derived(v, v.run.done).run = v.run
    BY DerivedKeeps DEF Keeps, Grows, Extends
  <2> QED BY <2>1, PlanningFrugal, RubricGateKeeps DEF Keeps, Grows, Extends, Frugal
<1>2. Finalize(v) = v \/ \E x : Finalize(v) = [w EXCEPT !.run = RunFinished(w.run, x)]
  BY DEF Finalize
<1> HIDE DEF w
<1>3. ASSUME NEW x
      PROVE  Frugal(v, [w EXCEPT !.run = RunFinished(w.run, x)])
  BY <1>1, RunOf, JournalThrifty, FrugalRun, FrugalOn
<1> QED BY <1>2, <1>3, FrugalSelf

LEMMA BookedCharges ==
    ASSUME NEW v \in Vault, NEW t \in Turns, NEW call \in Call
    PROVE  Booked(v, t, call).run.spend = v.run.spend + Cost(call)
<1>1. v.run \in RunState /\ v.run.spend \in Nat
  BY RunOf DEF RunState
<1>2. SpendRecorded(v.run, t, call.cost).spend = v.run.spend + call.cost
  BY <1>1 DEF SpendRecorded, RunState
<1> QED BY <1>1, <1>2, RunPart DEF Booked, Cost

LEMMA RecordedCharges ==
    ASSUME NEW v \in Vault, NEW t \in Turns, NEW call \in Call, call.out \in Outputs,
           NEW x \in RecordTorn(v, t, call) \cup {Recorded(v, t, call)}
    PROVE  Charges(v, x, call)
<1> DEFINE s == Sealed(v, t, call)
           o == GatesOpen(v, t, call)
           p == Paid(v, t, call)
           c == Completed(v, t, call)
           z == Scored(v, t, call)
           f == Finalize(z)
<1>1. s \in Vault /\ s.run = v.run
  BY DEF Sealed, Vault
<1>2. o \in Vault /\ o.run = v.run
  BY <1>1, DerivedKeeps DEF GatesOpen, Keeps, Grows, Extends
<1>3. p \in Vault /\ p.run.spend = v.run.spend + Cost(call)
  BY <1>2, BookedKeeps, BookedCharges DEF Paid
<1>4. c \in Vault /\ c.run.spend = p.run.spend
  <2>1. c = [p EXCEPT !.run = TurnCompleted(p.run, t)]
    BY DEF Completed
  <2> HIDE DEF p
  <2>2. c.run = TurnCompleted(p.run, t) /\ p.run \in RunState /\ c \in Vault
    BY <1>3, <2>1, RunPart, RunOf, CompletedGrows DEF Grows, Extends
  <2> QED BY <2>2, JournalThrifty DEF Thrifty
<1>5. z \in Vault /\ z.run.spend = p.run.spend
  BY <1>4, PlanningFrugal, RubricGateKeeps DEF Scored, Keeps, Grows, Extends, Frugal, Thrifty
<1> HIDE DEF s, o, p, c, z
<1>6. f \in Vault /\ f.run.spend = p.run.spend
  BY <1>5, FinalizeFrugal, FinalizeKeeps DEF Keeps, Grows, Extends, Frugal, Thrifty
<1> HIDE DEF f
<1>7. /\ CapTransition(z).run.spend = p.run.spend
      /\ MaybeCheckpoint(f).run.spend = p.run.spend
  BY <1>5, <1>6, PlanningFrugal DEF Frugal, Thrifty
<1>8. x \in GatesBegun(v, t, call)
              \cup {p, c, z, f, CapTransition(z), MaybeCheckpoint(f)}
  BY DEF RecordTorn, Recorded, p, c, z, f
<1>9. \A y \in GatesBegun(v, t, call) : y.run = v.run
  BY GatesBegunKeeps
<1> QED BY <1>3, <1>4, <1>5, <1>6, <1>7, <1>8, <1>9 DEF Charges

LEMMA RecordCharges ==
    ASSUME NEW v \in Vault, NEW t \in Turns, NEW call \in Call,
           NEW x \in TornRecord(v, t, call) \cup {RecordTurn(v, t, call)}
    PROVE  Charges(v, x, call)
<1> DEFINE b == Booked(v, t, call)
           a == Attempted(v, t, call)
<1>1. b \in Vault /\ b.run \in RunState /\ b.run.spend = v.run.spend + Cost(call)
  BY BookedKeeps, BookedCharges, RunOf
<1>2. a \in Vault /\ a.run.spend = b.run.spend
  <2>1. a = [b EXCEPT !.run = TurnDiscarded(b.run, t, b.run.discarded[t] + 1)]
    BY DEF Attempted
  <2>2. b.run.discarded[t] + 1 \in Nat
    BY <1>1 DEF RunState
  <2>3. TurnDiscarded(b.run, t, b.run.discarded[t] + 1) \in RunState
    BY <1>1, <2>2 DEF TurnDiscarded, RunState
  <2> HIDE DEF a, b
  <2>4. a \in Vault
    BY <1>1, <2>1, <2>3 DEF Vault
  <2>5. Frugal(b, a)
    BY <1>1, <2>1, JournalThrifty, FrugalRun
  <2> QED BY <2>4, <2>5 DEF Frugal, Thrifty
<1>3. CASE t \in v.run.done
  <2>1. x = b \/ x = Finalize(b)
    BY <1>3 DEF TornRecord, RecordTurn, Replayed
  <2> HIDE DEF b
  <2> QED BY <1>1, <2>1, FinalizeFrugal DEF Charges, Frugal, Thrifty
<1>4. CASE t \notin v.run.done /\ call.out = Invalid
  <2>1. x = b \/ x = a \/ x = [a EXCEPT !.run = RunFinished(a.run, "needs_attention")]
    BY <1>4 DEF TornRecord, RecordTurn, DiscardTorn, Discarded
  <2> HIDE DEF a, b
  <2>2. Frugal(a, [a EXCEPT !.run = RunFinished(a.run, "needs_attention")])
    BY <1>2, RunOf, JournalThrifty, FrugalRun
  <2> QED BY <1>1, <1>2, <2>1, <2>2 DEF Charges, Frugal, Thrifty
<1>5. CASE t \notin v.run.done /\ call.out # Invalid
  <2>1. call.out \in Outputs
    BY <1>5 DEF Call
  <2>2. x \in RecordTorn(v, t, call) \cup {Recorded(v, t, call)}
    BY <1>5 DEF TornRecord, RecordTurn
  <2> QED BY <2>1, <2>2, RecordedCharges
<1> QED BY <1>3, <1>4, <1>5

-----------------------------------------------------------------------------
(* The ways a step moves a worker, from worker[w] to r, and money with it. *)

Away(r)   == r.pc \notin {"prompt", "call", "calling", "record"}
Flying(r) == r.pc \in {"call", "calling", "record"}

Still == Frugal(vault, vault') /\ paid' = paid

Quits(w, r)    == Still /\ Away(r)
Reserves(w, r) == Still /\ r.pc = "prompt" /\ vault'.run.pending # {}
Starts(w, r) ==
    /\ Still
    /\ worker[w].pc = "prompt" /\ r.pc = "call"
    /\ Projected(vault'.run) < vault'.run.cap
Calls(w, r) == Still /\ worker[w].pc = "call" /\ r.pc = "calling"
Hears(w, r) ==
    /\ Frugal(vault, vault')
    /\ worker[w].pc = "calling"
    /\ \E call \in Call : /\ paid' = paid + call.cost
                          /\ Away(r) \/ (r.pc = "record" /\ r.call = call)
Books(w, r) ==
    /\ Charges(vault, vault', worker[w].call) /\ paid' = paid
    /\ worker[w].pc = "record" /\ worker[w].call \in Call
    /\ Away(r)

Moves(w) ==
    \E r : /\ worker' = [worker EXCEPT ![w] = r]
           /\ \/ Quits(w, r) \/ Reserves(w, r) \/ Starts(w, r) \/ Calls(w, r)
              \/ Hears(w, r) \/ Books(w, r)

LEMMA QuitsAt ==
    ASSUME IInv, Still, NEW w \in Workers,
           NEW pc \in {"start", "resume", "plan", "intent", "beat", "seat", "handback", "fatal",
                       "poison", "closing", "complete"},
           Goto(w, pc) \/ worker' = [worker EXCEPT ![w].pc = pc, ![w].call = NoCall]
    PROVE  Moves(w)
<1>1. worker[w] \in Worker /\ worker \in [Workers -> Worker]
  BY DEF IInv, WorkersReady
<1>2. /\ Away([worker[w] EXCEPT !.pc = pc])
      /\ Away([worker[w] EXCEPT !.pc = pc, !.call = NoCall])
  BY <1>1 DEF Away, Worker
<1>3. \/ worker' = [worker EXCEPT ![w] = [worker[w] EXCEPT !.pc = pc]]
      \/ worker' = [worker EXCEPT ![w] = [worker[w] EXCEPT !.pc = pc, !.call = NoCall]]
  BY <1>1 DEF Goto
<1> QED BY <1>2, <1>3 DEF Moves, Quits

LEMMA QuitsRest ==
    ASSUME Still, NEW w \in Workers, Leave(w) PROVE Moves(w)
<1>1. Away(Resting)
  BY DEF Away, Resting
<1> QED BY <1>1 DEF Moves, Quits, Leave

LEMMA AnswerMoves ==
    ASSUME IInv, NEW w \in Workers, NEW call \in Call, Answer(w, call) PROVE Moves(w)
<1>1. /\ worker[w] \in Worker /\ worker \in [Workers -> Worker]
      /\ worker[w].pc = "calling" /\ paid' = paid + call.cost /\ Frugal(vault, vault')
  BY FrugalSelf DEF IInv, WorkersReady, Answer, At
<1>2. CASE Leave(w)
  <2>1. Away(Resting)
    BY DEF Away, Resting
  <2> QED BY <1>1, <1>2, <2>1 DEF Moves, Hears, Leave
<1>3. CASE worker' = [worker EXCEPT ![w].pc = "record", ![w].call = call]
  <2>1. PICK r : r = [worker[w] EXCEPT !.pc = "record", !.call = call]
    OBVIOUS
  <2>2. r.pc = "record" /\ r.call = call
    BY <1>1, <2>1 DEF Worker
  <2>3. worker' = [worker EXCEPT ![w] = r]
    BY <1>1, <1>3, <2>1
  <2>4. Hears(w, r)
    BY <1>1, <2>2 DEF Hears
  <2> QED BY <2>3, <2>4 DEF Moves
<1> QED BY <1>2, <1>3 DEF Answer

LEMMA BookingMoves ==
    ASSUME IInv, NEW w \in Workers, At(w, "record"), ~Refused(w), paid' = paid,
           vault' \in TornRecord(vault, Turn(w), worker[w].call)
                      \cup {RecordTurn(vault, Turn(w), worker[w].call)},
           \/ Leave(w)
           \/ worker' = [worker EXCEPT ![w].pc = "beat", ![w].call = NoCall]
    PROVE  Moves(w)
<1>1. /\ worker[w] \in Worker /\ worker \in [Workers -> Worker] /\ vault \in Vault
      /\ worker[w].pc = "record"
  BY DEF IInv, WorkersReady, At
<1>2. Turn(w) \in Turns /\ worker[w].call \in Call
  BY RecordingReady
<1>3. Charges(vault, vault', worker[w].call)
  BY <1>1, <1>2, RecordCharges
<1>4. Away(Resting) /\ Away([worker[w] EXCEPT !.pc = "beat", !.call = NoCall])
  BY <1>1 DEF Away, Resting, Worker
<1>5. \/ worker' = [worker EXCEPT ![w] = Resting]
      \/ worker' = [worker EXCEPT ![w] = [worker[w] EXCEPT !.pc = "beat", !.call = NoCall]]
  BY <1>1 DEF Leave
<1> QED BY <1>1, <1>2, <1>3, <1>4, <1>5 DEF Moves, Books

LEMMA DriveMoves == ASSUME IInv, NEW w \in Workers, Drive(w) PROVE Moves(w)
<1>0. /\ worker[w] \in Worker /\ worker \in [Workers -> Worker] /\ vault \in Vault
      /\ vault.run \in RunState
  BY RunOf DEF IInv, WorkersReady
<1>1. CASE Take(w)
  <2>1. PICK r : r = [Resting EXCEPT !.pc = "start", !.tries = queue[RunItem].attempts + 1]
    OBVIOUS
  <2>2. r.pc = "start"
    BY <2>1 DEF Resting
  <2>3. worker' = [worker EXCEPT ![w] = r]
    BY <1>1, <2>1 DEF Take
  <2>4. Quits(w, r)
    BY <1>1, <2>2, FrugalSelf DEF Take, Unbilled, Quits, Still, Away
  <2> QED BY <2>3, <2>4 DEF Moves
<1>2. CASE Start(w)
  <2>1. Still
    BY <1>2, FrugalSelf DEF Start, Unbilled, Still
  <2> QED BY <1>2, <2>1, QuitsAt DEF Start
<1>3. CASE Reawaken(w)
  <2>1. Still
    BY <1>0, <1>3, FrugalSelf, VerbsFrugal DEF Reawaken, Unbilled, Still
  <2> QED BY <1>3, <2>1, QuitsAt DEF Reawaken
<1>4. CASE PlanNext(w)
  <2>1. Still
    BY <1>0, <1>4, PlanningFrugal DEF PlanNext, Unbilled, Still
  <2>2. PICK pc : pc = IF Plan(vault') = {} THEN "closing" ELSE "intent"
    OBVIOUS
  <2>3. PICK r : r = [worker[w] EXCEPT !.pc = pc, !.turn = NextTurn(vault')]
    OBVIOUS
  <2>4. r.pc = pc /\ pc \in {"closing", "intent"}
    BY <1>0, <2>2, <2>3 DEF Worker
  <2>5. worker' = [worker EXCEPT ![w] = r]
    BY <1>0, <1>4, <2>2, <2>3 DEF PlanNext
  <2>6. Quits(w, r)
    BY <2>1, <2>4 DEF Quits, Away
  <2> QED BY <2>5, <2>6 DEF Moves
<1>5. CASE Intend(w)
  <2>1. vault' = [vault EXCEPT !.run = TurnIntent(vault.run, Turn(w))] /\ paid' = paid
    BY <1>5 DEF Intend, Unbilled
  <2>2. Still
    BY <1>0, <2>1, VerbsFrugal DEF Still
  <2>3. vault'.run.pending # {}
    <3>1. vault'.run = TurnIntent(vault.run, Turn(w))
      BY <1>0, <2>1, RunPart
    <3> QED BY <1>0, <3>1 DEF TurnIntent, RunState
  <2>4. PICK r : r = [worker[w] EXCEPT !.pc = "prompt"]
    OBVIOUS
  <2>5. r.pc = "prompt" /\ worker' = [worker EXCEPT ![w] = r]
    BY <1>0, <1>5, <2>4 DEF Intend, Goto, Worker
  <2> QED BY <2>2, <2>3, <2>5 DEF Moves, Reserves
<1>6. CASE Prompt(w)
  <2>1. Still /\ vault' = Planned(vault)
    BY <1>0, <1>6, PlanningFrugal DEF Prompt, Unbilled, Still
  <2>2. CASE Turn(w) \in Plan(vault')
    <3>1. vault'.run.status = "running"
      BY <2>2 DEF Plan
    <3>2. ~OverCap(vault'.run)
      <4>1. ASSUME vault.run.status = "running", OverCap(vault.run)
            PROVE  FALSE
        <5>1. vault' = [vault EXCEPT !.run = RunFinished(vault.run, "capped")]
          BY <2>1, <4>1 DEF Planned, CapTransition
        <5>2. vault'.run = RunFinished(vault.run, "capped")
          BY <1>0, <5>1, RunPart
        <5>3. vault'.run.status = "capped"
          BY <1>0, <5>2 DEF RunFinished, RunState
        <5> QED BY <3>1, <5>3
      <4> QED BY <2>1, <3>1, <4>1 DEF Planned
    <3>3. vault'.run \in RunState /\ IsFiniteSet(vault'.run.pending)
      <4>1. vault' \in Vault
        BY <1>0, <2>1, PlannedKeeps DEF Keeps, Grows, Extends
      <4>2. vault'.run \in RunState /\ vault'.run.pending \in SUBSET Turns
        BY <4>1, RunOf DEF RunState
      <4> QED BY <4>2, PlanAssumption, FS_Subset
    <3>4. Projected(vault'.run) < vault'.run.cap
      <4>1. Cardinality(vault'.run.pending) \in Nat
        BY <3>3, FS_CardinalityType
      <4>2. vault'.run.spend \in Nat /\ vault'.run.cap \in Nat
        BY <3>3 DEF RunState
      <4>3. MaxPlausible * Cardinality(vault'.run.pending) \in Nat
        BY <4>1, MoneyAssumption
      <4> QED BY <3>2, <4>2, <4>3 DEF OverCap, Projected
    <3>5. PICK r : r = [worker[w] EXCEPT !.pc = "call"]
      OBVIOUS
    <3>6. /\ r.pc = "call" /\ worker' = [worker EXCEPT ![w] = r]
          /\ worker[w].pc = "prompt"
      BY <1>0, <1>6, <2>2, <3>5 DEF Prompt, Goto, Worker, At
    <3> QED BY <2>1, <3>4, <3>6 DEF Moves, Starts
  <2>3. CASE Turn(w) \notin Plan(vault')
    BY <1>6, <2>1, <2>3, QuitsAt DEF Prompt
  <2> QED BY <2>2, <2>3
<1>7. CASE CallProvider(w)
  <2>1. Still
    BY <1>7, FrugalSelf DEF CallProvider, Unbilled, Still
  <2>2. CASE Goto(w, "calling")
    <3>1. PICK r : r = [worker[w] EXCEPT !.pc = "calling"]
      OBVIOUS
    <3>2. /\ r.pc = "calling" /\ worker' = [worker EXCEPT ![w] = r]
          /\ worker[w].pc = "call"
      BY <1>0, <1>7, <2>2, <3>1 DEF CallProvider, Goto, Worker, At
    <3> QED BY <2>1, <3>2 DEF Moves, Calls
  <2> QED BY <1>7, <2>1, <2>2, QuitsRest DEF CallProvider
<1>8. CASE GoodAnswer(w)
  BY <1>8, AnswerMoves DEF GoodAnswer
<1>9. CASE Record(w)
  <2>1. CASE Refused(w)
    <3>1. Still
      BY <1>9, <2>1, FrugalSelf DEF Record, Unbilled, Still
    <3> QED BY <1>9, <2>1, <3>1, QuitsAt DEF Record
  <2>2. CASE ~Refused(w)
    BY <1>9, <2>2, BookingMoves DEF Record, Unbilled
  <2> QED BY <2>1, <2>2
<1>10. CASE Beat(w)
  <2>1. Still
    BY <1>10, FrugalSelf DEF Beat, Unbilled, Still
  <2>2. CASE worker' = [worker EXCEPT ![w].pc = "plan", ![w].turn = NoTurn]
    <3>1. PICK r : r = [worker[w] EXCEPT !.pc = "plan", !.turn = NoTurn]
      OBVIOUS
    <3>2. r.pc = "plan" /\ worker' = [worker EXCEPT ![w] = r]
      BY <1>0, <2>2, <3>1 DEF Worker
    <3> QED BY <2>1, <3>2 DEF Moves, Quits, Away
  <2> QED BY <1>10, <2>1, <2>2, QuitsRest DEF Beat
<1>11. CASE PauseForCapacity(w)
  <2>1. Still
    BY <1>0, <1>11, FrugalSelf, VerbsFrugal DEF PauseForCapacity, Unbilled, Still
  <2> QED BY <1>11, <2>1, QuitsAt DEF PauseForCapacity
<1>12. CASE HandBack(w) \/ BackOff(w) \/ Drop(w)
  <2>1. Still /\ Leave(w)
    BY <1>12, FrugalSelf DEF HandBack, BackOff, Drop, Unbilled, Still
  <2> QED BY <2>1, QuitsRest
<1>13. CASE Fail(w) \/ DeadLetter(w) \/ Close(w)
  <2>1. Still /\ Goto(w, "complete")
    BY <1>0, <1>13, VerbsFrugal, FinalizeFrugal DEF Fail, DeadLetter, Close, Unbilled, Still
  <2> QED BY <2>1, QuitsAt
<1> QED BY <1>1, <1>2, <1>3, <1>4, <1>5, <1>6, <1>7, <1>8, <1>9, <1>10, <1>11, <1>12, <1>13
        DEF Drive

LEMMA MisfortuneMoves == ASSUME IInv, NEW w \in Workers, Misfortune(w) PROVE Moves(w)
<1>1. CASE BadAnswer(w)
  BY <1>1, AnswerMoves DEF BadAnswer
<1>2. CASE ProviderError(w)
  <2>1. Still
    BY <1>2, FrugalSelf DEF ProviderError, Still
  <2> QED BY <1>2, <2>1, QuitsAt, QuitsRest DEF ProviderError
<1>3. CASE RecordCrash(w)
  BY <1>3, BookingMoves DEF RecordCrash
<1>4. CASE Shutdown(w) \/ Crash(w)
  <2>1. Still /\ Leave(w)
    BY <1>4, FrugalSelf DEF Shutdown, Crash, Still
  <2> QED BY <2>1, QuitsRest
<1>5. CASE Contend(w)
  <2>1. Still
    BY <1>5, FrugalSelf DEF Contend, Still
  <2> QED BY <1>5, <2>1, QuitsAt DEF Contend
<1> QED BY <1>1, <1>2, <1>3, <1>4, <1>5 DEF Misfortune

LEMMA OutsideMoney ==
    ASSUME IInv, Deliver \/ DeliverCrash \/ ComeDue \/ LoseLease \/ OperatorStep
    PROVE  Still /\ worker' = worker
<1>0. vault \in Vault
  BY DEF IInv
<1>1. paid' = paid /\ worker' = worker
  BY DEF Deliver, DeliverCrash, ComeDue, LoseLease, OperatorStep, OperatorPause,
         OperatorResume, OperatorContinue, OperatorRaiseCap, OperatorReopen, Resolve,
         ResolveAgain, Elsewhere, Unbilled
<1>2. CASE Deliver
  BY <1>0, <1>1, <1>2, VerbsFrugal DEF Deliver, Still
<1>3. CASE DeliverCrash \/ ComeDue \/ LoseLease
  BY <1>1, <1>3, FrugalSelf DEF DeliverCrash, ComeDue, LoseLease, Still
<1>4. CASE OperatorPause \/ OperatorResume \/ OperatorContinue
  BY <1>0, <1>1, <1>4, VerbsFrugal
     DEF OperatorPause, OperatorResume, OperatorContinue, Operator, Still
<1>5. CASE OperatorRaiseCap \/ OperatorReopen
  BY <1>0, <1>1, <1>5, VerbsFrugal DEF OperatorRaiseCap, OperatorReopen, Operator, Still
<1>6. CASE Resolve
  <2>1. PICK g : \/ vault' = Finalize(Resolved(vault, g))
                 \/ vault' = Resolved(vault, g)
    BY <1>6 DEF Resolve, Operator
  <2>2. Frugal(vault, Resolved(vault, g)) /\ Resolved(vault, g) \in Vault
    BY <1>0, VerbsFrugal, ResolvedKeeps DEF Keeps, Grows, Extends
  <2> QED BY <1>1, <2>1, <2>2, FinalizeFrugal, FrugalOn DEF Still
<1>7. CASE ResolveAgain
  BY <1>0, <1>1, <1>7, FinalizeFrugal DEF ResolveAgain, Still
<1> QED BY <1>1, <1>2, <1>3, <1>4, <1>5, <1>6, <1>7 DEF OperatorStep

LEMMA MoneyStep ==
    ASSUME IInv, [Next]_vars
    PROVE  (Still /\ worker' = worker) \/ \E w \in Workers : Moves(w)
<1>1. CASE UNCHANGED vars
  BY <1>1, FrugalSelf DEF vars, Still
<1> QED BY <1>1, DriveMoves, MisfortuneMoves, OutsideMoney DEF Next

-----------------------------------------------------------------------------
(* The ledger against the bill.  Worker e[i] is about to book h[i]; q[i] is the ledger *)
(* with what the first i workers hold, and the last of them is within the bill.        *)

Held(r) == IF r.pc = "record" THEN Cost(r.call) ELSE 0

Covered(k, h, spend, bill) ==
    \E q \in [0 .. k -> Int] :
        /\ q[0] = spend
        /\ \A i \in 1 .. k : q[i] = q[i-1] + h[i]
        /\ \A i, j \in 0 .. k : i <= j => q[i] <= q[j]
        /\ q[k] <= bill

LEMMA CoveredSpend ==
    ASSUME NEW k \in Nat, NEW h, NEW spend \in Int, NEW bill \in Int, Covered(k, h, spend, bill)
    PROVE  spend <= bill
<1>1. PICK q \in [0 .. k -> Int] :
        /\ q[0] = spend
        /\ \A i, j \in 0 .. k : i <= j => q[i] <= q[j]
        /\ q[k] <= bill
  BY DEF Covered
<1>2. q[0] <= q[k] /\ q[0] \in Int /\ q[k] \in Int
  BY <1>1
<1> QED BY <1>1, <1>2

\* The ledger moves by d, and with what the worker holds, first m then n, by x.
Trade(m, n, d, x) == m + x = n + d

Shifts(s, z, b, c, m, n) ==
    \E d, x \in Int : s + d = z /\ x + b <= c /\ Trade(m, n, d, x)

LEMMA Difference ==
    ASSUME NEW s \in Int, NEW z \in Int, NEW b \in Int, NEW c \in Int,
           NEW m \in Nat, NEW n \in Nat, z + n + b <= s + m + c
    PROVE  Shifts(s, z, b, c, m, n)
<1>1. PICK d \in Int : d = z - s
  OBVIOUS
<1>2. PICK x \in Int : x = d + (n - m)
  OBVIOUS
<1>3. s + d = z /\ m + x = n + d
  BY <1>1, <1>2
<1>4. x + b <= c
  BY <1>3
<1> QED BY <1>3, <1>4 DEF Shifts, Trade

Adds(a, m, b) == b = a + m

Under(p, q) == p \in Int /\ q \in Int /\ p <= q

LEMMA Traded ==
    ASSUME NEW m \in Nat, NEW n \in Nat, NEW d \in Int, NEW x \in Int, Trade(m, n, d, x),
           NEW p \in Int, NEW q \in Int, Adds(p, m, q)
    PROVE  Adds(p + d, n, q + x) /\ Under(p + d, q + x)
  BY DEF Trade, Adds, Under

LEMMA Shifted ==
    ASSUME NEW p, NEW q, NEW d \in Int, Under(p, q)
    PROVE  Under(p + d, q + d)
  BY DEF Under

LEMMA UnderOn == ASSUME NEW p, NEW q, NEW u, Under(p, q), Under(q, u) PROVE Under(p, u)
  BY DEF Under

\* One worker's holding changes by no more than the ledger and the bill allow.
AllBut(k, j, h, g) == \A i \in 1 .. k : i # j => g[i] = h[i]

LEMMA CoveredShift ==
    ASSUME NEW k \in Nat, NEW j \in 1 .. k,
           NEW h \in [1 .. k -> Nat], NEW g \in [1 .. k -> Nat], AllBut(k, j, h, g),
           NEW s \in Int, NEW z \in Int, NEW b \in Int, NEW c \in Int,
           Shifts(s, z, b, c, h[j], g[j]),
           Covered(k, h, s, b)
    PROVE  Covered(k, g, z, c)
<1>1. PICK q \in [0 .. k -> Int] :
        /\ q[0] = s
        /\ \A i \in 1 .. k : q[i] = q[i-1] + h[i]
        /\ \A m, n \in 0 .. k : m <= n => q[m] <= q[n]
        /\ q[k] <= b
  BY DEF Covered
<1>2. /\ \A i \in 1 .. k : h[i] \in Nat /\ g[i] \in Nat
      /\ j \in Nat /\ 1 <= j /\ j <= k
  OBVIOUS
<1>3. PICK hj \in Nat, gj \in Nat : hj = h[j] /\ gj = g[j]
  BY <1>2
<1>4. PICK d \in Int, x \in Int : s + d = z /\ x + b <= c /\ Trade(hj, gj, d, x)
  BY <1>3 DEF Shifts
<1>5. PICK u \in [0 .. k -> Int] :
        /\ \A i \in 0 .. k : i < j => u[i] = q[i] + d
        /\ \A i \in 0 .. k : i >= j => u[i] = q[i] + x
  <2>1. PICK u : u = [i \in 0 .. k |-> IF i < j THEN q[i] + d ELSE q[i] + x]
    OBVIOUS
  <2>2. u \in [0 .. k -> Int] /\ \A i \in 0 .. k : u[i] = IF i < j THEN q[i] + d ELSE q[i] + x
    <3>1. ASSUME NEW i \in 0 .. k
          PROVE  (IF i < j THEN q[i] + d ELSE q[i] + x) \in Int
      <4>1. q[i] \in Int
        OBVIOUS
      <4>2. q[i] + d \in Int /\ q[i] + x \in Int
        BY <4>1
      <4> QED BY <4>2
    <3> QED BY <2>1, <3>1
  <2>3. \A i \in 0 .. k : i \in Int
    OBVIOUS
  <2>4. \A i \in 0 .. k : i >= j => ~(i < j)
    BY <1>2, <2>3
  <2> QED BY <2>2, <2>4
<1>6. u[0] = z
  <2>1. 0 \in 0 .. k /\ 0 < j
    BY <1>2
  <2> QED BY <1>1, <1>4, <1>5, <2>1
<1>7. ASSUME NEW i \in 1 .. k
      PROVE  u[i] = u[i-1] + g[i]
  <2>1. /\ i \in Int /\ i-1 \in 0 .. k /\ i \in 0 .. k
    OBVIOUS
  <2>2. q[i] = q[i-1] + h[i] /\ q[i-1] \in Int /\ q[i] \in Int /\ h[i] \in Nat /\ g[i] \in Nat
    BY <1>1, <1>2, <2>1
  <2>3. CASE i < j
    <3>1. i-1 < j /\ i # j
      BY <1>2, <2>1, <2>3
    <3>2. u[i] = q[i] + d /\ u[i-1] = q[i-1] + d /\ g[i] = h[i]
      BY <1>5, <2>1, <2>3, <3>1 DEF AllBut
    <3> QED BY <2>2, <3>2, SMTT(20)
  <2>4. CASE i = j
    <3>1. i-1 < j /\ i >= j
      BY <1>2, <2>1, <2>4
    <3>2. u[i] = q[i] + x /\ u[i-1] = q[i-1] + d
      BY <1>5, <2>1, <3>1
    <3>3. q[i] = q[i-1] + hj /\ g[i] = gj
      BY <1>3, <2>2, <2>4
    <3>4. q[i] + x = (q[i-1] + d) + gj
      <4>1. Adds(q[i-1], hj, q[i])
        BY <3>3 DEF Adds
      <4>2. Adds(q[i-1] + d, gj, q[i] + x)
        BY <1>4, <2>2, <4>1, Traded
      <4> QED BY <4>2 DEF Adds
    <3> QED BY <3>2, <3>3, <3>4
  <2>5. CASE i > j
    <3>1. i-1 >= j /\ i >= j /\ i # j
      BY <1>2, <2>1, <2>5
    <3>2. u[i] = q[i] + x /\ u[i-1] = q[i-1] + x /\ g[i] = h[i]
      BY <1>5, <2>1, <3>1 DEF AllBut
    <3> QED BY <2>2, <3>2, SMTT(20)
  <2> QED BY <1>2, <2>1, <2>3, <2>4, <2>5
<1>8. ASSUME NEW m \in 0 .. k, NEW n \in 0 .. k, m <= n
      PROVE  u[m] <= u[n]
  <2>0. m \in Int /\ n \in Int
    OBVIOUS
  <2>1. q[m] \in Int /\ q[n] \in Int /\ q[m] <= q[n]
    BY <1>1, <1>8
  <2>2. CASE n < j
    <3>1. m < j
      BY <1>2, <1>8, <2>0, <2>2
    <3>2. u[m] = q[m] + d /\ u[n] = q[n] + d
      BY <1>5, <2>2, <3>1
    <3> QED BY <2>1, <3>2
  <2>3. CASE m >= j
    <3>1. n >= j
      BY <1>2, <1>8, <2>0, <2>3
    <3>2. u[m] = q[m] + x /\ u[n] = q[n] + x
      BY <1>5, <2>3, <3>1
    <3> QED BY <2>1, <3>2
  <2>4. CASE m < j /\ n >= j
    <3>1. j-1 \in 0 .. k /\ j \in 0 .. k /\ j \in 1 .. k /\ m <= j-1
      BY <1>2, <2>0, <2>4
    <3>2. q[m] <= q[j-1] /\ q[j] = q[j-1] + h[j] /\ q[j] <= q[n]
      BY <1>1, <2>4, <3>1
    <3>3. u[m] = q[m] + d /\ u[n] = q[n] + x
      BY <1>5, <2>4
    <3>4. q[j] \in Int /\ q[j-1] \in Int /\ q[j] = q[j-1] + hj
      BY <1>1, <1>3, <3>1, <3>2
    <3>5. q[m] + d <= q[n] + x
      <4>1. Adds(q[j-1], hj, q[j])
        BY <3>4 DEF Adds
      <4>2. Under(q[j-1] + d, q[j] + x)
        BY <1>4, <3>4, <4>1, Traded
      <4>3. Under(q[m], q[j-1]) /\ Under(q[j], q[n])
        BY <2>1, <3>2, <3>4 DEF Under
      <4>4. Under(q[m] + d, q[j-1] + d) /\ Under(q[j] + x, q[n] + x)
        BY <4>3, Shifted
      <4>5. Under(q[m] + d, q[n] + x)
        BY <4>2, <4>4, UnderOn
      <4> QED BY <4>5 DEF Under
    <3> QED BY <3>3, <3>5
  <2> QED BY <1>2, <2>0, <2>2, <2>3, <2>4
<1>9. u[k] <= c
  <2>1. k \in 0 .. k /\ k >= j
    BY <1>2
  <2>2. u[k] = q[k] + x /\ q[k] \in Int /\ q[k] <= b
    BY <1>1, <1>5, <2>1
  <2>3. q[k] + x <= c
    BY <1>4, <2>2, SMTT(20)
  <2> QED BY <2>2, <2>3
<1> QED BY <1>6, <1>7, <1>8, <1>9 DEF Covered

\* What the workers of a roll e hold.
Holdings(k, e) == [i \in 1 .. k |-> Held(worker[e[i]])]

Ledger ==
    \E k \in Nat : \E e \in Bijection(1 .. k, Workers) :
        Covered(k, Holdings(k, e), vault.run.spend, paid)

LEMMA HeldNat ==
    ASSUME IInv
    PROVE  \A w \in Workers : Held(worker[w]) \in Nat
<1>1. ASSUME NEW w \in Workers
      PROVE  Held(worker[w]) \in Nat
  <2>1. worker[w].pc = "record" => worker[w].call \in Call
    BY DEF IInv, WorkersReady, Ready
  <2> QED BY <2>1, CostsBounded DEF Held
<1> QED BY <1>1

\* A step moves one worker, and bills what it puts on the ledger or in that worker's hand.
LEMMA MovesCovered ==
    ASSUME IInv, IInv', NEW w \in Workers, Moves(w)
    PROVE  /\ \A u \in Workers \ {w} : worker'[u] = worker[u]
           /\ vault'.run.spend + Held(worker'[w]) + paid
                <= vault.run.spend + Held(worker[w]) + paid'
<1>1. PICK r : /\ worker' = [worker EXCEPT ![w] = r]
               /\ \/ Quits(w, r) \/ Reserves(w, r) \/ Starts(w, r) \/ Calls(w, r)
                  \/ Hears(w, r) \/ Books(w, r)
  BY DEF Moves
<1>2. /\ worker'[w] = r /\ \A u \in Workers \ {w} : worker'[u] = worker[u]
      /\ worker \in [Workers -> Worker]
  BY <1>1 DEF IInv, WorkersReady
<1>3. /\ vault.run.spend \in Nat /\ paid \in Nat /\ Held(worker[w]) \in Nat
      /\ vault'.run.spend \in Nat /\ paid' \in Nat
  BY RunOf, HeldNat DEF IInv, Counters, RunState
<1>4. CASE Quits(w, r) \/ Reserves(w, r) \/ Starts(w, r) \/ Calls(w, r)
  <2>1. Held(r) = 0 /\ vault'.run.spend = vault.run.spend /\ paid' = paid
    BY <1>4 DEF Quits, Reserves, Starts, Calls, Away, Held, Still, Frugal, Thrifty
  <2> QED BY <1>2, <1>3, <2>1
<1>5. CASE Hears(w, r)
  <2>1. PICK call \in Call : /\ paid' = paid + call.cost
                             /\ Away(r) \/ (r.pc = "record" /\ r.call = call)
    BY <1>5 DEF Hears
  <2>2. vault'.run.spend = vault.run.spend
    BY <1>5 DEF Hears, Frugal, Thrifty
  <2>3. Held(r) = 0 \/ Held(r) = Cost(call)
    BY <2>1 DEF Away, Held
  <2> QED BY <1>2, <1>3, <2>1, <2>2, <2>3, CostsBounded
<1>6. CASE Books(w, r)
  <2>1. /\ Held(r) = 0 /\ paid' = paid /\ Held(worker[w]) = Cost(worker[w].call)
        /\ vault'.run.spend \in {vault.run.spend, vault.run.spend + Cost(worker[w].call)}
    BY <1>6 DEF Books, Away, Held, Charges
  <2> QED BY <1>2, <1>3, <2>1
<1> QED BY <1>1, <1>2, <1>4, <1>5, <1>6

LEMMA LedgerStep == ASSUME IInv, IInv', Ledger, [Next]_vars PROVE Ledger'
<1>0. PICK k \in Nat : \E e \in Bijection(1 .. k, Workers) :
        Covered(k, Holdings(k, e), vault.run.spend, paid)
  BY DEF Ledger
<1>1. PICK e \in Bijection(1 .. k, Workers) : Covered(k, Holdings(k, e), vault.run.spend, paid)
  BY <1>0
<1>2. PICK h : h = Holdings(k, e)
  OBVIOUS
<1>3. PICK g : g = Holdings(k, e)'
  OBVIOUS
<1>4. /\ \A i \in 1 .. k : e[i] \in Workers
      /\ \A u \in Workers : \E i \in 1 .. k : e[i] = u
      /\ \A i, j \in 1 .. k : e[i] = e[j] => i = j
  BY DEF Bijection, Injection, Surjection, IsInjective
<1>5. /\ h \in [1 .. k -> Nat] /\ \A i \in 1 .. k : h[i] = Held(worker[e[i]])
      /\ \A i \in 1 .. k : g[i] = Held(worker'[e[i]])
      /\ g = [i \in 1 .. k |-> Held(worker'[e[i]])]
  BY <1>2, <1>3, <1>4, HeldNat DEF Holdings
<1>6. vault.run.spend \in Nat /\ paid \in Nat /\ vault'.run.spend \in Nat /\ paid' \in Nat
  BY RunOf DEF IInv, Counters, RunState
<1>7. Covered(k, g, vault'.run.spend, paid')
  <2>1. CASE Still /\ worker' = worker
    <3>1. g = h
      BY <1>2, <1>5, <2>1 DEF Holdings
    <3> QED BY <1>1, <1>2, <2>1, <3>1 DEF Still, Frugal, Thrifty
  <2>2. ASSUME NEW w \in Workers, Moves(w)
        PROVE  Covered(k, g, vault'.run.spend, paid')
    <3>1. PICK j \in 1 .. k : e[j] = w
      BY <1>4
    <3>2. /\ \A u \in Workers \ {w} : worker'[u] = worker[u]
          /\ vault'.run.spend + Held(worker'[w]) + paid
                <= vault.run.spend + Held(worker[w]) + paid'
      BY <2>2, MovesCovered
    <3>3. AllBut(k, j, h, g)
      BY <1>4, <1>5, <3>1, <3>2 DEF AllBut
    <3>4. vault'.run.spend + g[j] + paid <= vault.run.spend + h[j] + paid'
      BY <1>5, <3>1, <3>2
    <3>5. g \in [1 .. k -> Nat]
      <4>1. \A u \in Workers : Held(worker'[u]) \in Nat
        <5>1. ASSUME NEW u \in Workers
              PROVE  Held(worker'[u]) \in Nat
          <6>1. worker'[u].pc = "record" => worker'[u].call \in Call
            BY DEF IInv, WorkersReady, Ready
          <6> QED BY <6>1, CostsBounded DEF Held
        <5> QED BY <5>1
      <4> QED BY <1>4, <1>5, <4>1
    <3>6. PICK s \in Int, z \in Int, b \in Int, c \in Int :
            s = vault.run.spend /\ z = vault'.run.spend /\ b = paid /\ c = paid'
      BY <1>6
    <3>7. Covered(k, h, s, b) /\ Shifts(s, z, b, c, h[j], g[j])
      <4>1. PICK m \in Nat, n \in Nat : m = h[j] /\ n = g[j]
        BY <1>5, <3>5
      <4>2. z + n + b <= s + m + c
        BY <3>4, <3>6, <4>1
      <4> QED BY <1>1, <1>2, <3>6, <4>1, <4>2, Difference
    <3>8. Covered(k, g, z, c)
      BY <1>5, <3>3, <3>5, <3>7, CoveredShift
    <3> QED BY <3>6, <3>8
  <2> QED BY <2>1, <2>2, MoneyStep
<1>8. (Covered(k, Holdings(k, e), vault.run.spend, paid))'
  BY <1>3, <1>5, <1>7 DEF Holdings, Covered
<1> QED BY <1>8 DEF Ledger

-----------------------------------------------------------------------------
(* The overrun.  With n calls in flight, even at their highest, there is room for the *)
(* calls of all the other workers; and a run whose every intent is settled has a      *)
(* worker that is not on its way to a call, so that the next call leaves one behind.  *)

Room(spend, n, cap, size) == spend + MaxPlausible * n < cap + MaxPlausible * (size - 1)

LEMMA Times ==
    ASSUME NEW m \in Nat, NEW n \in Nat
    PROVE  /\ MaxPlausible * n \in Nat /\ MaxPlausible * (n + 1) = MaxPlausible * n + MaxPlausible
           /\ m <= n => MaxPlausible * m <= MaxPlausible * n
<1>1. MaxPlausible \in Nat
  BY MoneyAssumption
<1>2. PICK k \in Nat : k = MaxPlausible
  BY <1>1
<1>3. k * n \in Nat /\ k * (n + 1) = k * n + k
  BY <1>2
<1>4. ASSUME m <= n
      PROVE  k * m <= k * n
  <2>1. PICK i \in Nat : n = m + i
    <3>1. n - m \in Nat /\ n = m + (n - m)
      BY <1>4
    <3> QED BY <3>1
  <2>2. k * n = k * m + k * i /\ k * i \in Nat /\ k * m \in Nat
    BY <1>2, <2>1
  <2> QED BY <2>2
<1> QED BY <1>2, <1>3, <1>4

LEMMA RoomLeft ==
    ASSUME NEW s \in Nat, NEW n \in Nat, NEW m \in Nat, NEW c \in Nat, NEW b \in Nat,
           NEW z \in Int, Room(s, n, c, z), Under(m, n), Under(c, b)
    PROVE  Room(s, m, b, z)
<1>1. MaxPlausible * m <= MaxPlausible * n /\ MaxPlausible * m \in Nat /\ MaxPlausible * n \in Nat
  BY Times DEF Under
<1>2. MaxPlausible * (z - 1) \in Int
  BY MoneyAssumption
<1> QED BY <1>1, <1>2 DEF Room, Under

LEMMA RoomPaid ==
    ASSUME NEW s \in Nat, NEW n \in Nat, NEW m \in Nat, NEW c \in Nat, NEW z \in Nat,
           NEW u \in Nat, Room(s, m, c, z), Adds(n, 1, m), Adds(s, MaxPlausible, u)
    PROVE  Room(u, n, c, z)
<1>1. /\ MaxPlausible * (n + 1) = MaxPlausible * n + MaxPlausible
      /\ MaxPlausible * n \in Nat /\ MaxPlausible \in Nat
  BY Times, MoneyAssumption
<1>2. MaxPlausible * (z - 1) \in Int
  BY <1>1
<1>3. m = n + 1 /\ u = s + MaxPlausible
  BY DEF Adds
<1>4. s + (MaxPlausible * n + MaxPlausible) < c + MaxPlausible * (z - 1)
  BY <1>1, <1>3 DEF Room
<1> QED BY <1>1, <1>2, <1>3, <1>4 DEF Room

LEMMA RoomGrows ==
    ASSUME NEW u \in Nat, NEW t \in Nat, NEW n \in Nat, NEW c \in Nat, NEW b \in Nat,
           NEW z \in Nat, Room(u, n, c, z), Under(t, u), Under(c, b)
    PROVE  Room(t, n, b, z)
<1>1. MaxPlausible * n \in Nat /\ MaxPlausible * (z - 1) \in Int
  BY Times, MoneyAssumption
<1> QED BY <1>1 DEF Room, Under

LEMMA RoomToStart ==
    ASSUME NEW s \in Nat, NEW p \in Nat, NEW n \in Nat, NEW c \in Nat, NEW z \in Nat \ {0},
           s + MaxPlausible * p < c, n <= z, p = 0 => n < z
    PROVE  Room(s, n, c, z)
<1>1. PICK y \in Nat : z = y + 1
  <2>1. z - 1 \in Nat /\ z = (z - 1) + 1
    OBVIOUS
  <2> QED BY <2>1
<1>2. MaxPlausible \in Nat /\ z - 1 = y
  BY <1>1, MoneyAssumption
<1>3. /\ MaxPlausible * z = MaxPlausible * y + MaxPlausible /\ MaxPlausible * n \in Nat
      /\ MaxPlausible * y \in Nat /\ MaxPlausible * p \in Nat
      /\ MaxPlausible * n <= MaxPlausible * z
  BY <1>1, Times
<1>4. CASE p = 0
  <2>1. n <= y
    BY <1>1, <1>4
  <2>2. MaxPlausible * n <= MaxPlausible * y
    BY <2>1, Times
  <2> QED BY <1>2, <1>3, <2>2 DEF Room
<1>5. CASE p # 0
  <2>1. MaxPlausible * 1 <= MaxPlausible * p
    BY <1>5, Times
  <2>2. MaxPlausible * 1 = MaxPlausible
    BY <1>2
  <2> QED BY <1>2, <1>3, <2>1, <2>2 DEF Room
<1> QED BY <1>4, <1>5

Flight == {w \in Workers : Flying(worker[w])}

Headroom ==
    /\ Room(vault.run.spend, Cardinality(Flight), vault.run.cap, Cardinality(Workers))
    /\ vault.run.pending = {} => \E w \in Workers : Away(worker[w])

LEMMA FlightSize ==
    /\ IsFiniteSet(Flight) /\ Cardinality(Flight) \in Nat
    /\ Cardinality(Flight) <= Cardinality(Workers) /\ Cardinality(Workers) \in Nat
    /\ (\E w \in Workers : ~Flying(worker[w])) => Cardinality(Flight) < Cardinality(Workers)
<1>1. IsFiniteSet(Workers) /\ Flight \in SUBSET Workers
  BY EngineAssumption DEF Flight
<1>2. /\ IsFiniteSet(Flight) /\ Cardinality(Flight) \in Nat /\ Cardinality(Workers) \in Nat
      /\ Cardinality(Flight) <= Cardinality(Workers)
      /\ Cardinality(Workers) = Cardinality(Flight) => Workers = Flight
  BY <1>1, FS_Subset, FS_CardinalityType
<1>3. (\E w \in Workers : ~Flying(worker[w])) => Workers # Flight
  BY DEF Flight
<1> QED BY <1>2, <1>3

LEMMA HeadroomStep ==
    ASSUME IInv, IInv', Headroom, vault.run.cap <= vault'.run.cap, [Next]_vars
    PROVE  Headroom'
<1>0. /\ vault.run.spend \in Nat /\ vault'.run.spend \in Nat
      /\ vault.run.cap \in Nat /\ vault'.run.cap \in Nat
      /\ worker \in [Workers -> Worker] /\ IsFiniteSet(vault'.run.pending)
      /\ Under(vault.run.cap, vault'.run.cap)
  <2>1. vault.run \in RunState /\ vault'.run \in RunState
    BY RunOf DEF IInv
  <2>2. vault'.run.pending \in SUBSET Turns
    BY <2>1 DEF RunState
  <2>3. Under(vault.run.cap, vault'.run.cap)
    BY <2>1 DEF Under, RunState
  <2> QED BY <2>1, <2>2, <2>3, PlanAssumption, FS_Subset DEF IInv, WorkersReady, RunState
<1>1. PICK f : f = Flight'
  OBVIOUS
<1>2. f = {u \in Workers : Flying(worker'[u])}
  BY <1>1 DEF Flight, Flying
<1>3. /\ IsFiniteSet(Flight) /\ IsFiniteSet(f) /\ Cardinality(Flight) \in Nat
      /\ Cardinality(f) \in Nat /\ Cardinality(Workers) \in Nat
      /\ Cardinality(f) <= Cardinality(Workers)
      /\ f # Workers => Cardinality(f) < Cardinality(Workers)
  BY <1>2, FlightSize, EngineAssumption, FS_Subset, FS_CardinalityType
<1>4. SUFFICES /\ Room(vault'.run.spend, Cardinality(f), vault'.run.cap, Cardinality(Workers))
               /\ vault'.run.pending = {} => \E w \in Workers : Away(worker'[w])
  BY <1>1 DEF Headroom, Room, Away
<1>5. CASE Still /\ worker' = worker
  <2>1. f = Flight /\ vault'.run.spend = vault.run.spend
        /\ vault.run.pending \subseteq vault'.run.pending
    BY <1>2, <1>5 DEF Flight, Still, Frugal, Thrifty
  <2>3. Under(Cardinality(f), Cardinality(Flight))
    BY <1>3, <2>1 DEF Under
  <2>2. Room(vault'.run.spend, Cardinality(f), vault'.run.cap, Cardinality(Workers))
    BY <1>0, <1>3, <2>1, <2>3, RoomLeft, SMTT(20) DEF Headroom
  <2> QED BY <1>5, <2>1, <2>2 DEF Headroom
<1>6. ASSUME NEW w \in Workers, Moves(w)
      PROVE  /\ Room(vault'.run.spend, Cardinality(f), vault'.run.cap, Cardinality(Workers))
             /\ vault'.run.pending = {} => \E u \in Workers : Away(worker'[u])
  <2>1. PICK r : /\ worker' = [worker EXCEPT ![w] = r]
                 /\ \/ Quits(w, r) \/ Reserves(w, r) \/ Starts(w, r) \/ Calls(w, r)
                    \/ Hears(w, r) \/ Books(w, r)
    BY <1>6 DEF Moves
  <2>2. worker'[w] = r /\ \A u \in Workers \ {w} : worker'[u] = worker[u]
    BY <1>0, <2>1
  <2>3. ASSUME Frugal(vault, vault'), Flying(r) => Flying(worker[w]),
               Away(r) \/ ~Away(worker[w]) \/ vault'.run.pending # {}
        PROVE  /\ Room(vault'.run.spend, Cardinality(f), vault'.run.cap, Cardinality(Workers))
               /\ vault'.run.pending = {} => \E u \in Workers : Away(worker'[u])
    <3>1. f \in SUBSET Flight
      BY <1>2, <2>2, <2>3 DEF Flight
    <3>2. Under(Cardinality(f), Cardinality(Flight))
      <4>1. Cardinality(f) <= Cardinality(Flight)
        BY <1>3, <3>1, FS_Subset
      <4> QED BY <1>3, <4>1 DEF Under
    <3>3. vault'.run.spend = vault.run.spend /\ vault.run.pending \subseteq vault'.run.pending
      BY <2>3 DEF Frugal, Thrifty
    <3>4. Room(vault'.run.spend, Cardinality(f), vault'.run.cap, Cardinality(Workers))
      <4>1. Room(vault'.run.spend, Cardinality(Flight), vault.run.cap, Cardinality(Workers))
        BY <3>3 DEF Headroom
      <4>2. PICK t \in Nat, c \in Nat, b \in Nat :
              t = vault'.run.spend /\ c = vault.run.cap /\ b = vault'.run.cap
        BY <1>0
      <4>3. PICK m \in Nat, n \in Nat, z \in Nat :
              m = Cardinality(f) /\ n = Cardinality(Flight) /\ z = Cardinality(Workers)
        BY <1>3
      <4>4. Room(t, n, c, z) /\ Under(m, n) /\ Under(c, b)
        BY <1>0, <3>2, <4>1, <4>2, <4>3
      <4>5. Room(t, m, b, z)
        BY <4>4, RoomLeft
      <4> QED BY <4>2, <4>3, <4>5
    <3>5. vault'.run.pending = {} => \E u \in Workers : Away(worker'[u])
      BY <2>2, <2>3, <3>3 DEF Headroom
    <3> QED BY <3>4, <3>5
  <2>4. CASE Quits(w, r) \/ Reserves(w, r)
    BY <2>3, <2>4 DEF Quits, Reserves, Still, Away, Flying
  <2>5. CASE Calls(w, r)
    BY <2>3, <2>5 DEF Calls, Still, Away, Flying
  <2>6. CASE Hears(w, r)
    BY <2>3, <2>6 DEF Hears, Away, Flying
  <2>7. CASE Starts(w, r)
    <3>1. /\ vault'.run.pending = {} => \E u \in Workers \ {w} : Away(worker[u])
      BY <2>7 DEF Starts, Still, Frugal, Thrifty, Headroom, Away
    <3>2. vault'.run.pending = {} => \E u \in Workers : Away(worker'[u])
      BY <2>2, <3>1
    <3>3. Cardinality(vault'.run.pending) \in Nat
      BY <1>0, FS_CardinalityType
    <3>4. Cardinality(vault'.run.pending) = 0 => Cardinality(f) < Cardinality(Workers)
      <4>1. Cardinality(vault'.run.pending) = 0 => vault'.run.pending = {}
        BY <1>0, FS_EmptySet
      <4>2. (\E u \in Workers : Away(worker'[u])) => f # Workers
        BY <1>2 DEF Away, Flying
      <4> QED BY <1>3, <3>2, <4>1, <4>2
    <3>5. Cardinality(Workers) \in Nat \ {0}
      BY <1>3, EngineAssumption, FS_EmptySet
    <3>6. vault'.run.spend + MaxPlausible * Cardinality(vault'.run.pending) < vault'.run.cap
      BY <2>7 DEF Starts, Projected
    <3>7. Room(vault'.run.spend, Cardinality(f), vault'.run.cap, Cardinality(Workers))
      BY <1>0, <1>3, <3>3, <3>4, <3>5, <3>6, RoomToStart
    <3> QED BY <3>2, <3>7
  <2>8. CASE Books(w, r)
    <3>1. Flying(worker[w]) /\ ~Flying(r) /\ Away(r)
      BY <2>8 DEF Books, Away, Flying
    <3>2. f = Flight \ {w} /\ w \in Flight
      BY <1>2, <2>2, <3>1 DEF Flight
    <3>3. Cardinality(Flight) = Cardinality(f) + 1
      BY <1>3, <3>2, FS_RemoveElement
    <3>4. vault'.run.spend <= vault.run.spend + MaxPlausible
      <4>1. worker[w].call \in Call
            /\ vault'.run.spend \in {vault.run.spend, vault.run.spend + Cost(worker[w].call)}
        BY <2>8 DEF Books, Charges
      <4> QED BY <1>0, <4>1, CostsBounded, MoneyAssumption
    <3>5. Room(vault.run.spend, Cardinality(Flight), vault.run.cap, Cardinality(Workers))
      BY DEF Headroom
    <3>6. Room(vault'.run.spend, Cardinality(f), vault'.run.cap, Cardinality(Workers))
      <4>1. PICK s \in Nat, t \in Nat, c \in Nat, b \in Nat :
              /\ s = vault.run.spend /\ t = vault'.run.spend
              /\ c = vault.run.cap /\ b = vault'.run.cap
        BY <1>0
      <4>2. PICK m \in Nat, n \in Nat, z \in Nat :
              n = Cardinality(f) /\ m = Cardinality(Flight) /\ z = Cardinality(Workers)
        BY <1>3
      <4>3. PICK u \in Nat : u = s + MaxPlausible
        BY MoneyAssumption
      <4>4. Room(s, m, c, z) /\ Adds(n, 1, m) /\ Under(c, b)
        BY <1>0, <3>3, <3>5, <4>1, <4>2 DEF Adds
      <4>5. Adds(s, MaxPlausible, u) /\ Under(t, u)
        BY <3>4, <4>1, <4>3 DEF Adds, Under
      <4>6. Room(u, n, c, z)
        BY <4>4, <4>5, RoomPaid
      <4>7. Room(t, n, b, z)
        BY <4>4, <4>5, <4>6, RoomGrows
      <4> QED BY <4>1, <4>2, <4>7
    <3> QED BY <2>2, <3>1, <3>6
  <2> QED BY <2>1, <2>4, <2>5, <2>6, <2>7, <2>8
<1> QED BY <1>5, <1>6, MoneyStep

-----------------------------------------------------------------------------
(* The theorems. *)

LEMMA NextInv == IInv /\ [Next]_vars => IInv'
<1> SUFFICES ASSUME IInv, [Next]_vars PROVE IInv'
  OBVIOUS
<1>1. CASE Next
  <2>0. LQTypeOK
    BY DEF IInv
  <2>1. GoodStep
    BY <1>1, VaultStep
  <2>2. LQTypeOK' /\ Counters' /\ WorkersReady'
    BY <1>1, <2>1, QueueStep, CountersStep, WorkersStep DEF IInv, GoodStep
  <2> QED BY <2>1, <2>2 DEF IInv, GoodStep, Extends
<1>2. CASE UNCHANGED vars
  BY <1>2 DEF vars, IInv, LQTypeOK, Counters, WorkersReady
<1> QED BY <1>1, <1>2

\* The invariant holds in every reachable state, whatever crashes, is lost or comes late.
THEOREM Invariance == Spec => []IInv
  BY InitInv, NextInv, PTL DEF Spec

\* The queue item, the vault and the workers keep their types; in particular a worker
\* that plans a turn always finds one to take (_take_next_turn).
THEOREM TypeCorrect == Spec => []TypeOK
  BY Invariance, IInvImplies, PTL

\* A completed turn is settled: body, gates, money (_record_spec), for every plan,
\* and any number of crashes and of workers that lost their lease.
THEOREM CompletionSettled == Spec => []CompletedSettled
  BY Invariance, IInvImplies, PTL

\* No turn is tried past its ceiling, a crash inside record_turn apart (_discard).
THEOREM RetriesBounded == Spec => []RetryCeiling
  BY Invariance, IInvImplies, PTL

\* What is recorded stays recorded (write_turn_body, DecisionStore).
THEOREM WriteOnce == Spec => RecordWriteOnce
<1>1. ASSUME IInv, [Next]_vars
      PROVE  [/\ vault.run.done \subseteq vault'.run.done
              /\ \A t \in Turns : vault.body[t] # NoBody => vault'.body[t] = vault.body[t]
              /\ \A g \in Gates : vault.gates[g] = "resolved"
                                    => vault'.gates[g] = "resolved"]_vars
  BY <1>1, VaultStep DEF GoodStep, Extends
<1> QED BY <1>1, Invariance, PTL DEF Spec, RecordWriteOnce

LEMMA EndInvariance == Spec => []Ended(vault)
<1>1. Init => Ended(vault)
  BY DEF Init, Launched, Started, Ended, Over
<1>2. IInv /\ Ended(vault) /\ [Next]_vars => Ended(vault)'
  BY EndStep DEF GoodEnd
<1> QED BY <1>1, <1>2, Invariance, PTL DEF Spec

\* A run that is reported finished is: every turn done, the rubric gate recorded, every
\* gate of a draft derived, and no hard-human gate open; whatever crashed inside
\* record_turn or a resolution (_finalize).
THEOREM FinishedIsComplete == Spec => []FinishedComplete
<1>1. Ended(vault) => FinishedComplete
  BY DEF Ended, Over, FinishedComplete
<1> QED BY <1>1, EndInvariance, PTL

\* The run engine implements the lifecycle its watchers are told of: each of its steps is
\* a step of RunLifecycle or leaves what they see alone.
THEOREM EngineImplementsLifecycle == Spec => ImplementsLifecycle
<1>1. Init => Lifecycle!LCInit
  BY DEF Init, Launched, Started, Lifecycle!LCInit
<1>2. ASSUME IInv, Ended(vault), [Next]_vars
      PROVE  [Lifecycle!LCNext]_<<vault.run.status, vault.run.done>>
  <2>1. Lives(vault, vault')
    BY <1>2, EndStep DEF GoodEnd
  <2>2. CASE Same(vault, vault')
    BY <2>2 DEF Same
  <2>3. CASE Lands(vault, vault')
    <3>1. PICK t \in Turns :
            /\ vault.run.status = "running"
            /\ t \notin vault.run.done /\ Before[t] \subseteq vault.run.done
            /\ vault'.run.done = vault.run.done \cup {t}
            /\ \/ vault'.run.status \in {"running", "checkpoint", "capped"}
               \/ vault'.run.done = Turns /\ vault'.run.status \in Over
      BY <2>3 DEF Lands
    <3>2. Lifecycle!Land(t)
      BY <3>1 DEF Lifecycle!Land, Lifecycle!Finished, Over
    <3> QED BY <3>2 DEF Lifecycle!LCNext
  <2>4. CASE Ends(vault, vault')
    BY <2>4 DEF Ends, Over, Lifecycle!LCNext, Lifecycle!End, Lifecycle!Finished
  <2>5. CASE Stops(vault, vault')
    BY <2>5 DEF Stops, Lifecycle!LCNext, Lifecycle!Stop
  <2>6. CASE Restarts(vault, vault')
    BY <2>6 DEF Restarts, Lifecycle!LCNext, Lifecycle!Restart
  <2> QED BY <2>1, <2>2, <2>3, <2>4, <2>5, <2>6 DEF Lives
<1> QED BY <1>1, <1>2, Invariance, EndInvariance, PTL
       DEF Spec, ImplementsLifecycle, Lifecycle!LCSpec

\* The ledger never holds more than the provider billed, for every set of workers and any
\* number of lost leases, crashes, replays and late answers (_book_spend).
THEOREM LedgerIsBilled == Spec => []LedgerNeverOverstates
<1>1. Init => Ledger
  <2> SUFFICES ASSUME Init PROVE Ledger
    OBVIOUS
  <2>1. PICK k \in Nat : ExistsBijection(1 .. k, Workers)
    BY EngineAssumption, FS_NatBijection
  <2>2. PICK e \in Bijection(1 .. k, Workers) : TRUE
    BY <2>1 DEF ExistsBijection
  <2>3. PICK h : h = Holdings(k, e)
    OBVIOUS
  <2>4. \A i \in 1 .. k : h[i] = 0
    <3>1. \A i \in 1 .. k : e[i] \in Workers
      BY DEF Bijection, Injection
    <3> QED BY <2>3, <3>1 DEF Holdings, Init, Held, Resting
  <2>5. vault.run.spend = 0 /\ paid = 0
    BY DEF Init, Launched, Started
  <2>6. PICK q \in [0 .. k -> Int] : \A i \in 0 .. k : q[i] = 0
    <3>1. [i \in 0 .. k |-> 0] \in [0 .. k -> Int]
      OBVIOUS
    <3> QED BY <3>1
  <2>7. Covered(k, h, 0, 0)
    BY <2>4, <2>6 DEF Covered
  <2> QED BY <2>3, <2>5, <2>7 DEF Ledger
<1>2. IInv /\ IInv' /\ Ledger /\ [Next]_vars => Ledger'
  BY LedgerStep
<1>3. IInv /\ Ledger => LedgerNeverOverstates
  <2> SUFFICES ASSUME IInv, Ledger PROVE LedgerNeverOverstates
    OBVIOUS
  <2>1. vault.run.spend \in Nat /\ paid \in Nat
    BY RunOf DEF IInv, Counters, RunState
  <2> QED BY <2>1, CoveredSpend DEF Ledger, LedgerNeverOverstates
<1> QED BY <1>1, <1>2, <1>3, Invariance, PTL DEF Spec

\* The cap is passed by less than one call of each other worker (_over_cap), for every set
\* of workers and whatever leases are lost, in a run that starts with a budget and whose cap
\* no operator lowers: raise_cap would take a lower cap (orchestrator.py), and money spent
\* under the old one may then lie past the new one.
THEOREM OverrunIsBounded ==
    ASSUME HardCap # 0, Workers # {}
    PROVE  Spec /\ [][vault.run.cap <= vault'.run.cap]_vars => []OverrunBounded
<1>1. Init => Headroom
  <2> SUFFICES ASSUME Init PROVE Headroom
    OBVIOUS
  <2>1. \A w \in Workers : Away(worker[w]) /\ ~Flying(worker[w])
    BY DEF Init, Resting, Away, Flying
  <2>2. vault.run.spend = 0 /\ vault.run.cap = HardCap
    BY DEF Init, Launched, Started
  <2>3. Cardinality(Flight) \in Nat /\ Cardinality(Flight) < Cardinality(Workers)
    BY <2>1, FlightSize
  <2>4. Cardinality(Workers) \in Nat \ {0}
    BY <2>3, FlightSize
  <2>5. 0 + MaxPlausible * 0 < HardCap
    BY MoneyAssumption
  <2>6. Room(0, Cardinality(Flight), HardCap, Cardinality(Workers))
    BY <2>3, <2>4, <2>5, MoneyAssumption, RoomToStart
  <2> QED BY <2>1, <2>2, <2>6 DEF Headroom
<1>2. IInv /\ IInv' /\ Headroom /\ [vault.run.cap <= vault'.run.cap]_vars /\ [Next]_vars => Headroom'
  <2>1. ASSUME IInv, UNCHANGED vars
        PROVE  vault.run.cap <= vault'.run.cap
    <3>1. vault.run.cap \in Nat /\ vault' = vault
      BY <2>1, RunOf DEF IInv, RunState, vars
    <3> QED BY <3>1
  <2> QED BY <2>1, HeadroomStep
<1>3. IInv /\ Headroom => OverrunBounded
  <2> SUFFICES ASSUME IInv, Headroom PROVE OverrunBounded
    OBVIOUS
  <2>1. /\ Cardinality(Flight) \in Nat /\ Cardinality(Workers) \in Nat
        /\ MaxPlausible * Cardinality(Flight) \in Nat
    BY FlightSize, Times
  <2>2. vault.run.spend \in Nat /\ vault.run.cap \in Nat
    BY RunOf DEF IInv, RunState
  <2>3. MaxPlausible * (Cardinality(Workers) - 1) \in Int
    BY <2>1, MoneyAssumption
  <2> QED BY <2>1, <2>2, <2>3 DEF Headroom, Room, OverrunBounded
<1> QED BY <1>1, <1>2, <1>3, Invariance, PTL DEF Spec
=============================================================================
