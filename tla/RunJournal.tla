----------------------------- MODULE RunJournal -----------------------------
(***************************************************************************)
(* The run journal (journal.py, models/events.py) as the state its events  *)
(* fold to: one operator per event kind, applied in the order appended.    *)
(* Money is counted in units; a write-ahead intent stands for MaxPlausible *)
(* units of the turn it names, so `pending' is the set of those turns.     *)
(***************************************************************************)
EXTENDS Integers, FiniteSets

CONSTANTS Turns,         \* turn ids of the run's plan
          Boundaries,    \* checkpoint boundaries: stages and "policy_decisions"
          MaxPlausible,  \* max_plausible_usd of one call
          HardCap        \* the launch budget's hard cap

ASSUME MoneyAssumption == MaxPlausible \in Nat /\ HardCap \in Nat

Status == {"running", "paused", "checkpoint", "capped", "needs_attention",
           "needs_decisions", "finished"}
Reason == {"none", "manual", "capacity"}

\* models/events.py RunState, the fields that steer the run, with two facts read
\* off the event list itself: the last checkpoint boundary, and the launch ack.
RunState ==
    [status : Status, reason : Reason, spend : Nat, pending : SUBSET Turns,
     booked : SUBSET Turns, done : SUBSET Turns, discarded : [Turns -> Nat],
     granted : Nat, cap : Nat, cleared : SUBSET Boundaries,
     boundary : Boundaries \cup {"unknown"}, rubric : BOOLEAN, acked : BOOLEAN]

\* The fold of a journal that holds only RunStarted.
Started ==
    [status |-> "running", reason |-> "none", spend |-> 0, pending |-> {},
     booked |-> {}, done |-> {}, discarded |-> [t \in Turns |-> 0],
     granted |-> 0, cap |-> HardCap, cleared |-> {}, boundary |-> "unknown",
     rubric |-> FALSE, acked |-> FALSE]

-----------------------------------------------------------------------------
\* fold: one clause per event.
TurnIntent(s, t) == [s EXCEPT !.pending = @ \cup {t}]

\* The settlement of a turn reconciles its intent, whatever it cost.
SpendRecorded(s, t, usd) ==
    [s EXCEPT !.spend = @ + usd, !.booked = @ \cup {t}, !.pending = @ \ {t}]

TurnCompleted(s, t) == [s EXCEPT !.done = @ \cup {t}]

TurnDiscarded(s, t, attempt) == [s EXCEPT !.discarded[t] = attempt]

RubricEvaluated(s) == [s EXCEPT !.rubric = TRUE]

RunFinished(s, status) == [s EXCEPT !.status = status]

RunPaused(s, reason) == [s EXCEPT !.status = "paused", !.reason = reason]

RunResumed(s) ==
    IF s.status = "paused" THEN [s EXCEPT !.status = "running", !.reason = "none"] ELSE s

CapRaised(s, usd) ==
    [s EXCEPT !.cap = usd, !.status = IF @ = "capped" THEN "running" ELSE @]

CheckpointReached(s, b) == [s EXCEPT !.status = "checkpoint", !.boundary = b]

CheckpointCleared(s, b) ==
    [s EXCEPT !.cleared = @ \cup ({b} \cap Boundaries),
              !.status = IF @ = "checkpoint" THEN "running" ELSE @]

RunReopened(s, grant) ==
    [s EXCEPT !.granted = @ + grant,
              !.status = IF @ = "needs_attention" THEN "running" ELSE @]

RunEnqueued(s) == [s EXCEPT !.acked = TRUE]

\* Conservative projection: spend plus every unreconciled intent at its ceiling.
Projected(s) == s.spend + MaxPlausible * Cardinality(s.pending)
OverCapBySpend(s) == s.spend >= s.cap
OverCap(s) == Projected(s) >= s.cap

Terminal(s) == s.status \in {"finished", "needs_attention", "capped"}
=============================================================================
