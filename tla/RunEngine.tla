----------------------------- MODULE RunEngine -----------------------------
(***************************************************************************)
(* One hosted run driven end to end: workers (engine/worker.py) that claim *)
(* its queue item and drain it turn by turn, the launch outbox             *)
(* (engine/outbox.py) that repairs the queue from the journal, and the     *)
(* operator's verbs, which may come at any moment, a provider call in      *)
(* flight included.  RunLock makes each orchestrator call one step (never  *)
(* held across a provider call); a call that finds it held raises, and the *)
(* worker takes its failure path.                                          *)
(* The environment is bounded: MaxFaults crashes, lost leases, contended   *)
(* locks and bad answers, MaxOps operator verbs.                           *)
(***************************************************************************)
EXTENDS LeaseQueue, Orchestrator

CONSTANTS RunItem,          \* run:<matter>:<run>
          Invalid,          \* a reply the output schema or a gate refuses
          NoTurn, NoCall,
          Costs, Caps, Grants,
          MaxExecutions,    \* the worker's max_attempts on a queue item
          MaxFaults, MaxOps

Call == [out : Outputs \cup {Invalid}, reported : BOOLEAN, cost : Costs]

ASSUME EngineAssumption ==
    /\ RunItem \in Ids /\ IsFiniteSet(Workers)
    /\ Costs \subseteq 0 .. MaxPlausible
    /\ Caps \subseteq Nat /\ Grants \subseteq Nat
    /\ MaxExecutions \in Nat \ {0} /\ MaxFaults \in Nat /\ MaxOps \in Nat
    /\ NoTurn \notin Turns /\ Invalid \notin Outputs \cup {NoBody}

VARIABLES vault,   \* what the run keeps on disk
          worker,  \* [Workers -> where each worker is in its drain]
          paid,    \* what the provider has billed
          torn,    \* crashes inside a record_turn
          faults, ops

vars == <<queue, vault, worker, paid, torn, faults, ops>>

Step == {"idle", "start", "resume", "plan", "intent", "prompt", "call", "calling",
         "record", "beat", "seat", "handback", "fatal", "poison", "closing", "complete"}

Worker == [pc : Step, turn : Turns \cup {NoTurn}, tries : Nat, call : Call \cup {NoCall}]
Resting == [pc |-> "idle", turn |-> NoTurn, tries |-> 0, call |-> NoCall]

TypeOK ==
    /\ LQTypeOK
    /\ vault \in Vault
    /\ worker \in [Workers -> Worker]
    /\ \A w \in Workers : worker[w].pc = "record" =>
          worker[w].turn \in Turns /\ worker[w].call \in Call
    /\ \A w \in Workers : worker[w].pc \in {"intent", "prompt", "call", "calling"} =>
          worker[w].turn \in Turns
    /\ paid \in Nat /\ torn \in Nat /\ faults \in Nat /\ ops \in Nat

\* The launch: RunStarted carries the queue intent; the outbox delivers it.
Init ==
    /\ LQInit
    /\ vault = Launched
    /\ worker = [w \in Workers |-> Resting]
    /\ paid = 0 /\ torn = 0 /\ faults = 0 /\ ops = 0

-----------------------------------------------------------------------------
At(w, pc)    == worker[w].pc = pc
Goto(w, pc)  == worker' = [worker EXCEPT ![w].pc = pc]
Leave(w)     == worker' = [worker EXCEPT ![w] = Resting]
Active(w)    == worker[w].pc # "idle"
Turn(w)      == worker[w].turn

Fault    == faults < MaxFaults /\ faults' = faults + 1
Calm     == UNCHANGED <<torn, faults, ops>>
Unbilled == UNCHANGED paid

\* run_once: claim the item.
Take(w) ==
    /\ At(w, "idle")
    /\ Claim(w, RunItem)
    /\ worker' = [worker EXCEPT ![w] = [Resting EXCEPT
                    !.pc = "start", !.tries = queue[RunItem].attempts + 1]]
    /\ UNCHANGED vault /\ Unbilled /\ Calm

\* _drain: a capacity pause is over when the item comes back; what was read here
\* is acted on in Reawaken, under the lock.
Start(w) ==
    /\ At(w, "start")
    /\ Goto(w, IF vault.run.status = "paused" /\ vault.run.reason = "capacity"
               THEN "resume" ELSE "plan")
    /\ UNCHANGED <<queue, vault>> /\ Unbilled /\ Calm

Reawaken(w) ==
    /\ At(w, "resume")
    /\ IF CanResume(vault)
       THEN vault' = Resume(vault) /\ Goto(w, "plan")
       ELSE UNCHANGED vault /\ Goto(w, "poison")
    /\ UNCHANGED queue /\ Unbilled /\ Calm

\* The turn the worker takes, if there is one.
NextTurn(v) == IF Plan(v) = {} THEN NoTurn ELSE First(Plan(v))

PlanNext(w) ==
    /\ At(w, "plan")
    /\ vault' = Planned(vault)
    /\ worker' = [worker EXCEPT
         ![w].pc = IF Plan(vault') = {} THEN "closing" ELSE "intent",
         ![w].turn = NextTurn(vault')]
    /\ UNCHANGED queue /\ Unbilled /\ Calm

\* record_turn_intent: the write-ahead reservation.
Intend(w) ==
    /\ At(w, "intent")
    /\ vault' = [vault EXCEPT !.run = TurnIntent(@, Turn(w))]
    /\ Goto(w, "prompt")
    /\ UNCHANGED queue /\ Unbilled /\ Calm

\* assemble_prompt plans again, the new reservation counted.
Prompt(w) ==
    /\ At(w, "prompt")
    /\ vault' = Planned(vault)
    /\ Goto(w, IF Turn(w) \in Plan(vault') THEN "call" ELSE "poison")
    /\ UNCHANGED queue /\ Unbilled /\ Calm

\* _run_turn_with_lease: no call without the lease.
CallProvider(w) ==
    /\ At(w, "call")
    /\ \/ Renew(w, RunItem) /\ Goto(w, "calling")
       \/ ~Owns(w, RunItem) /\ Leave(w) /\ UNCHANGED queue
    /\ UNCHANGED vault /\ Unbilled /\ Calm

\* The provider bills for its answer; without the lease the answer is dropped.
Answer(w, call) ==
    /\ At(w, "calling")
    /\ paid' = paid + call.cost
    /\ \/ /\ Renew(w, RunItem)
          /\ worker' = [worker EXCEPT ![w].pc = "record", ![w].call = call]
       \/ ~Owns(w, RunItem) /\ Leave(w) /\ UNCHANGED queue
    /\ UNCHANGED <<vault, torn, ops>>

GoodAnswer(w) ==
    /\ \E call \in Call : call.out \in Outputs /\ call.reported /\ Answer(w, call)
    /\ UNCHANGED faults

\* A reply that is refused, or one that came without its usage.
BadAnswer(w) ==
    /\ \E call \in Call : (call.out = Invalid \/ ~call.reported) /\ Answer(w, call)
    /\ Fault

\* SeatLimitError, AuthError or a permission denial, any other TurnError.
ProviderError(w) ==
    /\ At(w, "calling")
    /\ Fault
    /\ \/ \E pc \in {"seat", "fatal", "poison"} : Renew(w, RunItem) /\ Goto(w, pc)
       \/ ~Owns(w, RunItem) /\ Leave(w) /\ UNCHANGED queue
    /\ UNCHANGED <<vault, paid, torn, ops>>

-----------------------------------------------------------------------------
\* record_turn: nothing checks the lease again here.
Refused(w) ==
    \/ Turn(w) \notin Plan(vault) \cup vault.run.done
    \/ /\ Turn(w) \in Plan(vault)
       /\ worker[w].call.out # Invalid
       /\ ~Seals(vault, Turn(w), worker[w].call.out)

RecordTurn(v, t, call) ==
    IF t \in v.run.done THEN Replayed(v, t, call)
    ELSE IF call.out = Invalid THEN Discarded(v, t, call)
         ELSE Recorded(v, t, call)

TornRecord(v, t, call) ==
    IF t \in v.run.done THEN {Booked(v, t, call)}
    ELSE IF call.out = Invalid THEN DiscardTorn(v, t, call)
         ELSE RecordTorn(v, t, call)

Record(w) ==
    /\ At(w, "record")
    /\ IF Refused(w)
       THEN /\ worker' = [worker EXCEPT ![w].pc = "poison", ![w].call = NoCall]
            /\ UNCHANGED vault
       ELSE /\ vault' = RecordTurn(vault, Turn(w), worker[w].call)
            /\ worker' = [worker EXCEPT ![w].pc = "beat", ![w].call = NoCall]
    /\ UNCHANGED queue /\ Unbilled /\ Calm

\* The worker dies between two of record_turn's writes.
RecordCrash(w) ==
    /\ At(w, "record") /\ ~Refused(w)
    /\ Fault /\ torn' = torn + 1
    /\ vault' \in TornRecord(vault, Turn(w), worker[w].call)
    /\ Leave(w)
    /\ UNCHANGED <<queue, paid, ops>>

\* Between turns: renew the lease, or stop.
Beat(w) ==
    /\ At(w, "beat")
    /\ \/ /\ Renew(w, RunItem)
          /\ worker' = [worker EXCEPT ![w].pc = "plan", ![w].turn = NoTurn]
       \/ ~Owns(w, RunItem) /\ Leave(w) /\ UNCHANGED queue
    /\ UNCHANGED vault /\ Unbilled /\ Calm

-----------------------------------------------------------------------------
\* A seat limit: pause the run, then hand the item back for later.
PauseForCapacity(w) ==
    /\ At(w, "seat")
    /\ IF CanPause(vault)
       THEN vault' = Pause(vault, "capacity") /\ Goto(w, "handback")
       ELSE UNCHANGED vault /\ Goto(w, "poison")
    /\ UNCHANGED queue /\ Unbilled /\ Calm

\* The delay counts from the start of the tick, so it may be over already.
HandBack(w) ==
    /\ At(w, "handback")
    /\ \E now \in BOOLEAN : Release(w, RunItem, TRUE, now)
    /\ Leave(w)
    /\ UNCHANGED vault /\ Unbilled /\ Calm

\* finish_needs_attention, on the failures that are the operator's to fix.
Fail(w) ==
    /\ At(w, "fatal")
    /\ vault' = NeedsAttention(vault)
    /\ Goto(w, "complete")
    /\ UNCHANGED queue /\ Unbilled /\ Calm

\* _on_turn_error and _on_poison: back off, or dead-letter after the last
\* execution (of the count in the worker's own copy of the item).
BackOff(w) ==
    /\ At(w, "poison") /\ worker[w].tries < MaxExecutions
    /\ \E now \in BOOLEAN : Release(w, RunItem, FALSE, now)
    /\ Leave(w)
    /\ UNCHANGED vault /\ Unbilled /\ Calm

DeadLetter(w) ==
    /\ At(w, "poison") /\ worker[w].tries >= MaxExecutions
    /\ vault' = NeedsAttention(vault)
    /\ Goto(w, "complete")
    /\ UNCHANGED queue /\ Unbilled /\ Calm

\* Nothing left to plan: finalize_if_ready, then drop the item.
Close(w) ==
    /\ At(w, "closing")
    /\ vault' = Finalize(vault)
    /\ Goto(w, "complete")
    /\ UNCHANGED queue /\ Unbilled /\ Calm

Drop(w) ==
    /\ At(w, "complete")
    /\ Complete(w, RunItem)
    /\ Leave(w)
    /\ UNCHANGED vault /\ Unbilled /\ Calm

\* SIGTERM, seen at a turn boundary.
Shutdown(w) ==
    /\ At(w, "plan")
    /\ Fault
    /\ Release(w, RunItem, TRUE, TRUE)
    /\ Leave(w)
    /\ UNCHANGED <<vault, paid, torn, ops>>

\* LockHeldError: the result of a call whose record_turn meets it is lost, and a
\* dead letter that meets it leaves the run as it is.
\* (A plan_next that only folds the journal takes no lock and is not among them.)
Contend(w) ==
    /\ Fault
    /\ \/ /\ worker[w].pc \in {"resume", "intent", "record", "seat", "fatal", "closing"}
          /\ worker' = [worker EXCEPT ![w].pc = "poison", ![w].call = NoCall]
       \/ /\ At(w, "poison") /\ worker[w].tries >= MaxExecutions
          /\ Goto(w, "complete")
    /\ UNCHANGED <<queue, vault, paid, torn, ops>>

Crash(w) ==
    /\ Active(w)
    /\ Fault
    /\ Leave(w)
    /\ UNCHANGED <<queue, vault, paid, torn, ops>>

-----------------------------------------------------------------------------
\* drain_run_outbox, at launch and on the scan of an idle worker's tick: deliver the
\* launch, and put back the item of a run that is running without one.
NeedsDeliveryOnce(v) == ~v.run.acked
NeedsDelivery(v) == ~v.run.acked \/ v.run.status = "running"

Deliver ==
    /\ ~vault.run.acked \/ \E w \in Workers : At(w, "idle")
    /\ NeedsDelivery(vault)
    /\ EnsureEnqueued(RunItem)
    /\ vault' = [vault EXCEPT !.run = RunEnqueued(@)]
    /\ UNCHANGED worker /\ Unbilled /\ Calm

\* A crash after the queue write and before the acknowledgment.
DeliverCrash ==
    /\ ~vault.run.acked /\ ~Present(RunItem)
    /\ Fault
    /\ EnsureEnqueued(RunItem)
    /\ UNCHANGED <<vault, worker, paid, torn, ops>>

\* Hidden items come due: a delayed release, or the lease of a dead worker.
Live == \E w \in Workers : Active(w) /\ Owns(w, RunItem)

ComeDue ==
    /\ Present(RunItem) /\ ~queue[RunItem].visible /\ ~Live
    /\ Surface({RunItem})
    /\ UNCHANGED <<vault, worker>> /\ Unbilled /\ Calm

\* A live worker stalls past its lease, or another one boots and finds the file it
\* stamped when its drain began stale.
LoseLease ==
    /\ Live
    /\ Fault
    /\ \/ ~queue[RunItem].visible /\ Surface({RunItem})
       \/ Reclaim({queue[RunItem].owner})
    /\ UNCHANGED <<vault, worker, paid, torn, ops>>

-----------------------------------------------------------------------------
Operator(v) == ops < MaxOps /\ ops' = ops + 1 /\ vault' = v
Elsewhere == UNCHANGED <<worker, paid, torn, faults>>

OperatorPause == CanPause(vault) /\ Operator(Pause(vault, "manual")) /\ Elsewhere /\ UNCHANGED queue
OperatorResume == CanResume(vault) /\ Operator(Resume(vault)) /\ Elsewhere /\ UNCHANGED queue
OperatorContinue == CanContinue(vault) /\ Operator(Continue(vault)) /\ Elsewhere /\ UNCHANGED queue
OperatorRaiseCap ==
    (\E usd \in Caps : Operator(RaiseCap(vault, usd))) /\ Elsewhere /\ UNCHANGED queue

\* The reopen route also puts the run back on the queue, unless it dies in between.
OperatorReopen ==
    /\ \E grant \in Grants : CanReopen(vault, grant) /\ Operator(Reopen(vault, grant))
    /\ \/ EnsureEnqueued(RunItem) /\ UNCHANGED faults
       \/ Fault /\ UNCHANGED queue
    /\ UNCHANGED <<worker, paid, torn>>

\* The attorney resolves an open gate; a crash may keep it from the run.
Resolve ==
    /\ \E g \in Gates :
         /\ vault.gates[g] = "open"
         /\ \/ Operator(Finalize(Resolved(vault, g))) /\ UNCHANGED faults
            \/ Operator(Resolved(vault, g)) /\ Fault
    /\ UNCHANGED <<queue, worker, paid, torn>>

\* The same resolution again repairs what the crash left.
ResolveAgain ==
    /\ \E g \in Gates : vault.gates[g] = "resolved"
    /\ Finalize(vault) # vault
    /\ vault' = Finalize(vault)
    /\ UNCHANGED queue /\ Elsewhere /\ UNCHANGED ops

Drive(w) ==
    \/ Take(w) \/ Start(w) \/ Reawaken(w) \/ PlanNext(w) \/ Intend(w) \/ Prompt(w)
    \/ CallProvider(w) \/ GoodAnswer(w) \/ Record(w) \/ Beat(w)
    \/ PauseForCapacity(w) \/ HandBack(w) \/ Fail(w) \/ BackOff(w) \/ DeadLetter(w)
    \/ Close(w) \/ Drop(w)

Misfortune(w) ==
    \/ BadAnswer(w) \/ ProviderError(w) \/ RecordCrash(w) \/ Shutdown(w)
    \/ Contend(w) \/ Crash(w)

OperatorStep ==
    \/ OperatorPause \/ OperatorResume \/ OperatorContinue \/ OperatorRaiseCap
    \/ OperatorReopen \/ Resolve \/ ResolveAgain

Next ==
    \/ \E w \in Workers : Drive(w) \/ Misfortune(w)
    \/ Deliver \/ DeliverCrash \/ ComeDue \/ LoseLease
    \/ OperatorStep

Spec == Init /\ [][Next]_vars

\* Workers keep stepping, the outbox is scanned, time passes; nothing makes the
\* operator act.
Fairness ==
    /\ \A w \in Workers : WF_vars(Drive(w))
    /\ WF_vars(Deliver) /\ WF_vars(ComeDue)

FairSpec == Spec /\ Fairness

-----------------------------------------------------------------------------
(***************************************************************************)
(* Properties                                                              *)
(***************************************************************************)

\* A completed turn has its body on disk, its gates derived, and its money booked
\* or still reserved, whatever crashed, replayed or came late (_record_spec).
CompletedSettled ==
    \A t \in vault.run.done :
        /\ vault.body[t] # NoBody
        /\ t \in vault.run.booked \cup vault.run.pending
        /\ \A g \in Raises[t] : vault.gates[g] # "none"

\* A body on disk is never rewritten, a completed turn never undone, a resolved
\* gate never opened again (write_turn_body, DecisionStore).
RecordWriteOnce ==
    [][/\ vault.run.done \subseteq vault'.run.done
       /\ \A t \in Turns : vault.body[t] # NoBody => vault'.body[t] = vault.body[t]
       /\ \A g \in Gates : vault.gates[g] = "resolved" => vault'.gates[g] = "resolved"]_vars

\* No turn is tried more often than the launch and the operator allow, one more for
\* each crash that separates the last discard from its needs_attention (_discard).
RetryCeiling ==
    \A t \in Turns : vault.run.discarded[t] <= AttemptCeiling(vault) + torn

\* The ledger holds no money the provider did not bill: no call is booked twice,
\* by two workers, a replay or a retry after a crash (_book_spend).
LedgerNeverOverstates == vault.run.spend <= paid

\* The cap is passed by less than one call of each other worker: a lost lease can put
\* several calls in flight on one reservation, and none starts after (_over_cap).
OverrunBounded ==
    vault.run.spend < vault.run.cap + MaxPlausible * (Cardinality(Workers) - 1)

\* finished, and needs_decisions, mean what they say: every turn done, the rubric
\* gate on the record, and for finished no hard-human gate open (_finalize).
FinishedComplete ==
    vault.run.status \in {"finished", "needs_decisions"} =>
        /\ AllDone(vault)
        /\ vault.run.rubric
        /\ \A t \in Turns : \A g \in Raises[t] : vault.gates[g] # "none"
        /\ vault.run.status = "finished" => OpenGates(vault, HardHuman) = {}

\* A run at work is driven until it stops: no crash, lost lease, contended lock or
\* lost queue item leaves it running with nobody on it (outbox.py, worker.py).
RunningIsDriven == vault.run.status = "running" ~> vault.run.status # "running"

\* The run engine shows its watchers the abstract lifecycle.
Lifecycle == INSTANCE RunLifecycle WITH status <- vault.run.status, done <- vault.run.done
ImplementsLifecycle == Lifecycle!LCSpec

-----------------------------------------------------------------------------
(* What the documentation says of the code. *)

\* models/events.py: "The cap counts every unreconciled intent at max_plausible_usd
\* (conservative), so an in-flight turn can never push a run past its budget cap
\* unnoticed": what was billed is on the ledger or covered by a reservation.
ConservativeLedger == paid <= Projected(vault.run)

\* orchestrator.py: a gated run pauses before it enters a checkpoint stage.
CheckpointHonoured ==
    Gated => \A t \in vault.run.done :
                StageOf[t] \in CheckpointStages => StageOf[t] \in vault.run.cleared
=============================================================================
