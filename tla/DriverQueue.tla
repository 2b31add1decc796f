---------------------------- MODULE DriverQueue ----------------------------
(***************************************************************************)
(* The file-backed driver queue (engine/queue.py) with the part of the     *)
(* worker that uses it (engine/worker.py): boot and stale-worker reclaim,  *)
(* polling, lease renewal, hand-back and completion.  Time is counted down *)
(* in ticks: an item is claimable when its `hidden' timer reaches 0        *)
(* (visible_at <= now), and a heartbeat file ages by one each tick.        *)
(***************************************************************************)
EXTENDS Integers, FiniteSets

CONSTANTS Ids, Workers, NoOne, Absent, NoItem,
          Lane,         \* [Ids -> {"interactive", "run"}]
          Serves,       \* [Workers -> SUBSET Ids]: the matter a worker is bound to
          Stamps,       \* values of enqueued_at, the FIFO key within a lane
          Visibility,   \* visibility_timeout_s
          ResumeDelay,  \* resume_delay_s, after a seat limit
          Backoff,      \* backoff_s, after a failed execution
          StaleAge,     \* stale_threshold_s of a worker's heartbeat file
          MaxScan,      \* bound of the model on how long a boot's sweep takes
          MaxAttempts,  \* executions before an item is dead-lettered
          AttemptBound  \* bound of the model on an item's attempts

ASSUME NoOneAssumption  == NoOne \notin Workers
ASSUME NoItemAssumption == NoItem \notin Ids
ASSUME BindingAssumption ==
    /\ Lane \in [Ids -> {"interactive", "run"}]
    /\ Serves \in [Workers -> SUBSET Ids]
    /\ Stamps \subseteq Nat
ASSUME TimerAssumption ==
    /\ Visibility \in Nat \ {0}
    /\ ResumeDelay \in Nat /\ Backoff \in Nat /\ StaleAge \in Nat /\ MaxScan \in Nat
    /\ MaxAttempts \in Nat \ {0} /\ AttemptBound \in Nat

WorkItem == [owner : Workers \cup {NoOne}, hidden : Nat, attempts : Nat, stamp : Stamps]

Visible == [owner : Workers \cup {NoOne}, visible : BOOLEAN, attempts : Nat]

ASSUME AbsentAssumption == Absent \notin WorkItem \cup Visible

VARIABLES items,   \* the live work items (queue.jsonl)
          hbAge,   \* age of each worker's heartbeat file, NoFile if none
          drain,   \* the item a worker process is draining, NoItem when idle
          tries,   \* item.attempts in the copy the claim returned to the worker
          booted,  \* the process runs and has stamped its heartbeat file
          unread,  \* heartbeat files the first tick's sweep has yet to read
          found    \* the worker whose file it has read as stale, NoOne if none

sweep == <<unread, found>>
vars == <<items, hbAge, drain, tries, booted, sweep>>

NoFile == -1
\* Older than any time compared with.
Ancient == StaleAge + ResumeDelay + Backoff + MaxScan + 1
FileAge == {NoFile} \cup (0 .. Ancient)

TypeOK ==
    /\ items \in [Ids -> WorkItem \cup {Absent}]
    /\ hbAge \in [Workers -> FileAge]
    /\ drain \in [Workers -> Ids \cup {NoItem}]
    /\ tries \in [Workers -> Nat]
    /\ booted \in [Workers -> BOOLEAN]
    /\ unread \in [Workers -> SUBSET Workers]
    /\ found \in [Workers -> Workers \cup {NoOne}]

Init ==
    /\ items = [i \in Ids |-> Absent]
    /\ hbAge = [w \in Workers |-> NoFile]
    /\ drain = [w \in Workers |-> NoItem]
    /\ tries = [w \in Workers |-> 0]
    /\ booted = [w \in Workers |-> FALSE]
    /\ unread = [w \in Workers |-> {}]
    /\ found = [w \in Workers |-> NoOne]

Present(i) == items[i] # Absent
Owns(w, i) == Present(i) /\ items[i].owner = w
Idle(w)    == drain[w] = NoItem

-----------------------------------------------------------------------------
\* Work arrives (launch outbox, reopen, citation and learning routes).
EnsureEnqueued(i) ==
    /\ \E s \in Stamps :
         items' = IF Present(i) THEN items
                  ELSE [items EXCEPT ![i] = [owner |-> NoOne, hidden |-> 0,
                                             attempts |-> 0, stamp |-> s]]
    /\ UNCHANGED <<hbAge, drain, tries, booted, sweep>>

LanePriority(i) == IF Lane[i] = "interactive" THEN 0 ELSE 1

\* WorkItem._sort_key: lane first, then age.
Before(i, j) ==
    \/ LanePriority(i) < LanePriority(j)
    \/ LanePriority(i) = LanePriority(j) /\ items[i].stamp <= items[j].stamp

ClaimableAnyTime(w) == {i \in Serves[w] : Present(i)}
Claimable(w) == {i \in Serves[w] : Present(i) /\ items[i].hidden = 0}

\* Released items lose their owner and surface at once, attempts kept.
Freed(stale) ==
    [i \in Ids |-> IF Present(i) /\ items[i].owner \in stale
                   THEN [items[i] EXCEPT !.owner = NoOne, !.hidden = 0]
                   ELSE items[i]]

\* The first run_once of a process stamps its heartbeat file and lists the others.
\* (A file caught between truncation and write does not parse and is passed over,
\* as a fresh one is: the stamp is the truncation.)
Boot(w) ==
    /\ ~booted[w] /\ Idle(w)
    /\ hbAge' = [hbAge EXCEPT ![w] = 0]
    /\ booted' = [booted EXCEPT ![w] = TRUE]
    /\ unread' = [unread EXCEPT ![w] = {v \in Workers \ {w} : hbAge[v] # NoFile}]
    /\ UNCHANGED <<items, drain, tries, found>>

\* A file that is older than one's own is no sign of death.
AnyOlder(w, v) == hbAge[v] > hbAge[w]

\* now - ts > stale_threshold_s, where `now' is the start of w's tick, the time its
\* own file holds.
Stale(w, v) == hbAge[v] - hbAge[w] > StaleAge

\* _reclaim_stale reads one file, under no lock.
ReadFile(w) ==
    /\ booted[w] /\ Idle(w) /\ found[w] = NoOne
    /\ \E v \in unread[w] :
         /\ unread' = [unread EXCEPT ![w] = @ \ {v}]
         /\ found' = [found EXCEPT ![w] = IF Stale(w, v) THEN v ELSE NoOne]
    /\ UNCHANGED <<items, hbAge, drain, tries, booted>>

\* release_all_claimed_by, later and under the queue's flock: whatever the worker
\* found stale owns by now.
ReleaseFound(w) ==
    /\ booted[w] /\ Idle(w) /\ found[w] # NoOne
    /\ items' = Freed({found[w]})
    /\ found' = [found EXCEPT ![w] = NoOne]
    /\ UNCHANGED <<hbAge, drain, tries, booted, unread>>

\* The first tick's reclaim is over (_reclaimed), or a later tick's is not due.
Reclaimed(w) == booted[w] /\ unread[w] = {} /\ found[w] = NoOne

\* run_once: stamp the heartbeat file, then Queue.claim.
Poll(w) ==
    /\ Reclaimed(w) /\ Idle(w)
    /\ hbAge' = [hbAge EXCEPT ![w] = 0]
    /\ \/ /\ Claimable(w) = {}
          /\ UNCHANGED <<items, drain, tries>>
       \/ \E i \in Claimable(w) :
            /\ \A j \in Claimable(w) : Before(i, j)
            /\ items[i].attempts < AttemptBound
            /\ items' = [items EXCEPT
                 ![i].owner = w, ![i].hidden = Visibility, ![i].attempts = @ + 1]
            /\ drain' = [drain EXCEPT ![w] = i]
            /\ tries' = [tries EXCEPT ![w] = items[i].attempts + 1]
    /\ UNCHANGED <<booted, sweep>>

\* The worker leaves _drain.
Leave(w) == drain' = [drain EXCEPT ![w] = NoItem] /\ tries' = [tries EXCEPT ![w] = 0]

\* Queue.heartbeat, by the keeper thread or between turns: the owner renews its
\* lease, and a worker that is no longer the owner stops (_LeaseLostError).
Beat(w) ==
    /\ ~Idle(w)
    /\ IF Owns(w, drain[w])
       THEN /\ items' = [items EXCEPT ![drain[w]].hidden = Visibility]
            /\ UNCHANGED <<drain, tries>>
       ELSE Leave(w) /\ UNCHANGED items
    /\ UNCHANGED <<hbAge, booted, sweep>>

WithoutUnchecked(w, i) == [items EXCEPT ![i] = Absent]
\* Queue.complete: the file without the item, if this worker owns it.
Without(w, i) == IF Owns(w, i) THEN [items EXCEPT ![i] = Absent] ELSE items

\* The item is done, or dead-lettered after its last attempt.
Finish(w) ==
    /\ ~Idle(w)
    /\ items' = Without(w, drain[w])
    /\ Leave(w)
    /\ UNCHANGED <<hbAge, booted, sweep>>

\* What is left of a delay that counts from `now', the time the tick started at
\* (the one the heartbeat file holds), not from the hand-back.
Remaining(w, delay) == IF delay > hbAge[w] THEN delay - hbAge[w] ELSE 0

\* refund_attempt gives back the attempt that claim counted.
Kept(n, refund) == IF refund /\ n > 0 THEN n - 1 ELSE n

\* Queue.release, by the owner only.
ReleasedRefundOnly(w, i, wait, refund) ==
    IF ~Owns(w, i) THEN items
    ELSE [items EXCEPT ![i].owner = IF refund THEN w ELSE NoOne, ![i].hidden = wait,
                       ![i].attempts = Kept(items[i].attempts, refund)]
Released(w, i, wait, refund) ==
    IF ~Owns(w, i) THEN items
    ELSE [items EXCEPT ![i].owner = NoOne, ![i].hidden = wait,
                       ![i].attempts = Kept(items[i].attempts, refund)]

\* Shutdown at a turn boundary: claimable at once, the attempt refunded.
StopAtBoundary(w) ==
    /\ ~Idle(w)
    /\ items' = Released(w, drain[w], 0, TRUE)
    /\ Leave(w)
    /\ UNCHANGED <<hbAge, booted, sweep>>

\* A seat limit: the item rests for resume_delay_s, the attempt refunded.
Rest(w) ==
    /\ ~Idle(w)
    /\ items' = Released(w, drain[w], Remaining(w, ResumeDelay), TRUE)
    /\ Leave(w)
    /\ UNCHANGED <<hbAge, booted, sweep>>

\* A failed execution (TurnError or any exception) with attempts left backs off.
BackOff(w) ==
    /\ ~Idle(w)
    /\ tries[w] < MaxAttempts
    /\ items' = Released(w, drain[w], Remaining(w, Backoff), FALSE)
    /\ Leave(w)
    /\ UNCHANGED <<hbAge, booted, sweep>>

\* A citation item whose RunLock is held: the worker leaves and keeps its claim,
\* which lapses.
Abandon(w) ==
    /\ ~Idle(w)
    /\ Leave(w)
    /\ UNCHANGED <<items, hbAge, booted, sweep>>

\* The process dies; a supervisor may start it again under the same worker id.
Crash(w) ==
    /\ booted[w]
    /\ booted' = [booted EXCEPT ![w] = FALSE]
    /\ unread' = [unread EXCEPT ![w] = {}]
    /\ found' = [found EXCEPT ![w] = NoOne]
    /\ Leave(w)
    /\ UNCHANGED <<items, hbAge>>

Older(a) == IF a = NoFile \/ a = Ancient THEN a ELSE a + 1
Sooner(t) == IF t = 0 THEN 0 ELSE t - 1

\* MaxScan bounds the clock while a sweep is under way, so that the ages it
\* compares are exact.
Tick ==
    /\ \A w \in Workers : booted[w] /\ ~Reclaimed(w) => hbAge[w] < MaxScan
    /\ items' = [i \in Ids |-> IF Present(i)
                               THEN [items[i] EXCEPT !.hidden = Sooner(@)]
                               ELSE items[i]]
    /\ hbAge' = [w \in Workers |-> Older(hbAge[w])]
    /\ UNCHANGED <<drain, tries, booted, sweep>>

WorkerStep(w) ==
    \/ Boot(w) \/ ReadFile(w) \/ ReleaseFound(w) \/ Poll(w) \/ Beat(w) \/ Finish(w)
    \/ StopAtBoundary(w) \/ Rest(w) \/ BackOff(w) \/ Abandon(w) \/ Crash(w)

Next ==
    \/ Tick
    \/ \E i \in Ids : EnsureEnqueued(i)
    \/ \E w \in Workers : WorkerStep(w)

Spec == Init /\ [][Next]_vars

-----------------------------------------------------------------------------
(***************************************************************************)
(* Properties                                                              *)
(***************************************************************************)

\* An owned item was paid for with an attempt: refunds and reclaims never leave
\* a claim that the dead-letter counter has not counted (queue.py release and
\* release_all_claimed_by against claim).
ClaimsAreCounted ==
    \A i \in Ids : Present(i) /\ items[i].owner # NoOne => items[i].attempts > 0

\* A worker that is draining an item it owns loses it only by its own step, once
\* the lease has lapsed, because its heartbeat file has gone stale, or to a booting
\* worker that read the file as stale before this one stamped it again: the file is
\* read outside the queue's lock (worker.py _reclaim_stale), so the newer stamp and
\* the claim that follows it are not seen.
TakeoverJustified ==
    [][\A w \in Workers, i \in Ids :
         /\ drain[w] = i /\ Owns(w, i)
         /\ (items'[i] = Absent \/ items'[i].owner # w)
         => \/ drain'[w] # i
            \/ items[i].hidden = 0
            \/ hbAge[w] > StaleAge
            \/ \E v \in Workers : found[v] = w /\ hbAge[w] <= hbAge[v]]_vars

\* A worker that lost its claim cannot disturb the new owner's: whatever it does
\* last (complete, release, renew) leaves the item as it is.
StaleHolderHarmless ==
    [][\A w \in Workers, i \in Ids :
         drain[w] = i /\ drain'[w] # i /\ ~Owns(w, i) => items'[i] = items[i]]_vars

\* The queue the run engine is specified against: a timer seen as a flag.
Seen(it) == IF it = Absent THEN Absent
            ELSE [owner |-> it.owner, visible |-> it.hidden = 0, attempts |-> it.attempts]
LeaseView == [i \in Ids |-> Seen(items[i])]
Lease == INSTANCE LeaseQueue WITH queue <- LeaseView

\* The file queue with its clock, lanes and reclaim implements LeaseQueue.
ImplementsLeaseQueue == Lease!LQSpec
=============================================================================
