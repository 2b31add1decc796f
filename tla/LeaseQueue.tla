----------------------------- MODULE LeaseQueue -----------------------------
(***************************************************************************)
(* The driver queue (engine/queue.py) as its clients may rely on it: live  *)
(* work items, each free or owned by one worker, and claimable or hidden.  *)
(* Clocks and lanes are left out (DriverQueue adds them and implements     *)
(* this module): a claim hides the item, and it surfaces again at a time   *)
(* the client does not choose.  Every operation runs under the queue's     *)
(* flock and rewrites the whole file atomically, so each is one step.      *)
(***************************************************************************)
EXTENDS Integers, FiniteSets

CONSTANTS Ids,      \* deterministic item ids (run:<matter>:<run>, ...)
          Workers,  \* worker ids
          NoOne,    \* claimed_by = None
          Absent    \* no live item has this id

ASSUME NoOneAssumption == NoOne \notin Workers

Item == [owner : Workers \cup {NoOne}, visible : BOOLEAN, attempts : Nat]

ASSUME AbsentAssumption == Absent \notin Item

VARIABLE queue

LQTypeOK == queue \in [Ids -> Item \cup {Absent}]

LQInit == queue = [i \in Ids |-> Absent]

Present(i) == queue[i] # Absent
Owns(w, i) == Present(i) /\ queue[i].owner = w

-----------------------------------------------------------------------------
Entry(o, v, n) == [owner |-> o, visible |-> v, attempts |-> n]

\* Queue.ensure_enqueued: at most one live item per deterministic id; an
\* existing item is returned as it is, claimed or not.
EnsureEnqueued(i) ==
    queue' = IF Present(i) THEN queue
             ELSE [queue EXCEPT ![i] = Entry(NoOne, TRUE, 0)]

\* Queue.claim: a visible item (free, or a claim that lapsed) gets a new owner
\* and one more attempt, and is hidden for a visibility timeout.
Claim(w, i) ==
    /\ Present(i)
    /\ queue[i].visible
    /\ queue' = [queue EXCEPT ![i] = Entry(w, FALSE, queue[i].attempts + 1)]

\* Queue.heartbeat by the owner renews the lease (it returns False otherwise).
Renew(w, i) ==
    /\ Owns(w, i)
    /\ queue' = [queue EXCEPT ![i] = Entry(w, FALSE, queue[i].attempts)]

\* Queue.complete removes the item, if it is this worker's.
Complete(w, i) ==
    queue' = IF Owns(w, i) THEN [queue EXCEPT ![i] = Absent] ELSE queue

\* Queue.release: back to the queue, claimable now or after a delay; a control
\* plane release gives the attempt back.
Kept(n, refund) == IF refund /\ n > 0 THEN n - 1 ELSE n

Release(w, i, refund, now) ==
    queue' = IF ~Owns(w, i) THEN queue
             ELSE [queue EXCEPT ![i] =
                      Entry(NoOne, now, Kept(queue[i].attempts, refund))]

\* Queue.release_all_claimed_by, for every worker found stale.
Reclaim(stale) ==
    queue' = [i \in Ids |-> IF Present(i) /\ queue[i].owner \in stale
                            THEN Entry(NoOne, TRUE, queue[i].attempts)
                            ELSE queue[i]]

\* visible_at passes for the items of S: leases lapse, delayed releases come due.
Surface(S) ==
    queue' = [i \in Ids |-> IF i \in S /\ Present(i)
                            THEN Entry(queue[i].owner, TRUE, queue[i].attempts)
                            ELSE queue[i]]

LQNext ==
    \/ \E i \in Ids : EnsureEnqueued(i)
    \/ \E w \in Workers, i \in Ids : Claim(w, i) \/ Renew(w, i) \/ Complete(w, i)
    \/ \E w \in Workers, i \in Ids, refund, now \in BOOLEAN : Release(w, i, refund, now)
    \/ \E stale \in SUBSET Workers : Reclaim(stale)
    \/ \E S \in SUBSET Ids : Surface(S)

LQSpec == LQInit /\ [][LQNext]_queue
=============================================================================
