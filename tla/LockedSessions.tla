--------------------------- MODULE LockedSessions ---------------------------
(***************************************************************************)
(* Sessions under the run lock.  A clerk is one locked operation: fold the *)
(* journal, append, release (record_turn, resolve, attest, the outbox).    *)
(* A driver is run_with_provider: it keeps the lock over the whole run and *)
(* across every paid provider call, renews it from a keeper thread, and    *)
(* drops a result that returns after the lock was lost.                    *)
(* Nothing compares the token when a record is appended.                   *)
(***************************************************************************)
EXTENDS VaultStore

CONSTANTS Drivers, Clerks
ASSUME SessionsAreProcs == Drivers \cup Clerks \subseteq Procs /\ Drivers \cap Clerks = {}

Sessions == Drivers \cup Clerks

Moves(p, from, to) == at[p] = from /\ at' = [at EXCEPT ![p] = to]

\* the route or the command finds the vault; nothing is locked yet
Resolve(p) ==
    /\ IsMatter /\ Moves(p, "idle", "resolved")
    /\ UNCHANGED <<vault, creation, epoch, mine, lost, seen, issued, made, gone,
                   stalls, crashes, disturbed>>

Enter(p) ==
    /\ at[p] = "resolved"
    /\ Acquire(p, "locked")
    /\ UNCHANGED <<creation, epoch, lost, seen, gone, stalls, crashes, disturbed>>

\* LockHeldError: another session has it
TurnedAway(p) ==
    /\ ~CanTake(p, vault.lock) /\ Moves(p, "resolved", "idle")
    /\ UNCHANGED <<vault, creation, epoch, mine, lost, seen, issued, made, gone,
                   stalls, crashes, disturbed>>

\* load_run_context and load_state.  The driver's loop first beats with
\* best_effort=True and ignores the answer.
Load(p) ==
    /\ IsMatter /\ Moves(p, "locked", "ready")
    /\ seen' = [seen EXCEPT ![p] = <<vault.ino, vault.work>>]
    /\ vault' = IF p \in Drivers /\ Owns(p) THEN Renewed ELSE vault
    /\ UNCHANGED <<creation, epoch, mine, lost, issued, made, gone, stalls, crashes, disturbed>>

\* _run_turn_with_lock_renewal: the beat before the call must find our token
BeginCall(d) ==
    /\ Owns(d) /\ Moves(d, "ready", "calling")
    /\ vault' = Renewed
    /\ UNCHANGED <<creation, epoch, mine, lost, seen, issued, made, gone,
                   stalls, crashes, disturbed>>

\* the provider answered; the result passes only if no beat missed the token,
\* and the context is read again before the first write
Fence(d) ==
    /\ d \notin lost /\ Owns(d) /\ IsMatter
    /\ Moves(d, "calling", "fenced")
    /\ vault' = Renewed
    /\ UNCHANGED <<creation, epoch, mine, lost, seen, issued, made, gone,
                   stalls, crashes, disturbed>>

\* the record of the turn, or of the end of the run, reaches the journal that
\* the path names now
AppendRecord(p) ==
    /\ at[p] \in {"ready", "fenced"}
    /\ vault.work < MaxWork
    /\ Present \/ made < MaxVaults
    /\ at' = [at EXCEPT ![p] = IF p \in Drivers THEN "locked" ELSE "leaving"]
    /\ IF Present
       THEN vault' = [vault EXCEPT !.work = @ + 1] /\ made' = made
       ELSE vault' = Stub(1, Unlocked) /\ made' = made + 1
    /\ seen' = [seen EXCEPT ![p] = Nothing]
    /\ UNCHANGED <<creation, epoch, mine, lost, issued, gone, stalls, crashes, disturbed>>

\* release: after the last step, or from an exception at any step
Leave(p) ==
    /\ at[p] \in {"locked", "ready", "calling", "fenced", "leaving"}
    /\ vault' = Freed(p)
    /\ mine' = [mine EXCEPT ![p] = 0]
    /\ at' = [at EXCEPT ![p] = "idle"]
    /\ seen' = [seen EXCEPT ![p] = Nothing]
    /\ lost' = lost \ {p}
    /\ UNCHANGED <<creation, epoch, issued, made, gone, stalls, crashes, disturbed>>

SessionStep ==
    \/ \E p \in Sessions : \/ Resolve(p) \/ Enter(p) \/ TurnedAway(p)
                           \/ Load(p) \/ AppendRecord(p) \/ Leave(p)
    \/ \E d \in Drivers : BeginCall(d) \/ Fence(d)
=============================================================================
