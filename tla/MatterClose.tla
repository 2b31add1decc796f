---------------------------- MODULE MatterClose -----------------------------
(***************************************************************************)
(* close_matter: destroy a vault so that a crash between any two steps is  *)
(* finished, or refused, by the next attempt.  Under the creation lock     *)
(* throughout, and under the run lock until the purge:                     *)
(*   retention, backup, intent, move to quarantine, intent.detached,       *)
(*   purge, tombstone, close record, intent removed.                       *)
(***************************************************************************)
EXTENDS VaultBackup, Sequences, SequencesExt

CONSTANT Closer
ASSUME CloserIsProc == Closer \in Procs \ Sessions

VARIABLES
    quar,           \* the quarantined vault
    intent,         \* .closed/<id>.pending.json
    tombs,          \* .closed/access-tombstones.jsonl: the vaults named there
    record,         \* .closed/<id>.json: the vault it tells of
    late            \* the hold was set after this attempt read the retention

closeVars == <<quar, intent, tombs, record, late>>

NoIntent == [ino |-> 0, work |-> 0, backed |-> FALSE, detached |-> FALSE]

HasIntent == intent.ino # 0

Past(phases) == at[Closer] \in phases

\* an attempt that finds the intent of an earlier one goes on with the move
RecoveredAtMove ==
    CASE HasIntent /\ quar.ino # 0 /\ quar.ino = intent.ino     -> "moved"
      [] HasIntent /\ quar.ino = 0 /\ intent.detached           -> "purged"
      [] HasIntent /\ quar.ino = 0 /\ ~intent.detached
                   /\ vault.ino = intent.ino                    -> "closeIntended"
      [] ~HasIntent /\ Present                                  -> "closing"
      [] OTHER                                                  -> "refused"

\* the state a new attempt finds decides where it goes on
Recovered ==
    CASE HasIntent /\ quar.ino # 0 /\ quar.ino = intent.ino     -> "moved"
      [] HasIntent /\ quar.ino = 0 /\ intent.detached           -> "purged"
      [] HasIntent /\ quar.ino = 0 /\ ~intent.detached
                   /\ vault.ino = intent.ino                    -> "closing"
      [] ~HasIntent /\ Present                                  -> "closing"
      [] OTHER                                                  -> "refused"

CloseBegin ==
    /\ creation = "free" /\ at[Closer] = "idle"
    /\ Recovered # "refused"
    /\ creation' = Closer
    /\ at' = [at EXCEPT ![Closer] = Recovered]
    /\ UNCHANGED <<vault, epoch, mine, lost, seen, issued, made, gone, stalls, crashes,
                   disturbed, backupVars, closeVars>>

CloseLock ==
    /\ at[Closer] = "closing" /\ IsMatter
    /\ Acquire(Closer, "closeLocked")
    /\ UNCHANGED <<creation, epoch, lost, seen, gone, stalls, crashes, disturbed,
                   backupVars, closeVars>>

\* _enforce_retention_policy
CloseRetention ==
    /\ ~vault.hold /\ Moves(Closer, "closeLocked", "closeChecked")
    /\ late' = FALSE
    /\ UNCHANGED <<vault, creation, epoch, mine, lost, seen, issued, made, gone,
                   stalls, crashes, disturbed, backupVars, quar, intent, tombs, record>>

CloseRead == StartReading(Closer, "closeChecked", "closeReading") /\ UNCHANGED closeVars
CloseReadOn == FinishReading(Closer, "closeReading", "closeRead") /\ UNCHANGED closeVars

CloseBackup ==
    /\ Closer \notin lost /\ Moves(Closer, "closeRead", "closeBacked")
    /\ Accepted(Closer)
    /\ UNCHANGED <<vault, creation, epoch, mine, lost, seen, issued, made, gone,
                   stalls, crashes, disturbed, shot, overwritten, closeVars>>

\* --skip-backup with its acknowledgement
Waived(to) ==
    /\ Moves(Closer, "closeChecked", to)
    /\ shot' = [shot EXCEPT ![Closer] = NoShot]
    /\ UNCHANGED <<vault, creation, epoch, mine, lost, seen, issued, made, gone,
                   stalls, crashes, disturbed, archive, overwritten, closeVars>>

\* the waived path forgets the intent
CloseUnbackedNoIntent == Waived("closeIntended")
CloseUnbacked == Waived("closeBacked")

\* inventory, tombstone and record are made up and written down
CloseIntend ==
    /\ Present /\ Moves(Closer, "closeBacked", "closeIntended")
    /\ intent' = [ino |-> vault.ino, work |-> shot[Closer].vault.work,
                  backed |-> shot[Closer].vault.ino # 0, detached |-> FALSE]
    /\ UNCHANGED <<vault, creation, epoch, mine, lost, seen, issued, made, gone,
                   stalls, crashes, disturbed, backupVars, quar, tombs, record, late>>

CloseMove ==
    /\ Present /\ Moves(Closer, "closeIntended", "moved")
    /\ quar' = vault /\ vault' = Absent /\ late' = FALSE
    /\ UNCHANGED <<creation, epoch, mine, lost, seen, issued, made, gone,
                   stalls, crashes, disturbed, backupVars, intent, tombs, record>>

CloseMark ==
    /\ Moves(Closer, "moved", "marked")
    /\ intent' = [intent EXCEPT !.detached = TRUE]
    /\ UNCHANGED <<vault, creation, epoch, mine, lost, seen, issued, made, gone,
                   stalls, crashes, disturbed, backupVars, quar, tombs, record, late>>

\* the command's process, which ends with it, has no lock any more
EndsLock ==
    /\ gone' = gone \cup {mine[p] : p \in {Closer} \cap Live}
    /\ mine' = [mine EXCEPT ![Closer] = 0]
    /\ shot' = [shot EXCEPT ![Closer] = NoShot]
    /\ lost' = lost \ {Closer}

\* the quarantined tree goes, the lock file with it
ClosePurge ==
    /\ Moves(Closer, "marked", "purged")
    /\ quar' = Absent
    /\ vault' = Freed(Closer)
    /\ EndsLock
    /\ UNCHANGED <<creation, epoch, seen, issued, made, stalls, crashes,
                   disturbed, archive, overwritten, intent, tombs, record, late>>

\* a tombstone per attempt
EntombedAgain == Append(tombs, intent.ino)

\* _append_tombstone: once per entry hash
Entombed == IF intent.ino \in ToSet(tombs) THEN tombs ELSE Append(tombs, intent.ino)

CloseTomb ==
    /\ Moves(Closer, "purged", "entombed")
    /\ tombs' = Entombed
    /\ UNCHANGED <<vault, creation, epoch, mine, lost, seen, issued, made, gone,
                   stalls, crashes, disturbed, backupVars, quar, intent, record, late>>

CloseRecord ==
    /\ Moves(Closer, "entombed", "recorded")
    /\ record' = intent.ino
    /\ UNCHANGED <<vault, creation, epoch, mine, lost, seen, issued, made, gone,
                   stalls, crashes, disturbed, backupVars, quar, intent, tombs, late>>

CloseEnd ==
    /\ Moves(Closer, "recorded", "idle")
    /\ intent' = NoIntent /\ creation' = "free"
    /\ UNCHANGED <<vault, epoch, mine, lost, seen, issued, made, gone, stalls, crashes,
                   disturbed, backupVars, quar, tombs, record, late>>

\* CloseError before the move: lock held, hold, backup failed, vault vanished
CloseFails ==
    /\ Past({"closing", "closeLocked", "closeChecked", "closeReading", "closeRead",
             "closeBacked", "closeIntended"})
    /\ vault' = Freed(Closer)
    /\ EndsLock
    /\ at' = [at EXCEPT ![Closer] = "idle"]
    /\ creation' = "free" /\ late' = FALSE
    /\ UNCHANGED <<epoch, seen, issued, made, stalls, crashes, disturbed,
                   archive, overwritten, quar, intent, tombs, record>>

\* matter.yaml is edited by hand, under no lock; a hold is not lifted here
SetHold ==
    /\ IsMatter /\ ~vault.hold
    /\ vault' = [vault EXCEPT !.hold = TRUE]
    /\ late' = (late \/ Past({"closeChecked", "closeReading", "closeRead", "closeBacked",
                              "closeIntended"}))
    /\ UNCHANGED <<creation, epoch, at, mine, lost, seen, issued, made, gone,
                   stalls, crashes, disturbed, backupVars, quar, intent, tombs, record>>

CloseStep ==
    \/ CloseBegin \/ CloseLock \/ CloseRetention \/ CloseRead \/ CloseReadOn
    \/ CloseBackup \/ CloseUnbacked \/ CloseIntend \/ CloseMove \/ CloseMark
    \/ ClosePurge \/ CloseTomb \/ CloseRecord \/ CloseEnd \/ CloseFails
    \/ SetHold

CloseInit ==
    /\ quar = Absent /\ intent = NoIntent /\ tombs = <<>> /\ record = 0 /\ late = FALSE
=============================================================================
