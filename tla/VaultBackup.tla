---------------------------- MODULE VaultBackup -----------------------------
(***************************************************************************)
(* Snapshots of the vault and what is made of them.  tar.add reads the     *)
(* files one after the other while the matter lock is held and a keeper    *)
(* thread renews it; the artifact is kept unless a beat missed the token.  *)
(* There is no beat after the last file.  The tar holds runs/.lock too.    *)
(* restore_matter takes the creation lock only, never the run lock.        *)
(***************************************************************************)
EXTENDS LockedSessions

CONSTANT Archivist          \* the process of the backup command
ASSUME ArchivistIsProc == Archivist \in Procs \ Sessions

VARIABLES
    shot,           \* the snapshot a process is reading
    archive,        \* the last artifact that was accepted
    overwritten     \* vaults that restore --overwrite removed

backupVars == <<shot, archive, overwritten>>

NoShot == [vault |-> Absent, torn |-> FALSE]

\* the first files are read, the journal among them
StartReading(p, from, to) ==
    /\ IsMatter /\ Moves(p, from, to)
    /\ shot' = [shot EXCEPT ![p] = [vault |-> vault, torn |-> FALSE]]
    /\ UNCHANGED <<vault, creation, epoch, mine, lost, seen, issued, made, gone,
                   stalls, crashes, disturbed, archive, overwritten>>

\* the last ones: the turn bodies and ledgers that belong to the records appended
FinishReading(p, from, to) ==
    /\ Present /\ Moves(p, from, to)
    /\ shot' = [shot EXCEPT ![p].torn =
                   <<vault.ino, vault.work>> # <<shot[p].vault.ino, shot[p].vault.work>>]
    /\ UNCHANGED <<vault, creation, epoch, mine, lost, seen, issued, made, gone,
                   stalls, crashes, disturbed, archive, overwritten>>

\* sealed, read back and returned
Accepted(p) == archive' = shot[p]

BackupResolve == Resolve(Archivist) /\ UNCHANGED backupVars
BackupEnter == Enter(Archivist) /\ UNCHANGED backupVars
BackupRefused == TurnedAway(Archivist) /\ UNCHANGED backupVars
\* the first files are read before the lock is taken
BackupReadUnlocked == StartReading(Archivist, "resolved", "reading")
BackupRead == StartReading(Archivist, "locked", "reading")
BackupReadOn == FinishReading(Archivist, "reading", "read")

\* leaving the lock: the command's process ends
BackupDone(keep) ==
    /\ at[Archivist] \in {"locked", "reading", "read"}
    /\ keep => at[Archivist] = "read" /\ Archivist \notin lost
    /\ IF keep THEN Accepted(Archivist) ELSE archive' = archive
    /\ shot' = [shot EXCEPT ![Archivist] = NoShot]
    /\ vault' = Freed(Archivist)
    /\ gone' = gone \cup {mine[Archivist]}
    /\ mine' = [mine EXCEPT ![Archivist] = 0]
    /\ at' = [at EXCEPT ![Archivist] = "idle"]
    /\ lost' = lost \ {Archivist}
    /\ UNCHANGED <<creation, epoch, seen, issued, made, stalls, crashes,
                   disturbed, overwritten>>

(***************************************************************************)
(* Restore                                                                 *)
(***************************************************************************)

HasArchive == archive.vault.ino # 0

\* the staged extract is moved to the path
Publish ==
    /\ made < MaxVaults
    /\ vault' = [archive.vault EXCEPT !.ino = made + 1, !.kind = "restored"]
    /\ made' = made + 1

Restore ==
    /\ HasArchive /\ creation = "free" /\ ~Present
    /\ Publish
    /\ UNCHANGED <<creation, epoch, at, mine, lost, seen, issued, gone, stalls, crashes,
                   disturbed, backupVars>>

\* --overwrite removes the vault first, whoever works in it
RestoreWipe ==
    /\ HasArchive /\ creation = "free" /\ Present /\ made < MaxVaults
    /\ creation' = Archivist
    /\ Moves(Archivist, "idle", "restoring")
    /\ overwritten' = overwritten \cup {vault.ino}
    /\ disturbed' = (disturbed \/ \E p \in Procs : at[p] # "idle")
    /\ vault' = Absent
    /\ UNCHANGED <<epoch, mine, lost, seen, issued, made, gone, stalls, crashes,
                   shot, archive>>

RestorePublish ==
    /\ ~Present /\ Publish
    /\ Moves(Archivist, "restoring", "idle")
    /\ creation' = "free"
    /\ UNCHANGED <<epoch, mine, lost, seen, issued, gone, stalls, crashes, disturbed, backupVars>>

\* os.replace onto a directory that is not empty: a stub came first
RestoreBlocked ==
    /\ Present /\ Moves(Archivist, "restoring", "idle")
    /\ creation' = "free"
    /\ UNCHANGED <<vault, epoch, mine, lost, seen, issued, made, gone, stalls, crashes,
                   disturbed, backupVars>>

BackupStep ==
    \/ BackupResolve \/ BackupEnter \/ BackupRefused \/ BackupRead \/ BackupReadOn
    \/ BackupDone(TRUE) \/ BackupDone(FALSE)
    \/ Restore \/ RestoreWipe \/ RestorePublish \/ RestoreBlocked

BackupInit ==
    /\ shot = [p \in Procs |-> NoShot]
    /\ archive = NoShot
    /\ overwritten = {}
=============================================================================
