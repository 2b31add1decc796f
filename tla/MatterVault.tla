---------------------------- MODULE MatterVault -----------------------------
(***************************************************************************)
(* One matter's vault with everything that locks, copies, replaces or      *)
(* destroys it: sessions under the run lock, backup and restore, close and *)
(* its recovery, processes that die and containers that are made anew.     *)
(***************************************************************************)
EXTENDS MatterClose

vars == <<storeVars, backupVars, closeVars>>

Init == StoreInit /\ BackupInit /\ CloseInit

Next ==
    \/ SessionStep /\ UNCHANGED <<backupVars, closeVars>>
    \/ BackupStep /\ UNCHANGED closeVars
    \/ CloseStep
    \/ CreateVault /\ UNCHANGED <<backupVars, closeVars>>
    \/ Expire /\ UNCHANGED <<backupVars, closeVars>>
    \/ \E p \in Procs : KeeperBeat(p) /\ UNCHANGED <<backupVars, closeVars>>
    \/ /\ \/ \E p \in Procs : Crash(p)
          \/ \E b \in Boxes : Redeploy(b)
       /\ shot' = [p \in Procs |-> IF at'[p] = "idle" THEN NoShot ELSE shot[p]]
       /\ late' = (late /\ at'[Closer] # "idle")
       /\ UNCHANGED <<archive, overwritten, quar, intent, tombs, record>>

Spec == Init /\ [][Next]_vars

-----------------------------------------------------------------------------
Tokens == 0..MaxTokens
Inodes == 0..MaxVaults
Lock   == [tok : Tokens, box : Boxes, epoch : 0..MaxCrashes, stale : BOOLEAN]
Vault  == [ino : Inodes, kind : {"matter", "stub", "restored"}, work : 0..MaxWork, hold : BOOLEAN, lock : Lock]
Shot   == [vault : Vault, torn : BOOLEAN]
Phase  == {"idle", "resolved", "locked", "ready", "calling", "fenced", "leaving",
           "reading", "read", "restoring", "closing", "closeLocked", "closeChecked",
           "closeReading", "closeRead", "closeBacked", "closeIntended", "moved", "marked",
           "purged", "entombed", "recorded"}

\* The state is well typed: what the lock file, the vault, the intent and the
\* snapshots can hold (RunLock._payload, CloseIntent, backup_matter).
TypeOK ==
    /\ vault \in Vault /\ quar \in Vault
    /\ creation \in Procs \cup {"free"}
    /\ epoch \in [Boxes -> 0..MaxCrashes]
    /\ at \in [Procs -> Phase] /\ mine \in [Procs -> Tokens] /\ lost \subseteq Procs
    /\ seen \in [Procs -> Inodes \X (0..MaxWork)]
    /\ issued \in Tokens /\ made \in Inodes /\ gone \subseteq Tokens
    /\ stalls \in 0..MaxStalls /\ crashes \in 0..MaxCrashes /\ disturbed \in BOOLEAN
    /\ shot \in [Procs -> Shot] /\ archive \in Shot /\ overwritten \subseteq Inodes
    /\ intent \in [ino : Inodes, work : 0..MaxWork, backed : BOOLEAN, detached : BOOLEAN]
    /\ tombs \in Seq(Inodes) /\ record \in Inodes /\ late \in BOOLEAN

(***************************************************************************)
(* What the locks are for                                                  *)
(***************************************************************************)

\* As long as no live lock runs out and no restore replaces a vault in use, a
\* record is appended only to the journal its writer folded: the lock alone
\* serialises load, fold and append (RunLock.acquire).
SerialAppends ==
    [][\A p \in Sessions :
          (at[p] \in {"ready", "fenced"} /\ at'[p] \in {"locked", "leaving"})
             => disturbed \/ seen[p] = <<vault.ino, vault.work>>]_vars

\* A paid result passes the fence only if no other process took the lock since
\* the driver did, whatever ran out in between, or a restore brought back the
\* lock file as it was archived (_run_turn_with_lock_renewal).
CallFenced ==
    [][\A d \in Drivers :
          at[d] = "calling" /\ at'[d] = "fenced"
             => issued = mine[d] \/ vault.kind = "restored"]_vars

\* An accepted archive is of one moment: no record was appended between its
\* first file and its last, unless a live lock ran out or the vault was
\* replaced (backup_matter).
SnapshotsWhole == archive.torn => disturbed

(***************************************************************************)
(* What is destroyed, and how                                              *)
(***************************************************************************)

\* No vault disappears unaccounted for, whatever crashes in between: it is at
\* its path, in quarantine, named by the pending intent or by a tombstone, or
\* an operator overwrote it (close_matter, restore_matter).
LossAccounted ==
    \A i \in 1..made :
       i \in {vault.ino, quar.ino, intent.ino} \cup ToSet(tombs) \cup overwritten

\* What is purged is the vault the intent names, with every record it holds in
\* the backup the intent tells of, unless the operator waived the backup
\* (_close_matter_locked and its recovery).
DestroyedIsBackedUp ==
    [][quar.ino # 0 /\ quar'.ino = 0
          => /\ intent.ino = quar.ino /\ intent.detached
             /\ intent.backed => intent.work = quar.work \/ disturbed]_vars

\* A vault under litigation hold is not moved to quarantine, by a first attempt
\* or by a retry, unless the hold came after that attempt had read the
\* retention (_enforce_retention_policy).
HoldHonoured == [][vault.ino # 0 /\ quar'.ino = vault.ino => ~vault.hold \/ late]_vars

\* The close record tells the truth: its vault is gone from path and
\* quarantine, and has exactly one tombstone (_finish_close).
RecordTruthful ==
    record # 0 =>
       /\ record \notin {vault.ino, quar.ino}
       /\ Cardinality({i \in DOMAIN tombs : tombs[i] = record}) = 1
=============================================================================
