------------------------- MODULE MatterVaultProofs --------------------------
(***************************************************************************)
(* The vault of one matter keeps its promises for every number of          *)
(* sessions, containers, vaults, crashes and stalls.                       *)
(*                                                                         *)
(* The argument is one inductive invariant, Inv, in four parts: the types; *)
(* run-lock tokens, which are never handed out twice; where a close stands *)
(* and what that says of path, quarantine, intent and tombstones; and, as  *)
(* long as nothing disturbed a session, that who works under the lock      *)
(* still owns it, so that what it folded or copied is still current.       *)
(***************************************************************************)
EXTENDS MatterVault, FiniteSetTheorems, TLAPS

(***************************************************************************)
(* Types and tokens                                                        *)
(***************************************************************************)

TypeInv == TypeOK /\ \A b \in Boxes : epoch[b] <= crashes

TokenInv ==
    /\ vault.kind # "restored" => vault.lock.tok \in {0, issued}
    /\ vault.ino = 0 => vault.lock.tok = 0
    /\ archive.vault.lock.tok <= issued
    /\ \A p \in Procs : shot[p].vault.lock.tok <= issued /\ mine[p] <= issued
    /\ vault.lock.tok <= issued
    /\ \A t \in gone : t <= issued
    /\ \A p \in Procs : mine[p] # 0 =>
          /\ mine[p] \notin gone
          /\ \A q \in Procs : mine[q] = mine[p] => q = p

(***************************************************************************)
(* Where a close stands                                                    *)
(***************************************************************************)

Checked   == {"closeChecked", "closeReading", "closeRead", "closeBacked", "closeIntended"}
Preparing == Checked \cup {"closing", "closeLocked"}
Away      == {"moved", "marked"}
Purged    == {"purged", "entombed", "recorded"}
Closing   == Preparing \cup Away \cup Purged

CreationInv ==
    /\ at[Closer] \in Closing => creation = Closer
    /\ at[Archivist] = "restoring" => creation = Archivist

Named == {tombs[k] : k \in DOMAIN tombs}

InodesMade ==
    /\ vault.ino <= made /\ quar.ino <= made /\ intent.ino <= made
    /\ \A i \in Named : i \in 1..made

\* a vault is at one place, and the intent follows it out of the path
OnePlace ==
    /\ quar.ino # 0 => quar.ino = intent.ino /\ quar.ino # vault.ino
    /\ intent.detached => intent.ino \notin {0, vault.ino}
    /\ \A i \in Named : i # vault.ino /\ i # quar.ino
    /\ \A j, k \in DOMAIN tombs : tombs[j] = tombs[k] => j = k
    /\ record \in Named \cup {0}

Stands ==
    /\ at[Closer] \in Preparing =>
          Present /\ quar.ino = 0 /\ intent.ino \in {0, vault.ino}
    /\ at[Closer] \in Checked => (vault.hold => late)
    /\ at[Closer] = "closeIntended" => intent.ino = vault.ino
    /\ at[Closer] \in Away => quar.ino # 0
    /\ at[Closer] = "marked" => intent.detached
    /\ at[Closer] \in Purged => quar.ino = 0 /\ intent.ino # 0 /\ intent.detached
    /\ at[Closer] \in {"entombed", "recorded"} => intent.ino \in Named

Accounted == \A i \in 1..made :
    i \in {vault.ino, quar.ino, intent.ino} \cup Named \cup overwritten

CloseInv == CreationInv /\ InodesMade /\ OnePlace /\ Stands /\ Accounted

(***************************************************************************)
(* Under the lock                                                          *)
(***************************************************************************)

\* phases of a session, a backup and a close under the run lock
Held == {"locked", "ready", "calling", "fenced", "leaving", "reading", "read", "closeLocked"}
           \cup Checked

Reading == {"reading", "closeReading", "closeRead"}

\* the snapshot and the vault are of one inode and one journal length
Current(p) == shot[p].vault.ino = vault.ino /\ shot[p].vault.work = vault.work

HeldIsOwned == \A p \in Procs : at[p] \in Held => Owns(p)
StaleIsFree == vault.lock.stale => \A p \in Procs : ~Owns(p)

\* only a close that goes on has the token its own snapshot holds
ArchiveIsFree ==
    \A p \in Procs : mine[p] # 0 /\ archive.vault.lock.tok = mine[p]
        => p = Closer /\ at[p] \in Away \cup {"closeBacked", "closeIntended"}

SnapshotToken ==
    \A p \in Procs : at[p] \in Reading \cup {"read"} => shot[p].vault.lock.tok = mine[p]

FoldsCurrent ==
    \A p \in Procs :
        at[p] \in {"ready", "calling", "fenced"} => seen[p] = <<vault.ino, vault.work>>

SnapshotsCurrent ==
    /\ \A p \in Procs : at[p] \in Reading => Current(p)
    /\ at[Closer] = "closeBacked" => shot[Closer].vault.ino = 0 \/ Current(Closer)

BackedUp ==
    /\ at[Closer] = "closeIntended" /\ intent.backed => intent.work = vault.work
    /\ quar.ino # 0 /\ intent.backed => intent.work = quar.work

NotTorn == ~archive.torn /\ \A p \in Procs : ~shot[p].torn

Guarded ==
    /\ HeldIsOwned /\ StaleIsFree /\ ArchiveIsFree /\ SnapshotToken
    /\ FoldsCurrent /\ SnapshotsCurrent /\ BackedUp /\ NotTorn

LockInv == ~disturbed => Guarded

Inv == TypeInv /\ TokenInv /\ CloseInv /\ LockInv

(***************************************************************************)
(* Constants and records                                                   *)
(***************************************************************************)

LEMMA Constants ==
    /\ MaxTokens \in Nat /\ MaxWork \in Nat /\ MaxStalls \in Nat /\ MaxCrashes \in Nat
    /\ MaxVaults \in Nat /\ MaxVaults >= 1
    /\ Archivist \in Procs /\ Archivist \notin Sessions
    /\ Closer \in Procs /\ Closer \notin Sessions
    /\ Sessions \subseteq Procs /\ Drivers \subseteq Sessions
    /\ Box \in [Procs -> Boxes] /\ "free" \notin Procs
BY FreeIsNobody, ProcsInBoxes, BoundsAreNumbers, SessionsAreProcs, ArchivistIsProc, CloserIsProc
   DEF Sessions

LEMMA UnlockedFields ==
    Unlocked \in Lock /\ Unlocked.tok = 0 /\ Unlocked.stale = FALSE
<1>1. PICK b \in Boxes : b = (CHOOSE c \in Boxes : TRUE)
  BY Constants
<1> QED BY <1>1, Constants DEF Unlocked, Lock, Tokens

\* no vault at the path, or in quarantine
LEMMA AbsentFields ==
    /\ Absent \in Vault /\ Absent.ino = 0 /\ Absent.kind = "matter" /\ Absent.work = 0
    /\ Absent.hold = FALSE /\ Absent.lock = Unlocked
BY UnlockedFields, Constants DEF Absent, Vault, Inodes

\* what a change of one field leaves alone
LEMMA VaultFields ==
    ASSUME NEW v \in Vault
    PROVE  /\ v.ino \in Inodes /\ v.kind \in {"matter", "stub", "restored"}
           /\ v.work \in 0..MaxWork /\ v.hold \in BOOLEAN /\ v.lock \in Lock
           /\ v.lock.tok \in Tokens /\ v.lock.box \in Boxes
           /\ v.lock.epoch \in 0..MaxCrashes /\ v.lock.stale \in BOOLEAN
BY DEF Vault, Lock

LEMMA LockChanged ==
    ASSUME NEW v \in Vault, NEW l \in Lock
    PROVE  LET w == [v EXCEPT !.lock = l] IN
           w \in Vault /\ w.ino = v.ino /\ w.kind = v.kind /\ w.work = v.work
             /\ w.hold = v.hold /\ w.lock = l
BY DEF Vault

LEMMA WorkChanged ==
    ASSUME NEW v \in Vault, v.work < MaxWork
    PROVE  LET w == [v EXCEPT !.work = @ + 1] IN
           w \in Vault /\ w.ino = v.ino /\ w.kind = v.kind /\ w.work = v.work + 1
             /\ w.hold = v.hold /\ w.lock = v.lock
BY Constants DEF Vault

LEMMA HoldChanged ==
    ASSUME NEW v \in Vault
    PROVE  LET w == [v EXCEPT !.hold = TRUE] IN
           w \in Vault /\ w.ino = v.ino /\ w.kind = v.kind /\ w.work = v.work
             /\ w.hold = TRUE /\ w.lock = v.lock
BY DEF Vault

LEMMA StaleChanged ==
    ASSUME NEW v \in Vault, NEW s \in BOOLEAN
    PROVE  LET w == [v EXCEPT !.lock.stale = s] IN
           w \in Vault /\ w.ino = v.ino /\ w.kind = v.kind /\ w.work = v.work
             /\ w.hold = v.hold /\ w.lock.tok = v.lock.tok /\ w.lock.stale = s
<1>1. /\ [v.lock EXCEPT !.stale = s] \in Lock
      /\ [v.lock EXCEPT !.stale = s].tok = v.lock.tok
      /\ [v.lock EXCEPT !.stale = s].stale = s
  BY DEF Vault, Lock
<1>2. [v EXCEPT !.lock.stale = s] = [v EXCEPT !.lock = [v.lock EXCEPT !.stale = s]]
  BY DEF Vault, Lock
<1> QED BY <1>1, <1>2, LockChanged

LEMMA LockOfFields ==
    ASSUME TypeInv, NEW p \in Procs, NEW t \in Tokens
    PROVE  LockOf(p, t) \in Lock /\ LockOf(p, t).tok = t /\ LockOf(p, t).stale = FALSE
<1>1. Box[p] \in Boxes /\ epoch[Box[p]] \in 0..MaxCrashes
  BY Constants DEF TypeInv, TypeOK
<1> QED BY <1>1 DEF LockOf, Lock

LEMMA StubFields ==
    ASSUME TypeInv, made < MaxVaults, NEW w \in 0..MaxWork, NEW l \in Lock
    PROVE  /\ Stub(w, l) \in Vault /\ Stub(w, l).ino = made + 1 /\ Stub(w, l).kind = "stub"
           /\ Stub(w, l).work = w /\ Stub(w, l).hold = FALSE /\ Stub(w, l).lock = l
<1>1. made + 1 \in Inodes
  BY Constants DEF TypeInv, TypeOK, Inodes
<1> QED BY <1>1 DEF Stub, Absent, Vault

\* CreateVault and Publish make a vault of another one
LEMMA MadeFields ==
    ASSUME TypeInv, made < MaxVaults, NEW v \in Vault
    PROVE  /\ LET w == [v EXCEPT !.ino = made + 1] IN
              w \in Vault /\ w.ino = made + 1 /\ w.kind = v.kind /\ w.work = v.work
                /\ w.hold = v.hold /\ w.lock = v.lock
           /\ LET w == [v EXCEPT !.ino = made + 1, !.kind = "restored"] IN
              w \in Vault /\ w.ino = made + 1 /\ w.kind = "restored" /\ w.work = v.work
                /\ w.hold = v.hold /\ w.lock = v.lock
<1>1. made + 1 \in Inodes
  BY Constants DEF TypeInv, TypeOK, Inodes
<1> QED BY <1>1 DEF Vault

LEMMA RenewedFields ==
    ASSUME TypeInv
    PROVE  /\ Renewed \in Vault /\ Renewed.ino = vault.ino /\ Renewed.kind = vault.kind
           /\ Renewed.work = vault.work /\ Renewed.hold = vault.hold
           /\ Renewed.lock.tok = vault.lock.tok /\ Renewed.lock.stale = FALSE
BY StaleChanged DEF Renewed, TypeInv, TypeOK

LEMMA FreedFields ==
    ASSUME TypeInv, NEW p \in Procs
    PROVE  /\ Freed(p) \in Vault /\ Freed(p).ino = vault.ino /\ Freed(p).kind = vault.kind
           /\ Freed(p).work = vault.work /\ Freed(p).hold = vault.hold
           /\ Owns(p) => Freed(p).lock.tok = 0 /\ Freed(p).lock.stale = FALSE
           /\ ~Owns(p) => Freed(p).lock = vault.lock
<1>1. vault \in Vault
  BY DEF TypeInv, TypeOK
<1>2. CASE Owns(p)
  BY <1>1, <1>2, LockChanged, UnlockedFields DEF Freed
<1>3. CASE ~Owns(p)
  BY <1>1, <1>3 DEF Freed
<1> QED BY <1>2, <1>3
\* what variables are set to that holds nothing
LEMMA NothingFields ==
    /\ 0 \in Tokens /\ 0 \in Inodes /\ Nothing \in Inodes \X (0..MaxWork)
    /\ Absent \in Vault
    /\ NoShot \in Shot /\ NoShot.vault = Absent /\ NoShot.torn = FALSE
    /\ NoIntent \in [ino : Inodes, work : 0..MaxWork, backed : BOOLEAN, detached : BOOLEAN]
    /\ NoIntent.ino = 0 /\ NoIntent.detached = FALSE /\ NoIntent.backed = FALSE
BY AbsentFields, Constants DEF Tokens, Inodes, Nothing, NoShot, Shot, NoIntent

LEMMA NextToken ==
    ASSUME TypeInv, issued < MaxTokens
    PROVE  issued + 1 \in Tokens
BY Constants DEF TypeInv, TypeOK, Tokens

LEMMA NextInode ==
    ASSUME TypeInv, made < MaxVaults
    PROVE  made + 1 \in Inodes
BY Constants DEF TypeInv, TypeOK, Inodes

LEMMA RecoveredPhase == Recovered \in {"moved", "purged", "closing", "refused"}
BY DEF Recovered

\* a lock taken: of the vault that is there, or of a stub made for it
LEMMA Acquired ==
    ASSUME TypeInv, NEW p \in Procs, NEW phase, Acquire(p, phase)
    PROVE  /\ vault' \in Vault /\ vault'.lock.tok = issued + 1 /\ ~vault'.lock.stale
           /\ issued' = issued + 1 /\ issued' \in Tokens /\ made' \in Inodes
           /\ Present => /\ vault'.ino = vault.ino /\ vault'.kind = vault.kind
                         /\ vault'.work = vault.work /\ vault'.hold = vault.hold
                         /\ made' = made
           /\ ~Present => /\ vault'.ino = made + 1 /\ vault'.kind = "stub"
                          /\ vault'.work = 0 /\ vault'.hold = FALSE
                          /\ made' = made + 1
<1> DEFINE l == LockOf(p, issued + 1)
<1>1. issued < MaxTokens /\ issued' = issued + 1 /\ issued + 1 \in Tokens
  BY NextToken DEF Acquire
<1>2. l \in Lock /\ l.tok = issued + 1 /\ l.stale = FALSE
  BY <1>1, LockOfFields
<1> HIDE DEF l
<1>3. CASE Present
  <2>1. vault \in Vault /\ made \in Inodes
    BY DEF TypeInv, TypeOK
  <2>2. vault' = [vault EXCEPT !.lock = l] /\ made' = made
    BY <1>3 DEF Acquire, l
  <2> QED BY <1>1, <1>2, <1>3, <2>1, <2>2, LockChanged
<1>4. CASE ~Present
  <2>1. made < MaxVaults /\ vault' = Stub(0, l) /\ made' = made + 1
    BY <1>4 DEF Acquire, l
  <2>2. 0 \in 0..MaxWork
    BY Constants
  <2>3. /\ Stub(0, l) \in Vault /\ Stub(0, l).ino = made + 1 /\ Stub(0, l).kind = "stub"
        /\ Stub(0, l).work = 0 /\ Stub(0, l).hold = FALSE /\ Stub(0, l).lock = l
    BY <1>2, <2>1, <2>2, StubFields
  <2> QED BY <1>1, <1>2, <1>4, <2>1, <2>3, NextInode
<1> QED BY <1>3, <1>4

\* a record appended: to the vault that is there, or to a stub made for it
LEMMA Appended ==
    ASSUME TypeInv, NEW p \in Sessions, AppendRecord(p)
    PROVE  /\ vault' \in Vault /\ made' \in Inodes
           /\ Present => /\ vault'.ino = vault.ino /\ vault'.kind = vault.kind
                         /\ vault'.work = vault.work + 1 /\ vault'.hold = vault.hold
                         /\ vault'.lock = vault.lock /\ made' = made
           /\ ~Present => /\ vault'.ino = made + 1 /\ vault'.kind = "stub"
                          /\ vault'.hold = FALSE /\ vault'.lock = Unlocked
                          /\ made' = made + 1
<1>1. vault \in Vault /\ vault.work \in 0..MaxWork /\ made \in Inodes /\ vault.work < MaxWork
  BY VaultFields DEF TypeInv, TypeOK, AppendRecord
<1>2. CASE Present
  <2>1. vault' = [vault EXCEPT !.work = @ + 1] /\ made' = made
    BY <1>2 DEF AppendRecord
  <2> QED BY <1>1, <1>2, <2>1, WorkChanged
<1>3. CASE ~Present
  <2>1. made < MaxVaults /\ vault' = Stub(1, Unlocked) /\ made' = made + 1
    BY <1>3 DEF AppendRecord
  <2>2. 1 \in 0..MaxWork
    BY <1>1, Constants
  <2>3. /\ Stub(1, Unlocked) \in Vault /\ Stub(1, Unlocked).ino = made + 1
        /\ Stub(1, Unlocked).kind = "stub" /\ Stub(1, Unlocked).hold = FALSE
        /\ Stub(1, Unlocked).lock = Unlocked
    BY <2>1, <2>2, StubFields, UnlockedFields
  <2> QED BY <1>3, <2>1, <2>3, NextInode
<1> QED BY <1>2, <1>3

\* the types, as far as the steps below need them
LEMMA Typed ==
    ASSUME TypeInv
    PROVE  /\ issued \in Nat /\ made \in Nat /\ gone \subseteq Nat
           /\ mine \in [Procs -> Nat] /\ at \in [Procs -> Phase]
           /\ shot \in [Procs -> Shot] /\ seen \in [Procs -> Inodes \X (0..MaxWork)]
           /\ vault \in Vault /\ archive.vault \in Vault /\ quar \in Vault
           /\ vault.lock.tok \in Nat /\ archive.vault.lock.tok \in Nat
           /\ \A p \in Procs : shot[p].vault \in Vault /\ shot[p].vault.lock.tok \in Nat
<1>1. /\ issued \in Tokens /\ made \in Inodes /\ gone \subseteq Tokens
      /\ mine \in [Procs -> Tokens] /\ at \in [Procs -> Phase]
      /\ shot \in [Procs -> Shot] /\ seen \in [Procs -> Inodes \X (0..MaxWork)]
      /\ vault \in Vault /\ archive \in Shot /\ quar \in Vault
  BY DEF TypeInv, TypeOK
<1>2. archive.vault \in Vault /\ \A p \in Procs : shot[p].vault \in Vault
  BY <1>1 DEF Shot
<1>3. Tokens \subseteq Nat /\ Inodes \subseteq Nat
  BY Constants DEF Tokens, Inodes
<1>4. /\ vault.lock.tok \in Tokens /\ archive.vault.lock.tok \in Tokens
      /\ \A p \in Procs : shot[p].vault.lock.tok \in Tokens
  BY <1>1, <1>2, VaultFields
<1> QED BY <1>1, <1>2, <1>3, <1>4

(***************************************************************************)
(* A process that is killed and a container that is made anew: the same    *)
(* step, of one process or of all those in the container                   *)
(***************************************************************************)

Deaths(dead) ==
    /\ Dies(dead) /\ crashes < MaxCrashes /\ crashes' = crashes + 1
    /\ epoch' = epoch \/ \E b \in Boxes : epoch' = [epoch EXCEPT ![b] = @ + 1]
    /\ shot' = [p \in Procs |-> IF at'[p] = "idle" THEN NoShot ELSE shot[p]]
    /\ late' = (late /\ at'[Closer] # "idle")
    /\ UNCHANGED <<archive, overwritten, quar, intent, tombs, record>>

LEMMA DeathIsDeaths ==
    ASSUME \/ \E p \in Procs : Crash(p)
           \/ \E b \in Boxes : Redeploy(b),
           shot' = [p \in Procs |-> IF at'[p] = "idle" THEN NoShot ELSE shot[p]],
           late' = (late /\ at'[Closer] # "idle"),
           UNCHANGED <<archive, overwritten, quar, intent, tombs, record>>
    PROVE  \E dead \in SUBSET Procs : Deaths(dead)
<1>1. ASSUME NEW p \in Procs, Crash(p)
      PROVE  \E dead \in SUBSET Procs : Deaths(dead)
  <2>1. Deaths({p})
    BY <1>1 DEF Crash, Deaths
  <2> QED BY <2>1
<1>2. ASSUME NEW b \in Boxes, Redeploy(b)
      PROVE  \E dead \in SUBSET Procs : Deaths(dead)
  <2>1. Deaths({p \in Procs : Box[p] = b})
    BY <1>2 DEF Redeploy, Deaths
  <2> QED BY <2>1
<1> QED BY <1>1, <1>2

(***************************************************************************)
(* The types are kept                                                      *)
(***************************************************************************)

LEMMA TypesKept ==
    ASSUME TypeInv, Next
    PROVE  TypeInv'
<1>1. CASE SessionStep /\ UNCHANGED <<backupVars, closeVars>>
  <2>1. ASSUME NEW p \in Sessions, Resolve(p)  PROVE TypeInv'
    BY <2>1, <1>1, Constants
       DEF Resolve, Moves, TypeInv, TypeOK, Phase, backupVars, closeVars
  <2>2. ASSUME NEW p \in Sessions, Enter(p)  PROVE TypeInv'
    BY <2>2, <1>1, Acquired, Constants
       DEF Enter, Acquire, TypeInv, TypeOK, Phase, backupVars, closeVars
  <2>3. ASSUME NEW p \in Sessions, TurnedAway(p)  PROVE TypeInv'
    BY <2>3, <1>1, Constants
       DEF TurnedAway, Moves, TypeInv, TypeOK, Phase, backupVars, closeVars
  <2>4. ASSUME NEW p \in Sessions, Load(p)  PROVE TypeInv'
    BY <2>4, <1>1, Constants, RenewedFields, VaultFields
       DEF Load, Moves, TypeInv, TypeOK, Phase, backupVars, closeVars
  <2>5. ASSUME NEW p \in Sessions, AppendRecord(p)  PROVE TypeInv'
    BY <2>5, <1>1, Appended, NothingFields, Constants
       DEF AppendRecord, TypeInv, TypeOK, Phase, backupVars, closeVars
  <2>6. ASSUME NEW p \in Sessions, Leave(p)  PROVE TypeInv'
    BY <2>6, <1>1, Constants, FreedFields, NothingFields
       DEF Leave, TypeInv, TypeOK, Phase, backupVars, closeVars
  <2>7. ASSUME NEW d \in Drivers, BeginCall(d)  PROVE TypeInv'
    BY <2>7, <1>1, Constants, RenewedFields
       DEF BeginCall, Moves, TypeInv, TypeOK, Phase, backupVars, closeVars
  <2>8. ASSUME NEW d \in Drivers, Fence(d)  PROVE TypeInv'
    BY <2>8, <1>1, Constants, RenewedFields
       DEF Fence, Moves, TypeInv, TypeOK, Phase, backupVars, closeVars
  <2> QED BY <1>1, <2>1, <2>2, <2>3, <2>4, <2>5, <2>6, <2>7, <2>8 DEF SessionStep
<1>2. CASE BackupStep /\ UNCHANGED closeVars
  <2>1. CASE BackupResolve
    BY <2>1, <1>2, Constants
       DEF BackupResolve, Resolve, Moves, TypeInv, TypeOK, Phase, backupVars,
           closeVars
  <2>2. CASE BackupEnter
    <3>1. Acquire(Archivist, "locked")
      BY <2>2 DEF BackupEnter, Enter
    <3>2. vault' \in Vault /\ made' \in Inodes /\ issued' \in Tokens
      BY <3>1, Acquired, Constants
    <3> QED BY <2>2, <1>2, <3>2, Constants
            DEF BackupEnter, Enter, Acquire, TypeInv, TypeOK, Phase, backupVars, closeVars
  <2>3. CASE BackupRefused
    BY <2>3, <1>2, Constants
       DEF BackupRefused, TurnedAway, Moves, TypeInv, TypeOK, Phase, backupVars,
           closeVars
  <2>4. CASE BackupRead
    BY <2>4, <1>2, Constants, NothingFields
       DEF BackupRead, StartReading, Moves, Shot, TypeInv, TypeOK, Phase, backupVars,
           closeVars
  <2>5. CASE BackupReadOn
    BY <2>5, <1>2, Constants
       DEF BackupReadOn, FinishReading, Moves, Shot, TypeInv, TypeOK, Phase,
           backupVars, closeVars
  <2>6. CASE BackupDone(TRUE)
    <3>1. gone' \in SUBSET Tokens /\ lost' \in SUBSET Procs
      BY <2>6, Constants DEF BackupDone, TypeInv, TypeOK
    <3>2. archive' \in Shot /\ shot' \in [Procs -> Shot]
      BY <2>6, NothingFields, Constants DEF BackupDone, Accepted, TypeInv, TypeOK
    <3> QED BY <2>6, <1>2, <3>1, <3>2, FreedFields, NothingFields, Constants
            DEF BackupDone, TypeInv, TypeOK, Phase, closeVars
  <2>7. CASE BackupDone(FALSE)
    <3>1. gone' \in SUBSET Tokens /\ lost' \in SUBSET Procs
      BY <2>7, Constants DEF BackupDone, TypeInv, TypeOK
    <3>2. archive' \in Shot /\ shot' \in [Procs -> Shot]
      BY <2>7, NothingFields, Constants DEF BackupDone, Accepted, TypeInv, TypeOK
    <3> QED BY <2>7, <1>2, <3>1, <3>2, FreedFields, NothingFields, Constants
            DEF BackupDone, TypeInv, TypeOK, Phase, closeVars
  <2>8. CASE Restore
    BY <2>8, <1>2, Constants, MadeFields, NextInode
       DEF Restore, Publish, HasArchive, Shot, TypeInv, TypeOK, Phase, backupVars,
           closeVars
  <2>9. CASE RestoreWipe
    <3>1. disturbed' \in BOOLEAN
      BY <2>9, Zenon DEF RestoreWipe
    <3>2. overwritten' \in SUBSET Inodes /\ creation' \in Procs /\ vault' \in Vault
      BY <2>9, VaultFields, NothingFields, Constants DEF RestoreWipe, TypeInv, TypeOK
    <3>3. /\ at' \in [Procs -> Phase]
          /\ UNCHANGED <<epoch, mine, lost, seen, issued, made, gone, stalls, crashes,
                         shot, archive>>
      BY <2>9, Constants DEF RestoreWipe, Moves, TypeInv, TypeOK, Phase
    <3> QED BY <2>9, <1>2, <3>1, <3>2, <3>3
            DEF TypeInv, TypeOK, closeVars
  <2>10. CASE RestorePublish
    BY <2>10, <1>2, Constants, MadeFields, NextInode
       DEF RestorePublish, Publish, Moves, Shot, TypeInv, TypeOK, Phase, backupVars,
           closeVars
  <2>11. CASE RestoreBlocked
    BY <2>11, <1>2, Constants
       DEF RestoreBlocked, Moves, TypeInv, TypeOK, Phase, backupVars, closeVars
  <2> QED BY <1>2, <2>1, <2>2, <2>3, <2>4, <2>5, <2>6, <2>7, <2>8, <2>9, <2>10, <2>11
     DEF BackupStep
<1>3. CASE CloseStep
  <2>1. CASE CloseBegin
    BY <2>1, Constants, RecoveredPhase
       DEF CloseBegin, TypeInv, TypeOK, Phase, backupVars, closeVars
  <2>2. CASE CloseLock
    BY <2>2, Acquired, Constants
       DEF CloseLock, Acquire, TypeInv, TypeOK, Phase, backupVars, closeVars
  <2>3. CASE CloseRetention
    BY <2>3, Constants
       DEF CloseRetention, Moves, TypeInv, TypeOK, Phase, backupVars, closeVars
  <2>4. CASE CloseRead
    BY <2>4, Constants, NothingFields
       DEF CloseRead, StartReading, Moves, Shot, TypeInv, TypeOK, Phase, backupVars,
           closeVars
  <2>5. CASE CloseReadOn
    BY <2>5, Constants
       DEF CloseReadOn, FinishReading, Moves, Shot, TypeInv, TypeOK, Phase,
           backupVars, closeVars
  <2>6. CASE CloseBackup
    BY <2>6, Constants
       DEF CloseBackup, Accepted, Moves, TypeInv, TypeOK, Phase, backupVars,
           closeVars
  <2>7. CASE CloseUnbacked
    BY <2>7, Constants, NothingFields
       DEF CloseUnbacked, Waived, Moves, TypeInv, TypeOK, Phase, backupVars,
           closeVars
  <2>8. CASE CloseIntend
    BY <2>8, Constants, VaultFields
       DEF CloseIntend, Moves, Shot, TypeInv, TypeOK, Phase, backupVars, closeVars
  <2>9. CASE CloseMove
    BY <2>9, Constants, NothingFields
       DEF CloseMove, Moves, TypeInv, TypeOK, Phase, backupVars, closeVars
  <2>10. CASE CloseMark
    BY <2>10, Constants DEF CloseMark, Moves, TypeInv, TypeOK, Phase, backupVars, closeVars
  <2>11. CASE ClosePurge
    <3>1. gone' \in SUBSET Tokens /\ lost' \in SUBSET Procs /\ mine' \in [Procs -> Tokens]
      BY <2>11, NothingFields, Constants, SMTT(20) DEF ClosePurge, EndsLock, TypeInv, TypeOK
    <3>2. shot' \in [Procs -> Shot] /\ vault' \in Vault
      BY <2>11, FreedFields, NothingFields, Constants
         DEF ClosePurge, EndsLock, TypeInv, TypeOK
    <3> QED BY <2>11, <3>1, <3>2, NothingFields, Constants
            DEF ClosePurge, Moves, TypeInv, TypeOK, Phase
  <2>12. CASE CloseTomb
    <3>1. tombs' \in Seq(Inodes)
      BY <2>12 DEF CloseTomb, Entombed, TypeInv, TypeOK
    <3> QED BY <2>12, <3>1, Constants DEF CloseTomb, Moves, TypeInv, TypeOK, Phase, backupVars
  <2>13. CASE CloseRecord
    BY <2>13, Constants
       DEF CloseRecord, Moves, TypeInv, TypeOK, Phase, backupVars, closeVars
  <2>14. CASE CloseEnd
    BY <2>14, Constants, NothingFields
       DEF CloseEnd, Moves, TypeInv, TypeOK, Phase, backupVars, closeVars
  <2>15. CASE CloseFails
    <3>1. gone' \in SUBSET Tokens /\ lost' \in SUBSET Procs /\ mine' \in [Procs -> Tokens]
      BY <2>15, NothingFields, Constants, SMTT(20) DEF CloseFails, EndsLock, TypeInv, TypeOK
    <3>2. shot' \in [Procs -> Shot] /\ vault' \in Vault
      BY <2>15, FreedFields, NothingFields, Constants
         DEF CloseFails, EndsLock, TypeInv, TypeOK
    <3> QED BY <2>15, <3>1, <3>2, NothingFields, Constants
            DEF CloseFails, Moves, TypeInv, TypeOK, Phase
  <2>16. CASE SetHold
    BY <2>16, Constants, HoldChanged
       DEF SetHold, Past, TypeInv, TypeOK, Phase, backupVars, closeVars
  <2> QED BY <1>3, <2>1, <2>2, <2>3, <2>4, <2>5, <2>6, <2>7, <2>8, <2>9, <2>10, <2>11,
     <2>12, <2>13, <2>14, <2>15, <2>16
     DEF CloseStep
<1>4. CASE CreateVault /\ UNCHANGED <<backupVars, closeVars>>
  BY <1>4, Constants, MadeFields, NothingFields, NextInode
     DEF CreateVault, TypeInv, TypeOK, Phase, backupVars, closeVars
<1>5. CASE Expire /\ UNCHANGED <<backupVars, closeVars>>
  <3>1. vault' \in Vault
    BY <1>5, StaleChanged DEF Expire, TypeInv, TypeOK
  <3>2. stalls' \in 0..MaxStalls /\ disturbed' \in BOOLEAN
    <4>1. CASE \E p \in Procs : Owns(p)
      <5>1. stalls < MaxStalls /\ stalls' = stalls + 1 /\ disturbed' = TRUE
        BY <1>5, <4>1 DEF Expire
      <5> QED BY <5>1, Constants DEF TypeInv, TypeOK
    <4>2. CASE ~\E p \in Procs : Owns(p)
      <5>1. UNCHANGED <<stalls, disturbed>>
        BY <1>5, <4>2 DEF Expire
      <5> QED BY <5>1 DEF TypeInv, TypeOK
    <4> QED BY <4>1, <4>2
  <3> QED BY <1>5, <3>1, <3>2, Constants
          DEF Expire, TypeInv, TypeOK, Phase, backupVars, closeVars
<1>6. ASSUME NEW p \in Procs, KeeperBeat(p), UNCHANGED <<backupVars, closeVars>>
      PROVE  TypeInv'
  BY <1>6, Constants, RenewedFields, ZenonT(40)
     DEF KeeperBeat, TypeInv, TypeOK, Phase, backupVars, closeVars
<1>7. ASSUME NEW dead \in SUBSET Procs, Deaths(dead)
      PROVE  TypeInv'
  <3>1. epoch' \in [Boxes -> 0..MaxCrashes] /\ \A b \in Boxes : epoch'[b] <= crashes'
    <4>1. crashes' = crashes + 1 /\ crashes + 1 \in 0..MaxCrashes /\ crashes \in Nat
      BY <1>7, Constants DEF Deaths, TypeInv, TypeOK
    <4>2. epoch \in [Boxes -> Nat] /\ \A b \in Boxes : epoch[b] <= crashes
      BY DEF TypeInv, TypeOK
    <4>3. CASE epoch' = epoch
      BY <4>1, <4>2, <4>3, Constants
    <4>4. ASSUME NEW b \in Boxes, epoch' = [epoch EXCEPT ![b] = @ + 1]
          PROVE  /\ epoch' \in [Boxes -> 0..MaxCrashes]
                 /\ \A c \in Boxes : epoch'[c] <= crashes'
      BY <4>1, <4>2, <4>4, Constants
    <4> QED BY <1>7, <4>3, <4>4 DEF Deaths
  <3>2. /\ gone' \in SUBSET Tokens /\ mine' \in [Procs -> Tokens] /\ at' \in [Procs -> Phase]
        /\ seen' \in [Procs -> Inodes \X (0..MaxWork)] /\ shot' \in [Procs -> Shot]
    BY <1>7, NothingFields DEF Deaths, Dies, TypeInv, TypeOK, Phase
  <3>3. UNCHANGED <<vault, issued, made, stalls, disturbed, archive, overwritten, quar,
                    intent, tombs, record>>
    BY <1>7 DEF Deaths, Dies
  <3>4. /\ creation' \in Procs \cup {"free"} /\ lost' \subseteq Procs
        /\ late' \in BOOLEAN /\ crashes' \in 0..MaxCrashes
    BY <1>7, Constants, SMTT(20) DEF Deaths, Dies, TypeInv, TypeOK
  <3> QED BY <3>1, <3>2, <3>3, <3>4 DEF TypeInv, TypeOK
<1> QED BY <1>1, <1>2, <1>3, <1>4, <1>5, <1>6, <1>7, DeathIsDeaths DEF Next

(***************************************************************************)
(* A token is never handed out twice, and only a restore brings one back   *)
(***************************************************************************)

LEMMA TokenAcquired ==
    ASSUME TypeInv, TokenInv, NEW p \in Procs, NEW phase, Acquire(p, phase),
           UNCHANGED <<gone, shot, archive>>
    PROVE  TokenInv'
<1>1. /\ vault'.lock.tok = issued + 1 /\ issued' = issued + 1
      /\ Present => vault'.ino = vault.ino
      /\ ~Present => vault'.ino = made + 1
  BY Acquired
<1>2. mine' = [mine EXCEPT ![p] = issued + 1]
  BY DEF Acquire
<1>3. \A q \in Procs : mine'[q] = IF q = p THEN issued + 1 ELSE mine[q]
  BY <1>2, Typed
<1>4. \A q \in Procs : mine'[q] <= issued + 1 /\ (q # p => mine'[q] <= issued)
  BY <1>3, Typed DEF TokenInv
<1>5. \A q \in Procs : mine'[q] # 0 =>
          mine'[q] \notin gone /\ \A r \in Procs : mine'[r] = mine'[q] => r = q
  BY <1>3, <1>4, Typed DEF TokenInv
<1>6. \A q \in Procs : shot[q].vault.lock.tok <= issued + 1
  BY Typed DEF TokenInv
<1>7. vault'.ino # 0
  BY <1>1, Typed DEF Present
<1> QED BY <1>1, <1>4, <1>5, <1>6, <1>7, Typed DEF TokenInv

LEMMA TokenReleased ==
    ASSUME TypeInv, TokenInv, NEW p \in Procs, vault' = Freed(p),
           mine' = [mine EXCEPT ![p] = 0], issued' = issued,
           gone' \subseteq gone \cup {mine[p]},
           archive'.vault.lock.tok <= issued,
           \A q \in Procs : shot'[q].vault.lock.tok <= issued
    PROVE  TokenInv'
<1>1. /\ vault'.ino = vault.ino /\ vault'.kind = vault.kind
      /\ vault'.lock.tok \in {0, vault.lock.tok}
  BY FreedFields
<1>2. \A q \in Procs : mine'[q] = IF q = p THEN 0 ELSE mine[q]
  BY Typed
<1>3. \A t \in gone' : t <= issued
  BY DEF TokenInv
<1>4. \A q \in Procs : mine'[q] # 0 =>
          mine'[q] \notin gone' /\ \A r \in Procs : mine'[r] = mine'[q] => r = q
  BY <1>2, Typed DEF TokenInv
<1> QED BY <1>1, <1>2, <1>3, <1>4, Typed DEF TokenInv

LEMMA TokensKept ==
    ASSUME TypeInv, TokenInv, Next
    PROVE  TokenInv'
<1>1. CASE SessionStep /\ UNCHANGED <<backupVars, closeVars>>
  <2>1. ASSUME NEW p \in Sessions, Resolve(p)  PROVE TokenInv'
    BY <2>1, <1>1, Constants, Typed DEF Resolve, Moves, TokenInv, backupVars, closeVars
  <2>2. ASSUME NEW p \in Sessions, Enter(p)  PROVE TokenInv'
    BY <2>2, <1>1, TokenAcquired, Constants DEF Enter, backupVars
  <2>3. ASSUME NEW p \in Sessions, TurnedAway(p)  PROVE TokenInv'
    BY <2>3, <1>1, Constants, Typed DEF TurnedAway, Moves, TokenInv, backupVars, closeVars
  <2>4. ASSUME NEW p \in Sessions, Load(p)  PROVE TokenInv'
    BY <2>4, <1>1, Constants, Typed, RenewedFields
       DEF Load, Moves, TokenInv, backupVars, closeVars
  <2>5. ASSUME NEW p \in Sessions, AppendRecord(p)  PROVE TokenInv'
    BY <2>5, <1>1, Constants, Typed, Appended, UnlockedFields
       DEF AppendRecord, Present, TokenInv, backupVars, closeVars
  <2>6. ASSUME NEW p \in Sessions, Leave(p)  PROVE TokenInv'
    BY <2>6, <1>1, TokenReleased, Constants, Typed DEF Leave, TokenInv, backupVars
  <2>7. ASSUME NEW d \in Drivers, BeginCall(d)  PROVE TokenInv'
    BY <2>7, <1>1, Constants, Typed, RenewedFields
       DEF BeginCall, Moves, TokenInv, backupVars, closeVars
  <2>8. ASSUME NEW d \in Drivers, Fence(d)  PROVE TokenInv'
    BY <2>8, <1>1, Constants, Typed, RenewedFields
       DEF Fence, Moves, TokenInv, backupVars, closeVars
  <2> QED BY <1>1, <2>1, <2>2, <2>3, <2>4, <2>5, <2>6, <2>7, <2>8 DEF SessionStep
<1>2. CASE BackupStep /\ UNCHANGED closeVars
  <2>1. CASE BackupResolve
    BY <2>1, <1>2, Constants, Typed
       DEF BackupResolve, Resolve, Moves, TokenInv, backupVars, closeVars
  <2>2. CASE BackupEnter
    BY <2>2, <1>2, TokenAcquired, Constants DEF BackupEnter, Enter, backupVars
  <2>3. CASE BackupRefused
    BY <2>3, <1>2, Constants, Typed
       DEF BackupRefused, TurnedAway, Moves, TokenInv, backupVars, closeVars
  <2>4. CASE BackupRead
    BY <2>4, <1>2, Constants, Typed
       DEF BackupRead, StartReading, Moves, TokenInv, backupVars, closeVars
  <2>5. CASE BackupReadOn
    BY <2>5, <1>2, Constants, Typed
       DEF BackupReadOn, FinishReading, Moves, TokenInv, backupVars, closeVars
  <2>6. CASE BackupDone(TRUE)
    <3>1. shot' = [shot EXCEPT ![Archivist] = NoShot] /\ archive' \in {archive, shot[Archivist]}
      BY <2>6, <1>2 DEF BackupDone, Accepted
    <3>2. \A q \in Procs : shot'[q].vault.lock.tok <= issued
      BY <3>1, NothingFields, AbsentFields, UnlockedFields, Typed, Constants DEF TokenInv
    <3>3. archive'.vault.lock.tok <= issued
      BY <3>1, Typed, Constants DEF TokenInv
    <3> QED BY <2>6, <3>2, <3>3, TokenReleased, Constants DEF BackupDone, Live
  <2>7. CASE BackupDone(FALSE)
    <3>1. shot' = [shot EXCEPT ![Archivist] = NoShot] /\ archive' \in {archive, shot[Archivist]}
      BY <2>7, <1>2 DEF BackupDone, Accepted
    <3>2. \A q \in Procs : shot'[q].vault.lock.tok <= issued
      BY <3>1, NothingFields, AbsentFields, UnlockedFields, Typed, Constants DEF TokenInv
    <3>3. archive'.vault.lock.tok <= issued
      BY <3>1, Typed, Constants DEF TokenInv
    <3> QED BY <2>7, <3>2, <3>3, TokenReleased, Constants DEF BackupDone, Live
  <2>8. CASE Restore
    <3>1. vault'.ino = made + 1 /\ vault'.kind = "restored" /\ vault'.lock = archive.vault.lock
      BY <2>8, MadeFields, Typed DEF Restore, Publish
    <3> QED BY <2>8, <1>2, <3>1, Typed DEF Restore, TokenInv, backupVars
  <2>9. CASE RestoreWipe
    BY <2>9, <1>2, Constants, Typed, NothingFields, AbsentFields, UnlockedFields
       DEF RestoreWipe, Moves, HasArchive, TokenInv, backupVars, closeVars
  <2>10. CASE RestorePublish
    <3>1. vault'.ino = made + 1 /\ vault'.kind = "restored" /\ vault'.lock = archive.vault.lock
      BY <2>10, MadeFields, Typed DEF RestorePublish, Publish
    <3> QED BY <2>10, <1>2, <3>1, Typed DEF RestorePublish, TokenInv, backupVars
  <2>11. CASE RestoreBlocked
    BY <2>11, <1>2, Constants, Typed
       DEF RestoreBlocked, Moves, TokenInv, backupVars, closeVars
  <2> QED BY <1>2, <2>1, <2>2, <2>3, <2>4, <2>5, <2>6, <2>7, <2>8, <2>9, <2>10, <2>11
     DEF BackupStep
<1>3. CASE CloseStep
  <2>1. CASE CloseBegin
    BY <2>1, Constants, Typed DEF CloseBegin, TokenInv, backupVars, closeVars
  <2>2. CASE CloseLock
    BY <2>2, TokenAcquired, Constants DEF CloseLock, backupVars
  <2>3. CASE CloseRetention
    BY <2>3, Constants, Typed DEF CloseRetention, Moves, TokenInv, backupVars, closeVars
  <2>4. CASE CloseRead
    BY <2>4, Constants, Typed
       DEF CloseRead, StartReading, Moves, TokenInv, backupVars, closeVars
  <2>5. CASE CloseReadOn
    BY <2>5, Constants, Typed
       DEF CloseReadOn, FinishReading, Moves, TokenInv, backupVars, closeVars
  <2>6. CASE CloseBackup
    BY <2>6, Constants, Typed
       DEF CloseBackup, Accepted, Moves, TokenInv, backupVars, closeVars
  <2>7. CASE CloseUnbacked
    BY <2>7, Constants, Typed, NothingFields, AbsentFields, UnlockedFields
       DEF CloseUnbacked, Waived, Moves, TokenInv, backupVars, closeVars
  <2>8. CASE CloseIntend
    BY <2>8, Constants, Typed DEF CloseIntend, Moves, TokenInv, backupVars, closeVars
  <2>9. CASE CloseMove
    BY <2>9, Constants, Typed, NothingFields, AbsentFields, UnlockedFields
       DEF CloseMove, Moves, TokenInv, backupVars, closeVars
  <2>10. CASE CloseMark
    BY <2>10, Constants, Typed DEF CloseMark, Moves, TokenInv, backupVars, closeVars
  <2>11. CASE ClosePurge
    <3>1. shot' = [shot EXCEPT ![Closer] = NoShot] /\ archive' \in {archive, shot[Closer]}
      BY <2>11 DEF ClosePurge, EndsLock, Accepted
    <3>2. \A q \in Procs : shot'[q].vault.lock.tok <= issued
      BY <3>1, NothingFields, AbsentFields, UnlockedFields, Typed, Constants DEF TokenInv
    <3>3. archive'.vault.lock.tok <= issued
      BY <3>1, Typed, Constants DEF TokenInv
    <3> QED BY <2>11, <3>2, <3>3, TokenReleased, Constants DEF ClosePurge, EndsLock, Live
  <2>12. CASE CloseTomb
    BY <2>12, Constants, Typed DEF CloseTomb, Moves, TokenInv, backupVars, closeVars
  <2>13. CASE CloseRecord
    BY <2>13, Constants, Typed DEF CloseRecord, Moves, TokenInv, backupVars, closeVars
  <2>14. CASE CloseEnd
    BY <2>14, Constants, Typed DEF CloseEnd, Moves, TokenInv, backupVars, closeVars
  <2>15. CASE CloseFails
    <3>1. shot' = [shot EXCEPT ![Closer] = NoShot] /\ archive' \in {archive, shot[Closer]}
      BY <2>15 DEF CloseFails, EndsLock, Accepted
    <3>2. \A q \in Procs : shot'[q].vault.lock.tok <= issued
      BY <3>1, NothingFields, AbsentFields, UnlockedFields, Typed, Constants DEF TokenInv
    <3>3. archive'.vault.lock.tok <= issued
      BY <3>1, Typed, Constants DEF TokenInv
    <3> QED BY <2>15, <3>2, <3>3, TokenReleased, Constants DEF CloseFails, EndsLock, Live
  <2>16. CASE SetHold
    BY <2>16, Constants, Typed, HoldChanged
       DEF SetHold, Past, TokenInv, backupVars, closeVars
  <2> QED BY <1>3, <2>1, <2>2, <2>3, <2>4, <2>5, <2>6, <2>7, <2>8, <2>9, <2>10, <2>11,
     <2>12, <2>13, <2>14, <2>15, <2>16
     DEF CloseStep
<1>4. CASE CreateVault /\ UNCHANGED <<backupVars, closeVars>>
  <3>1. vault'.ino = made + 1 /\ vault'.lock = Unlocked
    BY <1>4, MadeFields, AbsentFields DEF CreateVault
  <3> QED BY <1>4, <3>1, UnlockedFields, Typed DEF CreateVault, TokenInv, backupVars
<1>5. CASE Expire /\ UNCHANGED <<backupVars, closeVars>>
  BY <1>5, Constants, Typed, StaleChanged, ZenonT(40) DEF Expire, TokenInv, backupVars, closeVars
<1>6. ASSUME NEW p \in Procs, KeeperBeat(p), UNCHANGED <<backupVars, closeVars>>
      PROVE  TokenInv'
  BY <1>6, Constants, Typed, RenewedFields DEF KeeperBeat, TokenInv, backupVars, closeVars
<1>7. ASSUME NEW dead \in SUBSET Procs, Deaths(dead)
      PROVE  TokenInv'
  <3>1. \A q \in Procs : mine'[q] = IF q \in dead THEN 0 ELSE mine[q]
    BY <1>7 DEF Deaths, Dies
  <3>2. \A q \in Procs : shot'[q].vault.lock.tok <= issued
    BY <1>7, NothingFields, AbsentFields, UnlockedFields, Typed DEF Deaths, TokenInv
  <3>3. \A t \in gone' : t \in gone \/ \E q \in dead : mine[q] # 0 /\ t = mine[q]
    BY <1>7 DEF Deaths, Dies, Live
  <3>4. \A q \in Procs : mine'[q] # 0 =>
            mine'[q] \notin gone' /\ \A r \in Procs : mine'[r] = mine'[q] => r = q
    BY <3>1, <3>3 DEF TokenInv
  <3>5. UNCHANGED <<vault, issued, archive>>
    BY <1>7 DEF Deaths, Dies
  <3> QED BY <3>1, <3>2, <3>3, <3>4, <3>5, Typed DEF TokenInv
<1> QED BY <1>1, <1>2, <1>3, <1>4, <1>5, <1>6, <1>7, DeathIsDeaths DEF Next

(***************************************************************************)
(* The intent follows the vault, whatever attempt of a close goes on       *)
(***************************************************************************)

\* inode numbers, and what the tombstones name
LEMMA Numbered ==
    ASSUME TypeInv
    PROVE  /\ vault.ino \in Nat /\ quar.ino \in Nat /\ intent.ino \in Nat /\ made \in Nat
           /\ tombs \in Seq(Inodes) /\ Named \subseteq Nat /\ vault.hold \in BOOLEAN
           /\ intent.detached \in BOOLEAN /\ intent.backed \in BOOLEAN
<1>1. /\ vault.ino \in Inodes /\ quar.ino \in Inodes /\ intent.ino \in Inodes
      /\ made \in Inodes /\ tombs \in Seq(Inodes) /\ vault.hold \in BOOLEAN
      /\ intent.detached \in BOOLEAN /\ intent.backed \in BOOLEAN
  BY VaultFields DEF TypeInv, TypeOK
<1>2. Inodes \subseteq Nat
  BY Constants DEF Inodes
<1>3. \A k \in DOMAIN tombs : tombs[k] \in Inodes
  BY <1>1
<1> QED BY <1>1, <1>2, <1>3 DEF Named

\* the vault stays at its path, or a new one appears where there was none, and
\* the close stays where it is or ends
LEMMA ClosingStays ==
    ASSUME TypeInv, CloseInv, CreationInv',
           UNCHANGED <<quar, intent, tombs, record, overwritten>>,
           \/ at'[Closer] = at[Closer] /\ late' = late
           \/ at'[Closer] \notin Closing,
           \/ vault'.ino = vault.ino /\ vault'.hold = vault.hold /\ made' = made
           \/ ~Present /\ vault'.ino = made + 1 /\ made' = made + 1
    PROVE  CloseInv'
<1>1. \/ vault'.ino = vault.ino /\ made' = made
      \/ vault'.ino = made + 1 /\ made' = made + 1
  OBVIOUS
<1>2. Named' = Named /\ quar' = quar /\ intent' = intent /\ record' = record
  BY DEF Named
<1>3. InodesMade'
  BY <1>1, <1>2, Numbered DEF CloseInv, InodesMade
<1>4. \A i \in Named \cup {quar.ino, intent.ino} : i # vault.ino => i # vault'.ino
  BY <1>1, Numbered DEF CloseInv, InodesMade
<1>5. OnePlace'
  BY <1>2, <1>4 DEF CloseInv, OnePlace
<1>6. Stands'
  BY Numbered DEF CloseInv, Stands, Named, Present, Preparing, Checked, Away, Purged, Closing
<1>7. Accounted'
  BY Numbered DEF CloseInv, Accounted, Named, Present
<1> QED BY <1>3, <1>5, <1>6, <1>7 DEF CloseInv

\* the creation lock stays, and neither a close nor a restore begins
LEMMA CreationStays ==
    ASSUME CloseInv, creation' = creation,
           at'[Closer] = at[Closer] \/ at'[Closer] \notin Closing,
           at'[Archivist] = at[Archivist] \/ at'[Archivist] # "restoring"
    PROVE  CreationInv'
BY DEF CloseInv, CreationInv

\* the close prepares: the vault stays, and is known to be free of a hold unless
\* the hold came late
LEMMA CloserGoesOn ==
    ASSUME TypeInv, CloseInv, at[Closer] \in Preparing,
           NEW phase \in {"closeChecked", "closeReading", "closeRead", "closeBacked"},
           at' = [at EXCEPT ![Closer] = phase],
           UNCHANGED <<vault, creation, made, quar, intent, tombs, record, overwritten>>,
           ~vault.hold \/ (at[Closer] \in Checked /\ late' = late)
    PROVE  CloseInv'
<1>1. at'[Closer] = phase /\ creation = Closer
  BY Typed, Constants DEF CloseInv, CreationInv, Closing
<1>2. at'[Archivist] # "restoring"
  BY <1>1, Typed, Constants DEF CloseInv, CreationInv
<1>3. CreationInv'
  BY <1>1, <1>2 DEF CreationInv
<1>4. Stands'
  BY <1>1 DEF CloseInv, Stands, Preparing, Checked, Away, Purged, Present, Named
<1>5. InodesMade' /\ OnePlace' /\ Accounted'
  BY DEF CloseInv, InodesMade, OnePlace, Accounted, Named
<1> QED BY <1>3, <1>4, <1>5 DEF CloseInv

\* the close goes on with the creation lock it has
LEMMA CloserKeepsCreation ==
    ASSUME TypeInv, CloseInv, at[Closer] \in Closing, NEW phase, phase # "restoring",
           at' = [at EXCEPT ![Closer] = phase], creation' = creation
    PROVE  CreationInv' /\ at'[Closer] = phase
<1>1. at'[Closer] = phase /\ creation = Closer
  BY Typed, Constants DEF CloseInv, CreationInv
<1>2. at'[Archivist] # "restoring"
  BY <1>1, Typed, Constants DEF CloseInv, CreationInv
<1> QED BY <1>1, <1>2 DEF CreationInv

\* the tombstone is appended unless it is there
LEMMA EntombedOnce ==
    ASSUME TypeInv, tombs' = Entombed,
           \A j, k \in DOMAIN tombs : tombs[j] = tombs[k] => j = k
    PROVE  /\ Named' = Named \cup {intent.ino}
           /\ \A j, k \in DOMAIN tombs' : tombs'[j] = tombs'[k] => j = k
<1>1. Named = ToSet(tombs)
  BY DEF Named, ToSet
<1>2. CASE intent.ino \in ToSet(tombs)
  BY <1>1, <1>2 DEF Entombed, Named
<1>3. CASE intent.ino \notin ToSet(tombs)
  <2>1. tombs' = Append(tombs, intent.ino) /\ intent.ino \notin Named
    BY <1>1, <1>3 DEF Entombed
  <2>2. /\ Len(tombs') = Len(tombs) + 1 /\ tombs'[Len(tombs) + 1] = intent.ino
        /\ \A k \in 1..Len(tombs) : tombs'[k] = tombs[k]
        /\ Len(tombs) \in Nat /\ DOMAIN tombs = 1..Len(tombs)
        /\ DOMAIN tombs' = 1..(Len(tombs) + 1)
    BY <2>1, Numbered
  <2>3. \A k \in 1..Len(tombs) : tombs[k] # intent.ino
    BY <2>1, <2>2 DEF Named
  <2> QED BY <2>2, <2>3 DEF Named
<1> QED BY <1>2, <1>3

LEMMA ClosingKept ==
    ASSUME TypeInv, CloseInv, Next
    PROVE  CloseInv'
<1>1. CASE SessionStep /\ UNCHANGED <<backupVars, closeVars>>
  <2>1. ASSUME NEW p \in Sessions, Resolve(p)  PROVE CloseInv'
    <3>1. at'[Closer] = at[Closer] /\ at'[Archivist] = at[Archivist]
      BY <2>1, Typed, Constants DEF Resolve, Moves
    <3>2. creation' = creation /\ CreationInv'
      BY <2>1, <3>1, CreationStays DEF Resolve, Moves
    <3> QED BY <2>1, <1>1, <3>1, <3>2, ClosingStays, Constants
            DEF Resolve, backupVars, closeVars
  <2>2. ASSUME NEW p \in Sessions, Enter(p)  PROVE CloseInv'
    <3>1. at'[Closer] = at[Closer] /\ at'[Archivist] = at[Archivist]
      BY <2>2, Typed, Constants DEF Enter, Acquire
    <3>2. creation' = creation /\ CreationInv'
      BY <2>2, <3>1, CreationStays DEF Enter, Acquire
    <3>3. \/ vault'.ino = vault.ino /\ vault'.hold = vault.hold /\ made' = made
          \/ ~Present /\ vault'.ino = made + 1 /\ made' = made + 1
      BY <2>2, Acquired, Constants DEF Enter
    <3> QED BY <2>2, <1>1, <3>3, <3>1, <3>2, ClosingStays, Constants
            DEF Enter, backupVars, closeVars
  <2>3. ASSUME NEW p \in Sessions, TurnedAway(p)  PROVE CloseInv'
    <3>1. at'[Closer] = at[Closer] /\ at'[Archivist] = at[Archivist]
      BY <2>3, Typed, Constants DEF TurnedAway, Moves
    <3>2. creation' = creation /\ CreationInv'
      BY <2>3, <3>1, CreationStays DEF TurnedAway, Moves
    <3> QED BY <2>3, <1>1, <3>1, <3>2, ClosingStays, Constants
            DEF TurnedAway, backupVars, closeVars
  <2>4. ASSUME NEW p \in Sessions, Load(p)  PROVE CloseInv'
    <3>1. at'[Closer] = at[Closer] /\ at'[Archivist] = at[Archivist]
      BY <2>4, Typed, Constants DEF Load, Moves
    <3>2. creation' = creation /\ CreationInv'
      BY <2>4, <3>1, CreationStays DEF Load, Moves
    <3> QED BY <2>4, <1>1, <3>1, <3>2, ClosingStays, Constants, RenewedFields
            DEF Load, backupVars, closeVars
  <2>5. ASSUME NEW p \in Sessions, AppendRecord(p)  PROVE CloseInv'
    <3>1. at'[Closer] = at[Closer] /\ at'[Archivist] = at[Archivist]
      BY <2>5, Typed, Constants DEF AppendRecord
    <3>2. creation' = creation /\ CreationInv'
      BY <2>5, <3>1, CreationStays DEF AppendRecord
    <3> QED BY <2>5, <1>1, <3>1, <3>2, ClosingStays, Constants, Appended
            DEF AppendRecord, backupVars, closeVars
  <2>6. ASSUME NEW p \in Sessions, Leave(p)  PROVE CloseInv'
    <3>1. at'[Closer] = at[Closer] /\ at'[Archivist] = at[Archivist]
      BY <2>6, Typed, Constants DEF Leave
    <3>2. creation' = creation /\ CreationInv'
      BY <2>6, <3>1, CreationStays DEF Leave
    <3> QED BY <2>6, <1>1, <3>1, <3>2, ClosingStays, Constants, FreedFields
            DEF Leave, backupVars, closeVars
  <2>7. ASSUME NEW d \in Drivers, BeginCall(d)  PROVE CloseInv'
    <3>1. at'[Closer] = at[Closer] /\ at'[Archivist] = at[Archivist]
      BY <2>7, Typed, Constants DEF BeginCall, Moves
    <3>2. creation' = creation /\ CreationInv'
      BY <2>7, <3>1, CreationStays DEF BeginCall, Moves
    <3> QED BY <2>7, <1>1, <3>1, <3>2, ClosingStays, Constants, RenewedFields
            DEF BeginCall, backupVars, closeVars
  <2>8. ASSUME NEW d \in Drivers, Fence(d)  PROVE CloseInv'
    <3>1. at'[Closer] = at[Closer] /\ at'[Archivist] = at[Archivist]
      BY <2>8, Typed, Constants DEF Fence, Moves
    <3>2. creation' = creation /\ CreationInv'
      BY <2>8, <3>1, CreationStays DEF Fence, Moves
    <3> QED BY <2>8, <1>1, <3>1, <3>2, ClosingStays, Constants, RenewedFields
            DEF Fence, backupVars, closeVars
  <2> QED BY <1>1, <2>1, <2>2, <2>3, <2>4, <2>5, <2>6, <2>7, <2>8 DEF SessionStep
<1>2. CASE BackupStep /\ UNCHANGED closeVars
  <2>1. CASE BackupResolve
    <3>1. /\ at'[Closer] = at[Closer] \/ at'[Closer] \notin Closing
          /\ at'[Archivist] # "restoring"
      BY <2>1, Typed, Constants
         DEF BackupResolve, Resolve, Moves, Closing, Preparing, Checked, Away, Purged
    <3>2. creation' = creation /\ overwritten' = overwritten /\ CreationInv'
      BY <2>1, <3>1, CreationStays DEF BackupResolve, Resolve, Moves, backupVars
    <3> QED BY <2>1, <1>2, <3>1, <3>2, ClosingStays, Constants
            DEF BackupResolve, Resolve, closeVars
  <2>2. CASE BackupEnter
    <3>1. /\ at'[Closer] = at[Closer] \/ at'[Closer] \notin Closing
          /\ at'[Archivist] # "restoring"
      BY <2>2, Typed, Constants
         DEF BackupEnter, Enter, Acquire, Closing, Preparing, Checked, Away, Purged
    <3>2. creation' = creation /\ overwritten' = overwritten /\ CreationInv'
      BY <2>2, <3>1, CreationStays DEF BackupEnter, Enter, Acquire, backupVars
    <3>3. \/ vault'.ino = vault.ino /\ vault'.hold = vault.hold /\ made' = made
          \/ ~Present /\ vault'.ino = made + 1 /\ made' = made + 1
      BY <2>2, Acquired, Constants DEF BackupEnter, Enter
    <3> QED BY <2>2, <1>2, <3>3, <3>1, <3>2, ClosingStays, Constants
            DEF BackupEnter, Enter, Acquire, closeVars
  <2>3. CASE BackupRefused
    <3>1. /\ at'[Closer] = at[Closer] \/ at'[Closer] \notin Closing
          /\ at'[Archivist] # "restoring"
      BY <2>3, Typed, Constants
         DEF BackupRefused, TurnedAway, Moves, Closing, Preparing, Checked, Away, Purged
    <3>2. creation' = creation /\ overwritten' = overwritten /\ CreationInv'
      BY <2>3, <3>1, CreationStays DEF BackupRefused, TurnedAway, Moves, backupVars
    <3> QED BY <2>3, <1>2, <3>1, <3>2, ClosingStays, Constants
            DEF BackupRefused, TurnedAway, closeVars
  <2>4. CASE BackupRead
    <3>1. /\ at'[Closer] = at[Closer] \/ at'[Closer] \notin Closing
          /\ at'[Archivist] # "restoring"
      BY <2>4, Typed, Constants
         DEF BackupRead, StartReading, Moves, Closing, Preparing, Checked, Away, Purged
    <3>2. creation' = creation /\ overwritten' = overwritten /\ CreationInv'
      BY <2>4, <3>1, CreationStays DEF BackupRead, StartReading, Moves, backupVars
    <3> QED BY <2>4, <1>2, <3>1, <3>2, ClosingStays, Constants
            DEF BackupRead, StartReading, closeVars
  <2>5. CASE BackupReadOn
    <3>1. /\ at'[Closer] = at[Closer] \/ at'[Closer] \notin Closing
          /\ at'[Archivist] # "restoring"
      BY <2>5, Typed, Constants
         DEF BackupReadOn, FinishReading, Moves, Closing, Preparing, Checked, Away, Purged
    <3>2. creation' = creation /\ overwritten' = overwritten /\ CreationInv'
      BY <2>5, <3>1, CreationStays DEF BackupReadOn, FinishReading, Moves, backupVars
    <3> QED BY <2>5, <1>2, <3>1, <3>2, ClosingStays, Constants
            DEF BackupReadOn, FinishReading, closeVars
  <2>6. CASE BackupDone(TRUE)
    <3>1. /\ at'[Closer] = at[Closer] \/ at'[Closer] \notin Closing
          /\ at'[Archivist] # "restoring"
      BY <2>6, Typed, Constants
         DEF BackupDone, Accepted, Closing, Preparing, Checked, Away, Purged
    <3>2. creation' = creation /\ overwritten' = overwritten /\ CreationInv'
      BY <2>6, <3>1, CreationStays DEF BackupDone, Accepted, backupVars
    <3> QED BY <2>6, <1>2, <3>1, <3>2, ClosingStays, Constants, FreedFields
            DEF BackupDone, Accepted, closeVars
  <2>7. CASE BackupDone(FALSE)
    <3>1. /\ at'[Closer] = at[Closer] \/ at'[Closer] \notin Closing
          /\ at'[Archivist] # "restoring"
      BY <2>7, Typed, Constants
         DEF BackupDone, Accepted, Closing, Preparing, Checked, Away, Purged
    <3>2. creation' = creation /\ overwritten' = overwritten /\ CreationInv'
      BY <2>7, <3>1, CreationStays DEF BackupDone, Accepted, backupVars
    <3> QED BY <2>7, <1>2, <3>1, <3>2, ClosingStays, Constants, FreedFields
            DEF BackupDone, Accepted, closeVars
  <2>8. CASE Restore
    <3>1. at' = at /\ creation' = creation /\ CreationInv'
      BY <2>8, CreationStays DEF Restore
    <3>2. ~Present /\ vault'.ino = made + 1 /\ made' = made + 1
      BY <2>8, MadeFields, Typed DEF Restore, Publish
    <3> QED BY <2>8, <1>2, <3>1, <3>2, ClosingStays DEF Restore, backupVars, closeVars
  <2>9. CASE RestoreWipe
    <3>1. at' = [at EXCEPT ![Archivist] = "restoring"] /\ creation = "free" /\ creation' = Archivist
      BY <2>9 DEF RestoreWipe, Moves
    <3>2. at[Closer] \notin Closing
      BY <3>1, Constants DEF CloseInv, CreationInv
    <3>3. at'[Closer] \notin Closing /\ at'[Archivist] = "restoring"
      BY <3>1, <3>2, Typed, Constants DEF Closing, Preparing, Checked, Away, Purged
    <3>4. CreationInv'
      BY <3>1, <3>3 DEF CreationInv
    <3>5. /\ vault'.ino = 0 /\ made' = made /\ overwritten' = overwritten \cup {vault.ino}
          /\ UNCHANGED <<quar, intent, tombs, record>>
      BY <2>9, <1>2, AbsentFields DEF RestoreWipe, closeVars
    <3>6. Named' = Named /\ 0 \notin Named
      BY <3>5, Numbered DEF CloseInv, InodesMade, Named
    <3>9. InodesMade' /\ OnePlace'
      BY <3>5, <3>6, Numbered DEF CloseInv, InodesMade, OnePlace
    <3>7. Stands'
      BY <3>3 DEF Stands, Closing, Preparing, Checked, Away, Purged
    <3>8. Accounted'
      BY <3>5 DEF CloseInv, Accounted, Named
    <3> QED BY <3>4, <3>9, <3>7, <3>8 DEF CloseInv
  <2>10. CASE RestorePublish
    <3>1. at' = [at EXCEPT ![Archivist] = "idle"] /\ at[Archivist] = "restoring"
      BY <2>10 DEF RestorePublish, Moves
    <3>2. at'[Closer] \notin Closing /\ at'[Archivist] # "restoring"
      BY <3>1, Typed, Constants
         DEF CloseInv, CreationInv, Closing, Preparing, Checked, Away, Purged
    <3>3. CreationInv'
      BY <3>2 DEF CreationInv
    <3>4. ~Present /\ vault'.ino = made + 1 /\ made' = made + 1
      BY <2>10, MadeFields, Typed DEF RestorePublish, Publish
    <3> QED BY <2>10, <1>2, <3>2, <3>3, <3>4, ClosingStays
            DEF RestorePublish, backupVars, closeVars
  <2>11. CASE RestoreBlocked
    <3>1. at' = [at EXCEPT ![Archivist] = "idle"] /\ at[Archivist] = "restoring"
      BY <2>11 DEF RestoreBlocked, Moves
    <3>2. at'[Closer] \notin Closing /\ at'[Archivist] # "restoring"
      BY <3>1, Typed, Constants
         DEF CloseInv, CreationInv, Closing, Preparing, Checked, Away, Purged
    <3>3. CreationInv'
      BY <3>2 DEF CreationInv
    <3> QED BY <2>11, <1>2, <3>2, <3>3, ClosingStays DEF RestoreBlocked, backupVars, closeVars
  <2> QED BY <1>2, <2>1, <2>2, <2>3, <2>4, <2>5, <2>6, <2>7, <2>8, <2>9, <2>10, <2>11
     DEF BackupStep
<1>3. CASE CloseStep
  <2>1. CASE CloseBegin
    <3> DEFINE r == Recovered
    <3>1. /\ at[Closer] = "idle" /\ creation = "free" /\ creation' = Closer
          /\ at' = [at EXCEPT ![Closer] = r] /\ r # "refused"
          /\ UNCHANGED <<vault, made, quar, intent, tombs, record, overwritten, late>>
      BY <2>1 DEF CloseBegin, backupVars, closeVars
    <3>2. /\ r \in {"closing", "moved", "purged"}
          /\ r = "closing" => Present /\ (intent.ino = 0 \/ (quar.ino = 0 /\ vault.ino = intent.ino))
          /\ r = "moved" => quar.ino # 0
          /\ r = "purged" => intent.ino # 0 /\ quar.ino = 0 /\ intent.detached
      <4>1. CASE HasIntent /\ quar.ino # 0 /\ quar.ino = intent.ino
        BY <4>1 DEF Recovered
      <4>2. CASE HasIntent /\ quar.ino = 0 /\ intent.detached
        BY <4>2 DEF Recovered, HasIntent
      <4>3. CASE HasIntent /\ quar.ino = 0 /\ ~intent.detached /\ vault.ino = intent.ino
        BY <4>3 DEF Recovered, HasIntent, Present
      <4>4. CASE ~HasIntent /\ Present
        <5>1. r = "closing"
          BY <4>4 DEF Recovered
        <5>2. intent.ino = 0
          BY <4>4, Numbered DEF HasIntent
        <5> QED BY <5>1, <5>2, <4>4
      <4> QED BY <3>1, <4>1, <4>2, <4>3, <4>4 DEF Recovered
    <3> HIDE DEF r
    <3>3. at'[Closer] = r /\ at'[Archivist] # "restoring"
      BY <3>1, <3>2, Typed, Constants DEF CloseInv, CreationInv
    <3>4. CreationInv'
      BY <3>1, <3>3 DEF CreationInv
    <3>5. InodesMade' /\ OnePlace' /\ Accounted'
      BY <3>1 DEF CloseInv, InodesMade, OnePlace, Accounted, Named
    <3>6. Stands'
      BY <3>1, <3>2, <3>3
         DEF CloseInv, OnePlace, Stands, Preparing, Checked, Away, Purged, Present, Named
    <3> QED BY <3>4, <3>5, <3>6 DEF CloseInv
  <2>2. CASE CloseLock
    <3>1. /\ at[Closer] = "closing" /\ Present /\ at' = [at EXCEPT ![Closer] = "closeLocked"]
          /\ UNCHANGED <<creation, quar, intent, tombs, record, overwritten>>
      BY <2>2 DEF CloseLock, Acquire, IsMatter, backupVars, closeVars
    <3>2. vault'.ino = vault.ino /\ made' = made
      BY <2>2, <3>1, Acquired, Constants DEF CloseLock
    <3>3. CreationInv' /\ at'[Closer] = "closeLocked"
      BY <3>1, CloserKeepsCreation DEF Closing, Preparing
    <3>4. InodesMade' /\ OnePlace' /\ Accounted'
      BY <3>1, <3>2 DEF CloseInv, InodesMade, OnePlace, Accounted, Named
    <3>5. Stands'
      BY <3>1, <3>2, <3>3
         DEF CloseInv, Stands, Preparing, Checked, Away, Purged, Present, Named
    <3> QED BY <3>3, <3>4, <3>5 DEF CloseInv
  <2>3. CASE CloseRetention
    <3>1. /\ at[Closer] = "closeLocked" /\ at' = [at EXCEPT ![Closer] = "closeChecked"]
          /\ UNCHANGED <<vault, creation, made, quar, intent, tombs, record, overwritten>>
          /\ ~vault.hold
      BY <2>3 DEF CloseRetention, Moves, backupVars, closeVars
    <3> QED BY <3>1, CloserGoesOn, Numbered DEF Preparing, Checked
  <2>4. CASE CloseRead
    <3>1. /\ at[Closer] = "closeChecked" /\ at' = [at EXCEPT ![Closer] = "closeReading"]
          /\ UNCHANGED <<vault, creation, made, quar, intent, tombs, record, overwritten>>
          /\ late' = late
      BY <2>4 DEF CloseRead, StartReading, Moves, backupVars, closeVars
    <3> QED BY <3>1, CloserGoesOn DEF Preparing, Checked
  <2>5. CASE CloseReadOn
    <3>1. /\ at[Closer] = "closeReading" /\ at' = [at EXCEPT ![Closer] = "closeRead"]
          /\ UNCHANGED <<vault, creation, made, quar, intent, tombs, record, overwritten>>
          /\ late' = late
      BY <2>5 DEF CloseReadOn, FinishReading, Moves, backupVars, closeVars
    <3> QED BY <3>1, CloserGoesOn DEF Preparing, Checked
  <2>6. CASE CloseBackup
    <3>1. /\ at[Closer] = "closeRead" /\ at' = [at EXCEPT ![Closer] = "closeBacked"]
          /\ UNCHANGED <<vault, creation, made, quar, intent, tombs, record, overwritten>>
          /\ late' = late
      BY <2>6 DEF CloseBackup, Moves, backupVars, closeVars
    <3> QED BY <3>1, CloserGoesOn DEF Preparing, Checked
  <2>7. CASE CloseUnbacked
    <3>1. /\ at[Closer] = "closeChecked" /\ at' = [at EXCEPT ![Closer] = "closeBacked"]
          /\ UNCHANGED <<vault, creation, made, quar, intent, tombs, record, overwritten>>
          /\ late' = late
      BY <2>7 DEF CloseUnbacked, Waived, Moves, backupVars, closeVars
    <3> QED BY <3>1, CloserGoesOn DEF Preparing, Checked
  <2>8. CASE CloseIntend
    <3>1. /\ at[Closer] = "closeBacked" /\ Present /\ at' = [at EXCEPT ![Closer] = "closeIntended"]
          /\ intent'.ino = vault.ino /\ intent'.detached = FALSE
          /\ UNCHANGED <<vault, made, creation, quar, tombs, record, overwritten, late>>
      BY <2>8 DEF CloseIntend, Moves, backupVars
    <3>2. quar.ino = 0 /\ intent.ino \in {0, vault.ino}
      BY <3>1 DEF CloseInv, Stands, Preparing, Checked
    <3>3. CreationInv' /\ at'[Closer] = "closeIntended"
      BY <3>1, CloserKeepsCreation DEF Closing, Preparing, Checked
    <3>4. InodesMade' /\ OnePlace'
      BY <3>1, <3>2 DEF CloseInv, InodesMade, OnePlace, Named
    <3>5. Accounted'
      BY <3>1, <3>2, Numbered DEF CloseInv, Accounted, Named
    <3>6. Stands'
      BY <3>1, <3>2, <3>3
         DEF CloseInv, Stands, Preparing, Checked, Away, Purged, Present, Named
    <3> QED BY <3>3, <3>4, <3>5, <3>6 DEF CloseInv
  <2>9. CASE CloseMove
    <3>1. /\ at[Closer] = "closeIntended" /\ Present /\ at' = [at EXCEPT ![Closer] = "moved"]
          /\ quar'.ino = vault.ino /\ vault'.ino = 0
          /\ UNCHANGED <<made, creation, intent, tombs, record, overwritten>>
      BY <2>9, AbsentFields DEF CloseMove, Moves, backupVars
    <3>2. quar.ino = 0 /\ intent.ino = vault.ino
      BY <3>1 DEF CloseInv, Stands, Preparing, Checked
    <3>3. CreationInv' /\ at'[Closer] = "moved"
      BY <3>1, CloserKeepsCreation DEF Closing, Preparing, Checked
    <3>4. InodesMade' /\ OnePlace'
      BY <3>1, <3>2, Numbered DEF CloseInv, InodesMade, OnePlace, Named, Present
    <3>5. Accounted'
      BY <3>1, <3>2, Numbered DEF CloseInv, Accounted, Named
    <3>6. Stands'
      BY <3>1, <3>3 DEF Stands, Preparing, Checked, Away, Purged, Present
    <3> QED BY <3>3, <3>4, <3>5, <3>6 DEF CloseInv
  <2>10. CASE CloseMark
    <3>1. /\ at[Closer] = "moved" /\ at' = [at EXCEPT ![Closer] = "marked"]
          /\ intent'.ino = intent.ino /\ intent'.detached
          /\ UNCHANGED <<vault, quar, made, creation, tombs, record, overwritten>>
      BY <2>10 DEF CloseMark, Moves, backupVars, TypeInv, TypeOK
    <3>2. quar.ino # 0
      BY <3>1 DEF CloseInv, Stands, Away
    <3>3. CreationInv' /\ at'[Closer] = "marked"
      BY <3>1, CloserKeepsCreation DEF Closing, Away
    <3>4. InodesMade' /\ OnePlace' /\ Accounted'
      BY <3>1, <3>2 DEF CloseInv, InodesMade, OnePlace, Accounted, Named
    <3>5. Stands'
      BY <3>1, <3>2, <3>3 DEF Stands, Preparing, Checked, Away, Purged
    <3> QED BY <3>3, <3>4, <3>5 DEF CloseInv
  <2>11. CASE ClosePurge
    <3>1. /\ at[Closer] = "marked" /\ at' = [at EXCEPT ![Closer] = "purged"]
          /\ quar'.ino = 0 /\ vault'.ino = vault.ino
          /\ UNCHANGED <<made, creation, intent, tombs, record, overwritten>>
      BY <2>11, AbsentFields, FreedFields, Constants DEF ClosePurge, Moves
    <3>2. quar.ino # 0 /\ quar.ino = intent.ino /\ intent.detached
      BY <3>1 DEF CloseInv, OnePlace, Stands, Away
    <3>3. CreationInv' /\ at'[Closer] = "purged"
      BY <3>1, CloserKeepsCreation DEF Closing, Away
    <3>7. Named' = Named /\ 0 \notin Named
      BY <3>1, Numbered DEF CloseInv, InodesMade, Named
    <3>4. InodesMade' /\ OnePlace'
      BY <3>1, <3>2, <3>7, Numbered DEF CloseInv, InodesMade, OnePlace
    <3>5. Accounted'
      BY <3>1, <3>2 DEF CloseInv, Accounted, Named
    <3>6. Stands'
      BY <3>1, <3>2, <3>3 DEF Stands, Preparing, Checked, Away, Purged
    <3> QED BY <3>3, <3>4, <3>5, <3>6 DEF CloseInv
  <2>12. CASE CloseTomb
    <3>1. /\ at[Closer] = "purged" /\ at' = [at EXCEPT ![Closer] = "entombed"]
          /\ UNCHANGED <<vault, quar, intent, made, creation, record, overwritten>>
      BY <2>12 DEF CloseTomb, Moves, backupVars
    <3>2. quar.ino = 0 /\ intent.ino # 0 /\ intent.detached /\ intent.ino # vault.ino
      BY <3>1 DEF CloseInv, OnePlace, Stands, Purged
    <3>3. CreationInv' /\ at'[Closer] = "entombed"
      BY <3>1, CloserKeepsCreation DEF Closing, Purged
    <3>4. /\ Named' = Named \cup {intent.ino}
          /\ \A j, k \in DOMAIN tombs' : tombs'[j] = tombs'[k] => j = k
      BY <2>12, EntombedOnce DEF CloseInv, OnePlace, CloseTomb
    <3>5. InodesMade' /\ OnePlace'
      BY <3>1, <3>2, <3>4, Numbered DEF CloseInv, InodesMade, OnePlace
    <3>6. Accounted'
      BY <3>1, <3>4 DEF CloseInv, Accounted
    <3>7. Stands'
      BY <3>1, <3>2, <3>3, <3>4 DEF Stands, Preparing, Checked, Away, Purged
    <3> QED BY <3>3, <3>5, <3>6, <3>7 DEF CloseInv
  <2>13. CASE CloseRecord
    <3>1. /\ at[Closer] = "entombed" /\ at' = [at EXCEPT ![Closer] = "recorded"]
          /\ record' = intent.ino
          /\ UNCHANGED <<vault, quar, intent, made, creation, tombs, overwritten>>
      BY <2>13 DEF CloseRecord, Moves, backupVars
    <3>2. CreationInv' /\ at'[Closer] = "recorded"
      BY <3>1, CloserKeepsCreation DEF Closing, Purged
    <3>3. intent.ino \in Named
      BY <3>1 DEF CloseInv, Stands
    <3>4. InodesMade' /\ OnePlace' /\ Accounted'
      BY <3>1, <3>3 DEF CloseInv, InodesMade, OnePlace, Accounted, Named
    <3>5. Stands'
      BY <3>1, <3>2 DEF CloseInv, Stands, Preparing, Checked, Away, Purged, Named
    <3> QED BY <3>2, <3>4, <3>5 DEF CloseInv
  <2>14. CASE CloseEnd
    <3>1. /\ at[Closer] = "recorded" /\ at' = [at EXCEPT ![Closer] = "idle"] /\ creation' = "free"
          /\ intent'.ino = 0 /\ ~intent'.detached
          /\ UNCHANGED <<vault, quar, made, tombs, record, overwritten>>
      BY <2>14, NothingFields DEF CloseEnd, Moves, backupVars
    <3>2. at'[Closer] = "idle" /\ at'[Archivist] # "restoring"
      BY <3>1, Typed, Constants DEF CloseInv, CreationInv, Closing, Purged
    <3>3. CreationInv'
      BY <3>2 DEF CreationInv, Closing, Preparing, Checked, Away, Purged
    <3>4. intent.ino \in Named /\ quar.ino = 0
      BY <3>1 DEF CloseInv, Stands, Purged
    <3>5. InodesMade' /\ OnePlace'
      BY <3>1, <3>4, Numbered DEF CloseInv, InodesMade, OnePlace, Named
    <3>6. Accounted'
      BY <3>1, <3>4 DEF CloseInv, Accounted, Named
    <3>7. Stands'
      BY <3>2 DEF Stands, Preparing, Checked, Away, Purged
    <3> QED BY <3>3, <3>5, <3>6, <3>7 DEF CloseInv
  <2>15. CASE CloseFails
    <3>1. /\ at[Closer] \in Closing /\ at' = [at EXCEPT ![Closer] = "idle"] /\ creation' = "free"
          /\ vault'.ino = vault.ino /\ vault'.hold = vault.hold
          /\ UNCHANGED <<quar, made, tombs, record, overwritten, intent>>
      BY <2>15, FreedFields, Constants DEF CloseFails, Past, Closing, Preparing, Checked
    <3>2. at'[Closer] = "idle" /\ at'[Archivist] # "restoring"
      BY <3>1, Typed, Constants DEF CloseInv, CreationInv
    <3>3. CreationInv' /\ at'[Closer] \notin Closing
      BY <3>2 DEF CreationInv, Closing, Preparing, Checked, Away, Purged
    <3> QED BY <3>1, <3>3, ClosingStays
  <2>16. CASE SetHold
    <3>1. /\ vault'.ino = vault.ino /\ (at[Closer] \in Checked => late')
          /\ UNCHANGED <<at, creation, made, quar, intent, tombs, record, overwritten>>
      BY <2>16, HoldChanged, Typed, Zenon DEF SetHold, Past, Checked, backupVars
    <3>2. CreationInv' /\ InodesMade' /\ OnePlace' /\ Accounted'
      BY <3>1 DEF CloseInv, CreationInv, InodesMade, OnePlace, Accounted, Named
    <3>3. Stands'
      BY <3>1 DEF CloseInv, Stands, Present, Named
    <3> QED BY <3>2, <3>3 DEF CloseInv
  <2> QED BY <1>3, <2>1, <2>2, <2>3, <2>4, <2>5, <2>6, <2>7, <2>8, <2>9, <2>10, <2>11,
     <2>12, <2>13, <2>14, <2>15, <2>16
     DEF CloseStep
<1>4. CASE CreateVault /\ UNCHANGED <<backupVars, closeVars>>
  <3>1. CreationInv'
    BY <1>4, CreationStays DEF CreateVault
  <3>2. ~Present /\ vault'.ino = made + 1 /\ made' = made + 1
    BY <1>4, MadeFields, AbsentFields DEF CreateVault
  <3> QED BY <1>4, <3>1, <3>2, ClosingStays DEF CreateVault, backupVars, closeVars
<1>5. CASE Expire /\ UNCHANGED <<backupVars, closeVars>>
  <3>1. CreationInv'
    BY <1>5, CreationStays DEF Expire
  <3>2. vault'.ino = vault.ino /\ vault'.hold = vault.hold
    BY <1>5, StaleChanged, Typed DEF Expire
  <3> QED BY <1>5, <3>1, <3>2, ClosingStays DEF Expire, backupVars, closeVars
<1>6. ASSUME NEW p \in Procs, KeeperBeat(p), UNCHANGED <<backupVars, closeVars>>
      PROVE  CloseInv'
  <3>1. CreationInv'
    BY <1>6, CreationStays DEF KeeperBeat
  <3>2. vault'.ino = vault.ino /\ vault'.hold = vault.hold
    BY <1>6, RenewedFields DEF KeeperBeat
  <3> QED BY <1>6, <3>1, <3>2, ClosingStays DEF KeeperBeat, backupVars, closeVars
<1>7. ASSUME NEW dead \in SUBSET Procs, Deaths(dead)
      PROVE  CloseInv'
  <3>1. \A p \in Procs : at'[p] = IF p \in dead THEN "idle" ELSE at[p]
    BY <1>7 DEF Deaths, Dies
  <3>2. creation' = IF creation \in dead THEN "free" ELSE creation
    BY <1>7 DEF Deaths, Dies
  <3>3. /\ (at'[Closer] = at[Closer] /\ Closer \notin dead) \/ at'[Closer] = "idle"
        /\ (at'[Archivist] = at[Archivist] /\ Archivist \notin dead) \/ at'[Archivist] = "idle"
    BY <3>1, Constants
  <3>4. CreationInv'
    BY <3>2, <3>3 DEF CloseInv, CreationInv, Closing, Preparing, Checked, Away, Purged
  <3>5. (at'[Closer] = at[Closer] /\ late' = late) \/ at'[Closer] \notin Closing
    <4>1. "idle" \notin Closing
      BY DEF Closing, Preparing, Checked, Away, Purged
    <4>2. late' = (late /\ at'[Closer] # "idle") /\ late \in BOOLEAN
      BY <1>7 DEF Deaths, TypeInv, TypeOK
    <4>3. CASE at'[Closer] = "idle"
      BY <4>1, <4>3
    <4>4. CASE at'[Closer] # "idle"
      <5>1. late' = late
        BY <4>2, <4>4
      <5> QED BY <3>3, <4>4, <5>1
    <4> QED BY <4>3, <4>4
  <3> QED BY <1>7, <3>4, <3>5, ClosingStays DEF Deaths, Dies
<1> QED BY <1>1, <1>2, <1>3, <1>4, <1>5, <1>6, <1>7, DeathIsDeaths DEF Next

(***************************************************************************)
(* Undisturbed, who works under the lock owns it                           *)
(***************************************************************************)

\* what disturbs a session is not forgotten
LEMMA DisturbedStays ==
    ASSUME Next, disturbed
    PROVE  disturbed'
<1>1. CASE SessionStep
  BY <1>1 DEF SessionStep, Resolve, Enter, TurnedAway, Load, AppendRecord, Leave, BeginCall,
              Fence
<1>2. CASE BackupStep
  BY <1>2
     DEF BackupStep, BackupResolve, Resolve, BackupEnter, Enter, BackupRefused, TurnedAway,
              BackupRead, StartReading, BackupReadOn, FinishReading, BackupDone, Restore,
              RestoreWipe, RestorePublish, RestoreBlocked
<1>3. CASE CloseStep
  BY <1>3 DEF CloseStep, CloseBegin, CloseLock, CloseRetention, CloseRead, StartReading,
              CloseReadOn, FinishReading, CloseBackup, CloseUnbacked, Waived, CloseIntend,
              CloseMove, CloseMark, ClosePurge, CloseTomb, CloseRecord, CloseEnd, CloseFails,
              SetHold
<1>4. CASE CreateVault \/ Expire \/ \E p \in Procs : KeeperBeat(p)
  BY <1>4 DEF CreateVault, Expire, KeeperBeat
<1>5. CASE (\E p \in Procs : Crash(p)) \/ (\E b \in Boxes : Redeploy(b))
  BY <1>5 DEF Crash, Redeploy, Dies
<1> QED BY <1>1, <1>2, <1>3, <1>4, <1>5 DEF Next

\* whoever may take the lock takes it from nobody
LEMMA FreeToTake ==
    ASSUME TypeInv, TokenInv, Guarded, NEW p \in Procs, CanTake(p, vault.lock)
    PROVE  \A q \in Procs : ~Owns(q) /\ at[q] \notin Held
BY Typed DEF TokenInv, Guarded, StaleIsFree, HeldIsOwned, CanTake, Owns

LEMMA AbsentIsFree ==
    ASSUME TypeInv, TokenInv, Guarded, ~Present
    PROVE  \A q \in Procs : ~Owns(q) /\ at[q] \notin Held
BY Typed DEF TokenInv, Guarded, HeldIsOwned, Owns, Present

LEMMA OneHolder ==
    ASSUME TypeInv, TokenInv, Guarded, NEW p \in Procs, at[p] \in Held
    PROVE  /\ Owns(p) /\ Present
           /\ \A q \in Procs : q # p => ~Owns(q) /\ at[q] \notin Held
BY Typed DEF TokenInv, Guarded, HeldIsOwned, Owns, Present

LEMMA GuardAcquired ==
    ASSUME TypeInv, TokenInv, Guarded, NEW p \in Procs, NEW phase \in {"locked", "closeLocked"},
           Acquire(p, phase), UNCHANGED <<seen, shot, archive, intent, quar>>
    PROVE  Guarded'
<1>1. CanTake(p, vault.lock) /\ mine' = [mine EXCEPT ![p] = issued + 1]
      /\ at' = [at EXCEPT ![p] = phase]
  BY DEF Acquire
<1>2. vault'.lock.tok = issued + 1 /\ ~vault'.lock.stale
  BY Acquired
<1>3. \A q \in Procs : ~Owns(q) /\ at[q] \notin Held
  BY <1>1, FreeToTake
<1>4. /\ \A q \in Procs : mine'[q] = IF q = p THEN issued + 1 ELSE mine[q]
      /\ \A q \in Procs : at'[q] = IF q = p THEN phase ELSE at[q]
  BY <1>1, Typed
<1>5. \A q \in Procs : at'[q] \in Held => q = p
  BY <1>3, <1>4
<1>6. phase \notin {"ready", "calling", "fenced", "reading", "read", "closeReading",
                    "closeRead", "closeBacked", "closeIntended", "moved", "marked"}
  OBVIOUS
<1>7. HeldIsOwned' /\ StaleIsFree'
  BY <1>2, <1>4, <1>5, Typed DEF HeldIsOwned, StaleIsFree, Owns
<1>8. ArchiveIsFree'
  BY <1>4, Typed DEF TokenInv, Guarded, ArchiveIsFree
<1>9. /\ \A q \in Procs : at'[q] \notin Reading \cup {"read", "ready", "calling", "fenced"}
      /\ at'[Closer] \notin {"closeBacked", "closeIntended"}
  BY <1>4, <1>5, <1>6, Constants DEF Held, Checked, Reading
<1>10. SnapshotToken' /\ FoldsCurrent' /\ SnapshotsCurrent'
  BY <1>9 DEF SnapshotToken, FoldsCurrent, SnapshotsCurrent
<1>11. BackedUp' /\ NotTorn'
  BY <1>9 DEF Guarded, BackedUp, NotTorn
<1> QED BY <1>7, <1>8, <1>10, <1>11 DEF Guarded

\* a vault appears at an empty path: nobody works there
LEMMA GuardNewVault ==
    ASSUME TypeInv, TokenInv, Guarded, ~Present, UNCHANGED <<mine, archive, intent, quar, shot>>,
           \A p \in Procs : at'[p] = at[p] \/ at'[p] = "idle",
           at'[Closer] = at[Closer] \/ at[Closer] \notin Away \cup {"closeBacked", "closeIntended"},
           \/ ~vault'.lock.stale
           \/ /\ vault'.lock = archive.vault.lock
              /\ at[Closer] \notin Away \cup {"closeBacked", "closeIntended"}
    PROVE  Guarded'
<1>1. \A p \in Procs : ~Owns(p) /\ at'[p] \notin Held
  BY AbsentIsFree DEF Held, Checked
<1>2. HeldIsOwned'
  BY <1>1 DEF HeldIsOwned
<1>3. StaleIsFree' /\ ArchiveIsFree'
  BY DEF Guarded, StaleIsFree, ArchiveIsFree, Owns
<1>4. SnapshotToken' /\ FoldsCurrent' /\ SnapshotsCurrent'
  BY <1>1, Constants DEF SnapshotToken, FoldsCurrent, SnapshotsCurrent, Held, Checked, Reading
<1>5. BackedUp' /\ NotTorn'
  BY <1>1, Constants DEF Guarded, BackedUp, NotTorn, Held, Checked
<1> QED BY <1>2, <1>3, <1>4, <1>5 DEF Guarded

\* a process lets its lock go, and keeps its snapshot as the archive if that is whole
LEMMA GuardReleased ==
    ASSUME TypeInv, TokenInv, Guarded, NEW p \in Procs, vault' = Freed(p),
           mine' = [mine EXCEPT ![p] = 0], NEW phase \in {"idle", "purged"},
           at' = [at EXCEPT ![p] = phase],
           \A q \in Procs : seen'[q] = seen[q] \/ q = p,
           \/ archive' = archive
           \/ archive' = shot[p] /\ at[p] = "read",
           \A q \in Procs : shot'[q] = shot[q] \/ (q = p /\ shot'[q] = NoShot),
           quar' = quar \/ quar'.ino = 0, intent' = intent
    PROVE  Guarded'
<1>1. /\ \A q \in Procs : mine'[q] = IF q = p THEN 0 ELSE mine[q]
      /\ \A q \in Procs : at'[q] = IF q = p THEN phase ELSE at[q]
  BY Typed
<1>2. /\ vault'.ino = vault.ino /\ vault'.work = vault.work
      /\ Owns(p) => vault'.lock.stale = FALSE
      /\ ~Owns(p) => vault'.lock = vault.lock
  BY FreedFields
<1>3. \A q \in Procs : at'[q] \in Held => q # p /\ at[q] \in Held
  BY <1>1 DEF Held, Checked
<1>4. HeldIsOwned'
  <2>1. ASSUME NEW q \in Procs, at'[q] \in Held
        PROVE  mine'[q] # 0 /\ vault'.lock.tok = mine'[q]
    <3>1. q # p /\ mine[q] # 0 /\ vault.lock.tok = mine[q]
      BY <1>3, <2>1 DEF Guarded, HeldIsOwned, Owns
    <3>2. ~Owns(p)
      BY <3>1 DEF TokenInv, Owns
    <3> QED BY <1>1, <1>2, <3>1, <3>2
  <2> QED BY <2>1 DEF HeldIsOwned, Owns
<1>5. StaleIsFree'
  <2>1. ASSUME NEW q \in Procs, vault'.lock.stale, mine'[q] # 0
        PROVE  vault'.lock.tok # mine'[q]
    <3>1. ~Owns(p) /\ vault'.lock = vault.lock
      BY <1>2, <2>1
    <3>2. ~Owns(q)
      BY <2>1, <3>1 DEF Guarded, StaleIsFree
    <3> QED BY <1>1, <2>1, <3>1, <3>2 DEF Owns
  <2> QED BY <2>1 DEF StaleIsFree, Owns
<1>6. ArchiveIsFree'
  <2>1. CASE archive' = archive
    BY <1>1, <2>1 DEF Guarded, ArchiveIsFree
  <2>2. CASE archive' = shot[p] /\ at[p] = "read"
    <3>1. archive'.vault.lock.tok = mine[p]
      BY <2>2 DEF Guarded, SnapshotToken
    <3>2. ASSUME NEW q \in Procs, mine'[q] # 0  PROVE mine'[q] # mine[p]
      <4>1. q # p /\ mine'[q] = mine[q] /\ mine[q] # 0
        BY <1>1, <3>2
      <4> QED BY <4>1 DEF TokenInv
    <3> QED BY <3>1, <3>2 DEF ArchiveIsFree
  <2> QED BY <2>1, <2>2
<1>7. \A q \in Procs : at'[q] \in Held => shot'[q] = shot[q] /\ seen'[q] = seen[q]
  BY <1>3
<1>8. SnapshotToken' /\ FoldsCurrent'
  BY <1>1, <1>2, <1>3, <1>7
     DEF Guarded, SnapshotToken, FoldsCurrent, Held, Checked, Reading
<1>9. SnapshotsCurrent'
  BY <1>1, <1>2, <1>3, <1>7, Constants
     DEF Guarded, SnapshotsCurrent, Current, Held, Checked, Reading
<1>10. BackedUp'
  BY <1>1, <1>2, <1>3, Constants DEF Guarded, BackedUp, Held, Checked
<1>11. NotTorn'
  BY NothingFields DEF Guarded, NotTorn
<1> QED BY <1>4, <1>5, <1>6, <1>8, <1>9, <1>10, <1>11 DEF Guarded

\* a process goes on under the lock it has, which is renewed at most
LEMMA GuardMoves ==
    ASSUME TypeInv, Guarded, NEW p \in Procs, NEW phase \in Held,
           at[p] \in Held, at' = [at EXCEPT ![p] = phase], mine' = mine,
           vault'.lock.tok = vault.lock.tok, ~vault'.lock.stale \/ vault'.lock = vault.lock
    PROVE  HeldIsOwned' /\ StaleIsFree'
BY Typed DEF Guarded, HeldIsOwned, StaleIsFree, Owns

LEMMA GuardKept ==
    ASSUME TypeInv, TokenInv, CloseInv, Guarded, ~disturbed', Next
    PROVE  Guarded'
<1>1. CASE SessionStep /\ UNCHANGED <<backupVars, closeVars>>
  <2>1. ASSUME NEW p \in Sessions, Resolve(p)  PROVE Guarded'
    BY <2>1, <1>1, Constants, Typed
       DEF Resolve, Moves, Guarded, HeldIsOwned, StaleIsFree, ArchiveIsFree,
           SnapshotToken, FoldsCurrent, SnapshotsCurrent, BackedUp, NotTorn, Owns,
           Current, Held, Checked, Reading, Away, backupVars, closeVars
  <2>2. ASSUME NEW p \in Sessions, Enter(p)  PROVE Guarded'
    BY <2>2, <1>1, GuardAcquired, Constants DEF Enter, backupVars, closeVars
  <2>3. ASSUME NEW p \in Sessions, TurnedAway(p)  PROVE Guarded'
    BY <2>3, <1>1, Constants, Typed
       DEF TurnedAway, Moves, Guarded, HeldIsOwned, StaleIsFree, ArchiveIsFree,
           SnapshotToken, FoldsCurrent, SnapshotsCurrent, BackedUp, NotTorn, Owns,
           Current, Held, Checked, Reading, Away, backupVars, closeVars
  <2>4. ASSUME NEW p \in Sessions, Load(p)  PROVE Guarded'
    <3>1. /\ at[p] = "locked" /\ at' = [at EXCEPT ![p] = "ready"]
          /\ seen' = [seen EXCEPT ![p] = <<vault.ino, vault.work>>]
          /\ UNCHANGED <<mine, shot, archive, intent, quar>>
      BY <2>4, <1>1 DEF Load, Moves, backupVars, closeVars
    <3>2. /\ vault'.ino = vault.ino /\ vault'.work = vault.work
          /\ vault'.lock.tok = vault.lock.tok /\ (~vault'.lock.stale \/ vault'.lock = vault.lock)
      BY <2>4, RenewedFields DEF Load
    <3>3. HeldIsOwned' /\ StaleIsFree'
      BY <3>1, <3>2, GuardMoves, Constants DEF Held
    <3>4. ArchiveIsFree' /\ SnapshotToken' /\ SnapshotsCurrent' /\ BackedUp' /\ NotTorn'
      BY <3>1, <3>2, Typed, Constants
         DEF Guarded, ArchiveIsFree, SnapshotToken, SnapshotsCurrent, BackedUp, NotTorn,
             Reading, Current
    <3>5. FoldsCurrent'
      BY <3>1, <3>2, Typed, Constants DEF Guarded, FoldsCurrent
    <3> QED BY <3>3, <3>4, <3>5 DEF Guarded
  <2>5. ASSUME NEW p \in Sessions, AppendRecord(p)  PROVE Guarded'
    <3>1. at[p] \in {"ready", "fenced"} /\ at[p] \in Held
      BY <2>5 DEF AppendRecord, Held
    <3>2. Present /\ \A q \in Procs : q # p => at[q] \notin Held
      BY <3>1, OneHolder, Constants
    <3>3. /\ vault'.ino = vault.ino /\ vault'.lock = vault.lock
      BY <2>5, <3>2, Appended
    <3>4. /\ (IF p \in Drivers THEN "locked" ELSE "leaving") \in {"locked", "leaving"}
          /\ at' = [at EXCEPT ![p] = (IF p \in Drivers THEN "locked" ELSE "leaving")]
          /\ UNCHANGED <<mine, shot, archive, intent, quar>>
      BY <2>5, <1>1 DEF AppendRecord, backupVars, closeVars
    <3>5. \A q \in Procs : at'[q] \in Held => q = p /\ at'[q] \in {"locked", "leaving"}
      BY <3>2, <3>4, Typed
    <3>6. HeldIsOwned' /\ StaleIsFree'
      BY <3>1, <3>3, <3>4, GuardMoves, Constants DEF Held
    <3>7. SnapshotToken' /\ FoldsCurrent' /\ SnapshotsCurrent'
      BY <3>5, Constants
         DEF SnapshotToken, FoldsCurrent, SnapshotsCurrent, Held, Checked, Reading
    <3>8. ArchiveIsFree' /\ BackedUp' /\ NotTorn'
      BY <3>1, <3>4, <3>5, Typed, Constants
         DEF Guarded, ArchiveIsFree, BackedUp, NotTorn, Held, Checked, Away
    <3> QED BY <3>6, <3>7, <3>8 DEF Guarded
  <2>6. ASSUME NEW p \in Sessions, Leave(p)  PROVE Guarded'
    BY <2>6, <1>1, GuardReleased, Typed, Constants DEF Leave, backupVars, closeVars
  <2>7. ASSUME NEW d \in Drivers, BeginCall(d)  PROVE Guarded'
    BY <2>7, <1>1, Constants, Typed, RenewedFields, ZenonT(40)
       DEF BeginCall, Moves, Guarded, HeldIsOwned, StaleIsFree, ArchiveIsFree,
           SnapshotToken, FoldsCurrent, SnapshotsCurrent, BackedUp, NotTorn, Owns,
           Current, Held, Checked, Reading, Away, backupVars, closeVars
  <2>8. ASSUME NEW d \in Drivers, Fence(d)  PROVE Guarded'
    BY <2>8, <1>1, Constants, Typed, RenewedFields, ZenonT(40)
       DEF Fence, Moves, Guarded, HeldIsOwned, StaleIsFree, ArchiveIsFree,
           SnapshotToken, FoldsCurrent, SnapshotsCurrent, BackedUp, NotTorn, Owns,
           Current, Held, Checked, Reading, Away, backupVars, closeVars
  <2> QED BY <1>1, <2>1, <2>2, <2>3, <2>4, <2>5, <2>6, <2>7, <2>8 DEF SessionStep
<1>2. CASE BackupStep /\ UNCHANGED closeVars
  <2>1. CASE BackupResolve
    BY <2>1, <1>2, Constants, Typed
       DEF BackupResolve, Resolve, Moves, Guarded, HeldIsOwned, StaleIsFree,
           ArchiveIsFree, SnapshotToken, FoldsCurrent, SnapshotsCurrent, BackedUp,
           NotTorn, Owns, Current, Held, Checked, Reading, Away, backupVars,
           closeVars
  <2>2. CASE BackupEnter
    BY <2>2, <1>2, GuardAcquired, Constants DEF BackupEnter, Enter, backupVars, closeVars
  <2>3. CASE BackupRefused
    BY <2>3, <1>2, Constants, Typed
       DEF BackupRefused, TurnedAway, Moves, Guarded, HeldIsOwned, StaleIsFree,
           ArchiveIsFree, SnapshotToken, FoldsCurrent, SnapshotsCurrent, BackedUp,
           NotTorn, Owns, Current, Held, Checked, Reading, Away, backupVars,
           closeVars
  <2>4. CASE BackupRead
    BY <2>4, <1>2, Constants, Typed
       DEF BackupRead, StartReading, Moves, Guarded, HeldIsOwned, StaleIsFree,
           ArchiveIsFree, SnapshotToken, FoldsCurrent, SnapshotsCurrent, BackedUp,
           NotTorn, Owns, Current, Held, Checked, Reading, Away, backupVars,
           closeVars
  <2>5. CASE BackupReadOn
    <3>1. /\ at[Archivist] = "reading" /\ at' = [at EXCEPT ![Archivist] = "read"]
          /\ UNCHANGED <<vault, mine, seen, archive, intent, quar>>
      BY <2>5, <1>2 DEF BackupReadOn, FinishReading, Moves, closeVars
    <3>2. Current(Archivist)
      BY <3>1, Constants DEF Guarded, SnapshotsCurrent, Reading
    <3>3. \A q \in Procs : ~shot'[q].torn /\ shot'[q].vault = shot[q].vault
      BY <2>5, <3>2, Typed, Constants
         DEF BackupReadOn, FinishReading, Current, Guarded, NotTorn, Shot
    <3> QED BY <3>1, <3>3, Typed, Constants
               DEF Guarded, HeldIsOwned, StaleIsFree, ArchiveIsFree, SnapshotToken,
                   FoldsCurrent,
                SnapshotsCurrent, BackedUp, NotTorn, Owns, Current, Held, Checked, Reading, Away
  <2>6. CASE BackupDone(TRUE)
    <3>1. \A q \in Procs : shot'[q] = shot[q] \/ (q = Archivist /\ shot'[q] = NoShot)
      BY <2>6, Typed, Constants DEF BackupDone
    <3>2. archive' = archive \/ (archive' = shot[Archivist] /\ at[Archivist] = "read")
      BY <2>6 DEF BackupDone, Accepted
    <3> QED BY <2>6, <1>2, <3>1, <3>2, GuardReleased, Constants DEF BackupDone, closeVars
  <2>7. CASE BackupDone(FALSE)
    <3>1. \A q \in Procs : shot'[q] = shot[q] \/ (q = Archivist /\ shot'[q] = NoShot)
      BY <2>7, Typed, Constants DEF BackupDone
    <3>2. archive' = archive \/ (archive' = shot[Archivist] /\ at[Archivist] = "read")
      BY <2>7 DEF BackupDone, Accepted
    <3> QED BY <2>7, <1>2, <3>1, <3>2, GuardReleased, Constants DEF BackupDone, closeVars
  <2>8. CASE Restore
    <3>1. vault'.lock = archive.vault.lock
      BY <2>8, MadeFields, Typed DEF Restore, Publish
    <3>2. creation = "free" /\ at[Closer] \notin Away \cup {"closeBacked", "closeIntended"}
      BY <2>8, Constants DEF Restore, CloseInv, CreationInv, Closing, Preparing, Checked
    <3> QED BY <2>8, <1>2, <3>1, <3>2, GuardNewVault, Constants
               DEF Restore, backupVars, closeVars
  <2>9. CASE RestoreWipe
    BY <2>9, <1>2, Constants, Typed, NothingFields, AbsentFields, UnlockedFields
       DEF RestoreWipe, Moves, HasArchive, Guarded, HeldIsOwned, StaleIsFree,
           ArchiveIsFree, SnapshotToken, FoldsCurrent, SnapshotsCurrent, BackedUp,
           NotTorn, Owns, Current, Held, Checked, Reading, Away, backupVars,
           closeVars
  <2>10. CASE RestorePublish
    <3>1. vault'.lock = archive.vault.lock
      BY <2>10, MadeFields, Typed DEF RestorePublish, Publish
    <3>2. at[Archivist] = "restoring" /\ at' = [at EXCEPT ![Archivist] = "idle"]
      BY <2>10 DEF RestorePublish, Moves
    <3>3. at[Closer] \notin Closing
      BY <3>2, Constants DEF CloseInv, CreationInv, Closing, Preparing, Checked, Away, Purged
    <3>4. \A p \in Procs : at'[p] = at[p] \/ at'[p] = "idle"
      BY <3>2, Typed
    <3> QED BY <2>10, <1>2, <3>1, <3>3, <3>4, GuardNewVault
            DEF RestorePublish, backupVars, closeVars, Closing, Preparing, Checked
  <2>11. CASE RestoreBlocked
    BY <2>11, <1>2, Constants, Typed
       DEF RestoreBlocked, Moves, Guarded, HeldIsOwned, StaleIsFree, ArchiveIsFree,
           SnapshotToken, FoldsCurrent, SnapshotsCurrent, BackedUp, NotTorn, Owns,
           Current, Held, Checked, Reading, Away, backupVars, closeVars
  <2> QED BY <1>2, <2>1, <2>2, <2>3, <2>4, <2>5, <2>6, <2>7, <2>8, <2>9, <2>10, <2>11
     DEF BackupStep
<1>3. CASE CloseStep
  <2>1. CASE CloseBegin
    <3> DEFINE r == Recovered
    <3>1. /\ at[Closer] = "idle" /\ at' = [at EXCEPT ![Closer] = r] /\ r # "refused"
          /\ UNCHANGED <<vault, mine, seen, shot, archive, intent, quar>>
      BY <2>1 DEF CloseBegin, backupVars, closeVars
    <3>2. r \in {"closing", "moved", "purged"}
      BY <3>1, RecoveredPhase
    <3> HIDE DEF r
    <3> QED BY <3>1, <3>2, Typed, Constants
               DEF Guarded, HeldIsOwned, StaleIsFree, ArchiveIsFree, SnapshotToken,
                   FoldsCurrent,
                SnapshotsCurrent, BackedUp, NotTorn, Owns, Current, Held, Checked, Reading, Away
  <2>2. CASE CloseLock
    BY <2>2, GuardAcquired, Constants DEF CloseLock, backupVars, closeVars
  <2>3. CASE CloseRetention
    BY <2>3, Constants, Typed
       DEF CloseRetention, Moves, Guarded, HeldIsOwned, StaleIsFree, ArchiveIsFree,
           SnapshotToken, FoldsCurrent, SnapshotsCurrent, BackedUp, NotTorn, Owns,
           Current, Held, Checked, Reading, Away, backupVars, closeVars
  <2>4. CASE CloseRead
    BY <2>4, Constants, Typed
       DEF CloseRead, StartReading, Moves, Guarded, HeldIsOwned, StaleIsFree,
           ArchiveIsFree, SnapshotToken, FoldsCurrent, SnapshotsCurrent, BackedUp,
           NotTorn, Owns, Current, Held, Checked, Reading, Away, backupVars,
           closeVars
  <2>5. CASE CloseReadOn
    <3>1. /\ at[Closer] = "closeReading" /\ at' = [at EXCEPT ![Closer] = "closeRead"]
          /\ UNCHANGED <<vault, mine, seen, archive, intent, quar>>
      BY <2>5 DEF CloseReadOn, FinishReading, Moves, closeVars
    <3>2. Current(Closer)
      BY <3>1, Constants DEF Guarded, SnapshotsCurrent, Reading
    <3>3. \A q \in Procs : ~shot'[q].torn /\ shot'[q].vault = shot[q].vault
      BY <2>5, <3>2, Typed, Constants
         DEF CloseReadOn, FinishReading, Current, Guarded, NotTorn, Shot
    <3> QED BY <3>1, <3>3, Typed, Constants, ZenonT(40)
               DEF Guarded, HeldIsOwned, StaleIsFree, ArchiveIsFree, SnapshotToken,
                   FoldsCurrent,
                SnapshotsCurrent, BackedUp, NotTorn, Owns, Current, Held, Checked, Reading, Away
  <2>6. CASE CloseBackup
    <3>1. /\ at[Closer] = "closeRead" /\ at' = [at EXCEPT ![Closer] = "closeBacked"]
          /\ archive' = shot[Closer]
          /\ UNCHANGED <<vault, mine, seen, shot, intent, quar>>
      BY <2>6 DEF CloseBackup, Accepted, Moves, closeVars
    <3>2. archive'.vault.lock.tok = mine[Closer]
      BY <3>1, Constants DEF Guarded, SnapshotToken, Reading
    <3>3. ArchiveIsFree'
      BY <3>1, <3>2, Typed, Constants DEF TokenInv, ArchiveIsFree
    <3>4. HeldIsOwned' /\ StaleIsFree'
      BY <3>1, GuardMoves, Constants DEF Held, Checked
    <3>5. SnapshotToken' /\ FoldsCurrent' /\ SnapshotsCurrent'
      BY <3>1, Typed, Constants
         DEF Guarded, SnapshotToken, FoldsCurrent, SnapshotsCurrent, Current, Reading
    <3>6. BackedUp' /\ NotTorn'
      BY <3>1, Typed, Constants DEF Guarded, BackedUp, NotTorn
    <3> QED BY <3>3, <3>4, <3>5, <3>6 DEF Guarded
  <2>7. CASE CloseUnbacked
    BY <2>7, Constants, Typed, NothingFields, AbsentFields, UnlockedFields
       DEF CloseUnbacked, Waived, Moves, Guarded, HeldIsOwned, StaleIsFree,
           ArchiveIsFree, SnapshotToken, FoldsCurrent, SnapshotsCurrent, BackedUp,
           NotTorn, Owns, Current, Held, Checked, Reading, Away, backupVars,
           closeVars
  <2>8. CASE CloseIntend
    <3>1. /\ at[Closer] = "closeBacked" /\ at' = [at EXCEPT ![Closer] = "closeIntended"]
          /\ intent'.work = shot[Closer].vault.work
          /\ intent'.backed = (shot[Closer].vault.ino # 0)
          /\ UNCHANGED <<vault, mine, seen, shot, archive, quar>>
      BY <2>8 DEF CloseIntend, Moves, backupVars
    <3>2. intent'.backed => intent'.work = vault.work
      BY <3>1 DEF Guarded, SnapshotsCurrent, Current
    <3>3. quar.ino = 0
      BY <3>1 DEF CloseInv, Stands, Preparing, Checked
    <3>4. HeldIsOwned' /\ StaleIsFree'
      BY <3>1, GuardMoves, Constants DEF Held, Checked
    <3>5. BackedUp'
      BY <3>1, <3>2, <3>3 DEF BackedUp
    <3>6. ArchiveIsFree' /\ SnapshotToken' /\ NotTorn'
      BY <3>1, Typed, Constants
         DEF Guarded, ArchiveIsFree, SnapshotToken, NotTorn, Reading, Away
    <3>7. FoldsCurrent' /\ SnapshotsCurrent'
      BY <3>1, Typed, Constants DEF Guarded, FoldsCurrent, SnapshotsCurrent, Current, Reading
    <3> QED BY <3>4, <3>5, <3>6, <3>7 DEF Guarded
  <2>9. CASE CloseMove
    <3>1. /\ at[Closer] = "closeIntended" /\ at' = [at EXCEPT ![Closer] = "moved"]
          /\ quar' = vault /\ vault' = Absent
          /\ UNCHANGED <<mine, seen, shot, archive, intent>>
      BY <2>9 DEF CloseMove, Moves, backupVars
    <3>2. \A q \in Procs : at'[q] \notin Held
      <4>1. \A q \in Procs : q # Closer => at[q] \notin Held
        BY <3>1, OneHolder, Constants DEF Held, Checked
      <4> QED BY <3>1, <4>1, Typed, Constants DEF Held, Checked
    <3>3. HeldIsOwned' /\ SnapshotToken' /\ FoldsCurrent' /\ SnapshotsCurrent'
      BY <3>2, Constants
         DEF HeldIsOwned, SnapshotToken, FoldsCurrent, SnapshotsCurrent, Held, Checked, Reading
    <3>4. StaleIsFree'
      BY <3>1, AbsentFields, UnlockedFields DEF StaleIsFree
    <3>5. ArchiveIsFree' /\ NotTorn'
      BY <3>1, Typed, Constants DEF Guarded, ArchiveIsFree, NotTorn, Away
    <3>6. BackedUp'
      BY <3>1, <3>2, Constants DEF Guarded, BackedUp, Held, Checked
    <3> QED BY <3>3, <3>4, <3>5, <3>6 DEF Guarded
  <2>10. CASE CloseMark
    BY <2>10, Constants, Typed
       DEF CloseMark, Moves, Guarded, HeldIsOwned, StaleIsFree, ArchiveIsFree,
           SnapshotToken, FoldsCurrent, SnapshotsCurrent, BackedUp, NotTorn, Owns,
           Current, Held, Checked, Reading, Away, backupVars, closeVars
  <2>11. CASE ClosePurge
    <3>1. \A q \in Procs : shot'[q] = shot[q] \/ (q = Closer /\ shot'[q] = NoShot)
      BY <2>11, Typed, Constants DEF ClosePurge, EndsLock
    <3>2. quar'.ino = 0
      BY <2>11, AbsentFields DEF ClosePurge
    <3> QED BY <2>11, <3>1, <3>2, GuardReleased, Constants DEF ClosePurge, EndsLock, Moves
  <2>12. CASE CloseTomb
    BY <2>12, Constants, Typed
       DEF CloseTomb, Moves, Guarded, HeldIsOwned, StaleIsFree, ArchiveIsFree,
           SnapshotToken, FoldsCurrent, SnapshotsCurrent, BackedUp, NotTorn, Owns,
           Current, Held, Checked, Reading, Away, backupVars, closeVars
  <2>13. CASE CloseRecord
    BY <2>13, Constants, Typed
       DEF CloseRecord, Moves, Guarded, HeldIsOwned, StaleIsFree, ArchiveIsFree,
           SnapshotToken, FoldsCurrent, SnapshotsCurrent, BackedUp, NotTorn, Owns,
           Current, Held, Checked, Reading, Away, backupVars, closeVars
  <2>14. CASE CloseEnd
    <3>1. /\ at[Closer] = "recorded" /\ at' = [at EXCEPT ![Closer] = "idle"]
          /\ intent'.backed = FALSE
          /\ UNCHANGED <<vault, mine, seen, shot, archive, quar>>
      BY <2>14, NothingFields DEF CloseEnd, Moves, backupVars
    <3> QED BY <3>1, Typed, Constants
               DEF Guarded, HeldIsOwned, StaleIsFree, ArchiveIsFree, SnapshotToken,
                   FoldsCurrent,
                SnapshotsCurrent, BackedUp, NotTorn, Owns, Current, Held, Checked, Reading, Away
  <2>15. CASE CloseFails
    <3>1. \A q \in Procs : shot'[q] = shot[q] \/ (q = Closer /\ shot'[q] = NoShot)
      BY <2>15, Typed, Constants DEF CloseFails, EndsLock
    <3> QED BY <2>15, <3>1, GuardReleased, Constants DEF CloseFails, EndsLock
  <2>16. CASE SetHold
    BY <2>16, Constants, Typed, HoldChanged
       DEF SetHold, Past, Guarded, HeldIsOwned, StaleIsFree, ArchiveIsFree,
           SnapshotToken, FoldsCurrent, SnapshotsCurrent, BackedUp, NotTorn, Owns,
           Current, Held, Checked, Reading, Away, backupVars, closeVars
  <2> QED BY <1>3, <2>1, <2>2, <2>3, <2>4, <2>5, <2>6, <2>7, <2>8, <2>9, <2>10, <2>11,
     <2>12, <2>13, <2>14, <2>15, <2>16
     DEF CloseStep
<1>4. CASE CreateVault /\ UNCHANGED <<backupVars, closeVars>>
  <3>1. vault'.lock.stale = FALSE
    BY <1>4, MadeFields, AbsentFields, UnlockedFields DEF CreateVault
  <3> QED BY <1>4, <3>1, GuardNewVault DEF CreateVault, backupVars, closeVars
<1>5. CASE Expire /\ UNCHANGED <<backupVars, closeVars>>
  <3>1. ~\E p \in Procs : Owns(p)
    BY <1>5 DEF Expire
  <3>2. /\ vault'.ino = vault.ino /\ vault'.work = vault.work
        /\ vault'.lock.tok = vault.lock.tok
        /\ UNCHANGED <<at, mine, seen, shot, archive, intent, quar>>
    BY <1>5, StaleChanged, Typed DEF Expire, backupVars, closeVars
  <3> QED BY <3>1, <3>2
             DEF Guarded, HeldIsOwned, StaleIsFree, ArchiveIsFree, SnapshotToken,
                 FoldsCurrent,
              SnapshotsCurrent, BackedUp, NotTorn, Owns, Current, Held, Checked, Reading, Away
<1>6. ASSUME NEW p \in Procs, KeeperBeat(p), UNCHANGED <<backupVars, closeVars>>
      PROVE  Guarded'
  BY <1>6, Constants, Typed, RenewedFields
     DEF KeeperBeat, Guarded, HeldIsOwned, StaleIsFree, ArchiveIsFree, SnapshotToken,
         FoldsCurrent, SnapshotsCurrent, BackedUp, NotTorn, Owns, Current, Held,
         Checked, Reading, Away, backupVars, closeVars
<1>7. ASSUME NEW dead \in SUBSET Procs, Deaths(dead)
      PROVE  Guarded'
  <3>1. /\ \A q \in Procs : mine'[q] = IF q \in dead THEN 0 ELSE mine[q]
        /\ \A q \in Procs : at'[q] = IF q \in dead THEN "idle" ELSE at[q]
        /\ \A q \in Procs : seen'[q] = IF q \in dead THEN Nothing ELSE seen[q]
        /\ UNCHANGED <<vault, archive, intent, quar>>
    BY <1>7 DEF Deaths, Dies
  <3>2. \A q \in Procs : shot'[q] = IF at'[q] = "idle" THEN NoShot ELSE shot[q]
    BY <1>7 DEF Deaths
  <3>3. \A q \in Procs : at'[q] \in Held => q \notin dead /\ at'[q] # "idle"
    BY <3>1 DEF Held, Checked
  <3>4. HeldIsOwned' /\ StaleIsFree' /\ ArchiveIsFree'
    BY <3>1, <3>3, Constants DEF Guarded, HeldIsOwned, StaleIsFree, ArchiveIsFree, Owns, Away
  <3>5. SnapshotToken' /\ FoldsCurrent'
    BY <3>1, <3>2, <3>3
       DEF Guarded, SnapshotToken, FoldsCurrent, Held, Checked, Reading
  <3>6. SnapshotsCurrent'
    BY <3>1, <3>2, <3>3, Constants
       DEF Guarded, SnapshotsCurrent, Current, Held, Checked, Reading
  <3>7. BackedUp' /\ NotTorn'
    BY <3>1, <3>2, Constants, NothingFields DEF Guarded, BackedUp, NotTorn
  <3> QED BY <3>4, <3>5, <3>6, <3>7 DEF Guarded
<1> QED BY <1>1, <1>2, <1>3, <1>4, <1>5, <1>6, <1>7, DeathIsDeaths DEF Next

(***************************************************************************)
(* The invariant holds of every reachable state                            *)
(***************************************************************************)

LEMMA Initially == Init => Inv
<1> SUFFICES ASSUME Init PROVE Inv
  OBVIOUS
<1> USE DEF Init, StoreInit, BackupInit, CloseInit
<1>1. vault = [Absent EXCEPT !.ino = 1]
  OBVIOUS
<1>2. /\ vault \in Vault /\ vault.ino = 1 /\ vault.kind = "matter" /\ vault.work = 0
      /\ vault.lock = Unlocked
  BY <1>1, AbsentFields, Constants DEF Vault, Inodes
<1>3. TypeInv
  <2>1. /\ epoch \in [Boxes -> 0..MaxCrashes] /\ \A b \in Boxes : epoch[b] <= crashes
        /\ stalls \in 0..MaxStalls /\ crashes \in 0..MaxCrashes
    BY Constants
  <2>2. issued \in Tokens /\ made \in Inodes /\ gone \subseteq Tokens
    BY Constants DEF Tokens, Inodes
  <2>3. tombs \in Seq(Inodes)
    OBVIOUS
  <2>4. /\ mine \in [Procs -> Tokens] /\ seen \in [Procs -> Inodes \X (0..MaxWork)]
        /\ at \in [Procs -> Phase] /\ shot \in [Procs -> Shot]
    BY NothingFields DEF Phase
  <2>5. /\ vault \in Vault /\ quar \in Vault /\ archive \in Shot
        /\ creation \in Procs \cup {"free"} /\ lost \subseteq Procs /\ overwritten \subseteq Inodes
        /\ record \in Inodes /\ disturbed \in BOOLEAN /\ late \in BOOLEAN
    BY <1>2, NothingFields
  <2>6. intent \in [ino : Inodes, work : 0..MaxWork, backed : BOOLEAN, detached : BOOLEAN]
    BY NothingFields
  <2> HIDE DEF Init, StoreInit, BackupInit, CloseInit
  <2> QED BY <2>1, <2>2, <2>3, <2>4, <2>5, <2>6 DEF TypeInv, TypeOK
<1>4. TokenInv
  BY <1>2, NothingFields, AbsentFields, UnlockedFields DEF TokenInv
<1>5. CloseInv
  <2>1. Named = {} /\ at[Closer] = "idle" /\ at[Archivist] = "idle"
    BY Constants DEF Named
  <2>2. quar.ino = 0 /\ intent.ino = 0 /\ intent.detached = FALSE
    BY AbsentFields, NothingFields
  <2> QED BY <1>2, <2>1, <2>2
          DEF CloseInv, CreationInv, InodesMade, OnePlace, Stands, Accounted, Closing,
              Preparing, Checked, Away, Purged
<1>6. LockInv
  <2>1. \A p \in Procs : at[p] = "idle" /\ mine[p] = 0 /\ shot[p] = NoShot
    OBVIOUS
  <2>2. quar.ino = 0 /\ archive.torn = FALSE /\ vault.lock.stale = FALSE
    BY <1>2, AbsentFields, NothingFields, UnlockedFields
  <2> QED BY <2>1, <2>2, NothingFields, Constants
          DEF LockInv, Guarded, HeldIsOwned, StaleIsFree, ArchiveIsFree, SnapshotToken,
              FoldsCurrent, SnapshotsCurrent, BackedUp, NotTorn, Held, Checked, Reading
<1> QED BY <1>3, <1>4, <1>5, <1>6 DEF Inv

LEMMA Inductive == Inv /\ [Next]_vars => Inv'
<1> SUFFICES ASSUME Inv, [Next]_vars PROVE Inv'
  OBVIOUS
<1>1. CASE Next
  <2>1. TypeInv /\ TokenInv /\ CloseInv /\ LockInv
    BY DEF Inv
  <2>2. TypeInv' /\ TokenInv' /\ CloseInv'
    BY <1>1, <2>1, TypesKept, TokensKept, ClosingKept
  <2>3. LockInv'
    <3> SUFFICES ASSUME ~disturbed' PROVE Guarded'
      BY DEF LockInv
    <3>1. ~disturbed
      BY <1>1, DisturbedStays
    <3>2. Guarded
      BY <2>1, <3>1 DEF LockInv
    <3> QED BY <1>1, <2>1, <3>2, GuardKept
  <2> QED BY <2>2, <2>3 DEF Inv
<1>2. CASE UNCHANGED vars
  BY <1>2
     DEF vars, storeVars, backupVars, closeVars, Inv, TypeInv, TypeOK, TokenInv, CloseInv,
         CreationInv, InodesMade, OnePlace, Stands, Accounted, Named, Present, LockInv, Guarded,
         HeldIsOwned, StaleIsFree, ArchiveIsFree, SnapshotToken, FoldsCurrent,
         SnapshotsCurrent, BackedUp, NotTorn, Owns, Current
<1> QED BY <1>1, <1>2

LEMMA Invariance == Spec => []Inv
BY Initially, Inductive, PTL DEF Spec

(***************************************************************************)
(* The one step that can do it                                             *)
(***************************************************************************)

\* only the fence lets the result of a call pass
LEMMA FenceOnly ==
    ASSUME TypeInv, Next, NEW d \in Drivers, at[d] = "calling", at'[d] = "fenced"
    PROVE  Fence(d)
<1>0. d \in Procs /\ d # Archivist /\ d # Closer
  BY Constants
<1>1. CASE SessionStep
  <2>1. ASSUME NEW p \in Sessions,
               Resolve(p) \/ Enter(p) \/ TurnedAway(p) \/ Load(p) \/ AppendRecord(p) \/ Leave(p)
        PROVE  FALSE
    BY <2>1, <1>0, Typed, Constants
       DEF Resolve, Enter, Acquire, TurnedAway, Load, AppendRecord, Leave, Moves
  <2>2. ASSUME NEW e \in Drivers, BeginCall(e)  PROVE FALSE
    BY <2>2, <1>0, Typed, Constants DEF BeginCall, Moves
  <2>3. ASSUME NEW e \in Drivers, Fence(e)  PROVE e = d
    BY <2>3, <1>0, Typed, Constants DEF Fence, Moves
  <2> QED BY <1>1, <2>1, <2>2, <2>3 DEF SessionStep
<1>2. CASE BackupStep
  <2>1. at'[d] = at[d]
    BY <1>2, <1>0, Typed, Constants
       DEF BackupStep, BackupResolve, Resolve, BackupEnter, Enter, Acquire, BackupRefused,
           TurnedAway, BackupRead, StartReading, BackupReadOn, FinishReading, BackupDone,
           Restore, RestoreWipe, RestorePublish, RestoreBlocked, Moves
  <2> QED BY <2>1
<1>3. CASE CloseStep
  <2>1. at'[d] = at[d]
    BY <1>3, <1>0, Typed, Constants
       DEF CloseStep, CloseBegin, CloseLock, Acquire, CloseRetention, CloseRead, StartReading,
           CloseReadOn, FinishReading, CloseBackup, CloseUnbacked, Waived, CloseIntend,
           CloseMove, CloseMark, ClosePurge, CloseTomb, CloseRecord, CloseEnd, CloseFails,
           SetHold, Moves
  <2> QED BY <2>1
<1>4. CASE CreateVault \/ Expire \/ \E p \in Procs : KeeperBeat(p)
  BY <1>4 DEF CreateVault, Expire, KeeperBeat
<1>5. CASE (\E p \in Procs : Crash(p)) \/ (\E b \in Boxes : Redeploy(b))
  <2>1. at'[d] \in {"idle", at[d]}
    BY <1>5, <1>0 DEF Crash, Redeploy, Dies
  <2> QED BY <2>1
<1> QED BY <1>1, <1>2, <1>3, <1>4, <1>5 DEF Next

\* only the purge and the move change what is in quarantine
LEMMA QuarantineChanges ==
    ASSUME Next
    PROVE  quar' = quar \/ ClosePurge \/ CloseMove
<1>1. CASE CloseStep
  BY <1>1
     DEF CloseStep, CloseBegin, CloseLock, CloseRetention, CloseRead, CloseReadOn, CloseBackup,
         CloseUnbacked, Waived, CloseIntend, CloseMark, CloseTomb, CloseRecord, CloseEnd,
         CloseFails, SetHold, closeVars
<1>2. CASE UNCHANGED closeVars
  BY <1>2 DEF closeVars
<1> QED BY <1>1, <1>2 DEF Next, closeVars

LEMMA PurgeOnly ==
    ASSUME CloseInv, Next, quar.ino # 0, quar'.ino = 0
    PROVE  ClosePurge
<1>1. ~CloseMove
  BY DEF CloseMove, Moves, CloseInv, Stands, Preparing, Checked
<1> QED BY <1>1, QuarantineChanges

LEMMA MoveOnly ==
    ASSUME OnePlace, Next, vault.ino # 0, quar'.ino = vault.ino
    PROVE  CloseMove
<1>1. ~ClosePurge
  BY AbsentFields DEF ClosePurge
<1>2. quar' # quar
  BY DEF OnePlace
<1> QED BY <1>1, <1>2, QuarantineChanges

(***************************************************************************)
(* What follows for every vault                                            *)
(***************************************************************************)

\* Every variable of the vault, the locks, the copies and the close keeps its
\* type (RunLock._payload, CloseIntent, backup_matter).
THEOREM TypeCorrect == Spec => []TypeOK
<1>1. Inv => TypeOK
  BY DEF Inv, TypeInv
<1> QED BY <1>1, Invariance, PTL

\* An accepted archive is of one moment unless a live lock ran out or the vault
\* was replaced under a session (backup_matter).
THEOREM ArchivesAreWhole == Spec => []SnapshotsWhole
<1>1. Inv => SnapshotsWhole
  BY DEF Inv, LockInv, Guarded, NotTorn, SnapshotsWhole
<1> QED BY <1>1, Invariance, PTL

\* No vault disappears unaccounted for, whatever crashes between two steps of a
\* close or a restore (close_matter, restore_matter).
THEOREM NothingIsLost == Spec => []LossAccounted
<1>1. Named = ToSet(tombs)
  BY DEF Named, ToSet
<1>2. Inv => LossAccounted
  BY <1>1 DEF Inv, CloseInv, Accounted, LossAccounted
<1> QED BY <1>2, Invariance, PTL

\* The vault of the close record is gone and has exactly one tombstone
\* (_finish_close).
THEOREM RecordIsTrue == Spec => []RecordTruthful
<1>1. Inv => RecordTruthful
  <2> SUFFICES ASSUME Inv, record # 0 PROVE RecordTruthful
    BY DEF RecordTruthful
  <2>1. record \in Named
    BY DEF Inv, CloseInv, OnePlace
  <2>2. record # vault.ino /\ record # quar.ino
    BY <2>1 DEF Inv, CloseInv, OnePlace
  <2>3. PICK k \in DOMAIN tombs : tombs[k] = record
    BY <2>1 DEF Named
  <2>4. {i \in DOMAIN tombs : tombs[i] = record} = {k}
    BY <2>3 DEF Inv, CloseInv, OnePlace
  <2>5. Cardinality({k}) = 1
    BY FS_Singleton
  <2> QED BY <2>2, <2>4, <2>5 DEF RecordTruthful
<1> QED BY <1>1, Invariance, PTL

\* Undisturbed, a record is appended only to the journal its writer folded
\* (RunLock.acquire).
THEOREM AppendsAreSerial == Spec => SerialAppends
<1> DEFINE Serial(p) ==
      (at[p] \in {"ready", "fenced"} /\ at'[p] \in {"locked", "leaving"})
          => disturbed \/ seen[p] = <<vault.ino, vault.work>>
<1>1. Inv /\ [Next]_vars => [\A p \in Sessions : Serial(p)]_vars
  <2> SUFFICES ASSUME Inv, NEW p \in Sessions,
                      at[p] \in {"ready", "fenced"}, ~disturbed
               PROVE  seen[p] = <<vault.ino, vault.work>>
    OBVIOUS
  <2> QED BY Constants DEF Inv, LockInv, Guarded, FoldsCurrent
<1> QED BY <1>1, Invariance, PTL DEF Spec, SerialAppends

\* A paid result passes the fence only if no other process took the lock since,
\* or a restore brought the lock file back (_run_turn_with_lock_renewal).
THEOREM FenceHolds == Spec => CallFenced
<1>1. Inv /\ [Next]_vars
        => [\A d \in Drivers : at[d] = "calling" /\ at'[d] = "fenced"
                => issued = mine[d] \/ vault.kind = "restored"]_vars
  <2> SUFFICES ASSUME Inv, Next, NEW d \in Drivers, at[d] = "calling", at'[d] = "fenced"
               PROVE  issued = mine[d] \/ vault.kind = "restored"
    OBVIOUS
  <2>1. Fence(d)
    BY FenceOnly DEF Inv
  <2> QED BY <2>1 DEF Fence, Owns, Inv, TokenInv
<1> QED BY <1>1, Invariance, PTL DEF Spec, CallFenced

\* What is purged is what the intent names, with all its records in the backup
\* the intent tells of (_close_matter_locked).
THEOREM DestroyedWasBackedUp == Spec => DestroyedIsBackedUp
<1>1. Inv /\ [Next]_vars
        => [quar.ino # 0 /\ quar'.ino = 0
              => /\ intent.ino = quar.ino /\ intent.detached
                 /\ intent.backed => intent.work = quar.work \/ disturbed]_vars
  <2> SUFFICES ASSUME Inv, Next, quar.ino # 0, quar'.ino = 0
               PROVE  /\ intent.ino = quar.ino /\ intent.detached
                      /\ intent.backed => intent.work = quar.work \/ disturbed
    OBVIOUS
  <2>1. ClosePurge
    BY PurgeOnly DEF Inv, CloseInv
  <2>2. at[Closer] = "marked"
    BY <2>1 DEF ClosePurge, Moves
  <2> QED BY <2>2 DEF Inv, CloseInv, OnePlace, Stands, LockInv, Guarded, BackedUp
<1> QED BY <1>1, Invariance, PTL DEF Spec, DestroyedIsBackedUp

\* A vault under litigation hold is not moved, unless the hold came after that
\* attempt had read the retention (_enforce_retention_policy).
THEOREM HoldIsHonoured == Spec => HoldHonoured
<1>1. Inv /\ [Next]_vars
        => [vault.ino # 0 /\ quar'.ino = vault.ino => ~vault.hold \/ late]_vars
  <2> SUFFICES ASSUME Inv, Next, vault.ino # 0, quar'.ino = vault.ino
               PROVE  ~vault.hold \/ late
    OBVIOUS
  <2>1. CloseMove
    BY MoveOnly DEF Inv, CloseInv, OnePlace
  <2>2. at[Closer] = "closeIntended"
    BY <2>1 DEF CloseMove, Moves
  <2> QED BY <2>2 DEF Inv, CloseInv, Stands, Checked
<1> QED BY <1>1, Invariance, PTL DEF Spec, HoldHonoured
=============================================================================
