----------------------------- MODULE VaultStore -----------------------------
(***************************************************************************)
(* The directory of one matter and what guards it: the run lock, a file    *)
(* runs/.lock INSIDE the vault (RunLock), and the creation lock, a         *)
(* permanent sibling file (vault_creation_lock).  A vault is known by its  *)
(* inode: a directory made anew under the same path is another vault.      *)
(*                                                                         *)
(* Processes name the vault by its path.  Whatever they do reaches the     *)
(* directory that is there at that moment, and mkdir(parents=True) makes   *)
(* one when there is none: such a stub has no matter.yaml.  A restored      *)
(* directory comes with the run lock that was archived.                    *)
(***************************************************************************)
EXTENDS Naturals, FiniteSets

CONSTANTS
    Procs,          \* processes that open the vault
    Boxes,          \* containers: processes of one share a hostname
    Box,            \* the container of a process
    MaxTokens,      \* bound: run-lock acquisitions
    MaxVaults,      \* bound: directories made under the path
    MaxWork,        \* bound: records appended to the journals of one vault
    MaxStalls,      \* bound: live locks whose heartbeat runs out
    MaxCrashes      \* bound: processes killed, containers made anew

ASSUME FreeIsNobody == "free" \notin Procs
ASSUME ProcsInBoxes == Box \in [Procs -> Boxes]
ASSUME BoundsAreNumbers ==
    /\ {MaxTokens, MaxWork, MaxStalls, MaxCrashes} \subseteq Nat
    /\ MaxVaults \in Nat \ {0}

VARIABLES
    vault,          \* what the matter's path holds
    creation,       \* who holds the creation lock
    epoch,          \* how often a container was made anew (its hostname)
    at,             \* where each process stands
    mine,           \* the token of the lock a process believes it holds, or 0
    lost,           \* keeper threads that saw the lock with another owner
    seen,           \* the vault and the journal length a process last folded
    issued,         \* tokens handed out
    made,           \* directories made
    gone,           \* tokens whose process is dead
    stalls, crashes,
    disturbed       \* a live lock ran out, or a vault was replaced under a session

storeVars == <<vault, creation, epoch, at, mine, lost, seen, issued,
               made, gone, stalls, crashes, disturbed>>

Unlocked == [tok |-> 0, box |-> CHOOSE b \in Boxes : TRUE, epoch |-> 0, stale |-> FALSE]
Absent == [ino |-> 0, kind |-> "matter", work |-> 0, hold |-> FALSE, lock |-> Unlocked]

Nothing == <<0, 0>>        \* no fold yet

Present == vault.ino # 0
IsMatter == Present /\ vault.kind # "stub"      \* registry.resolve: matter.yaml agrees

Stub(work, lock) == [Absent EXCEPT !.ino = made + 1, !.kind = "stub", !.work = work, !.lock = lock]

(***************************************************************************)
(* The run lock                                                            *)
(***************************************************************************)

Live == {p \in Procs : mine[p] # 0}

\* without comparing the token, any process with a lock in memory is the owner
OwnsUnchecked(p) == mine[p] # 0

\* the token check of heartbeat and release
Owns(p) == mine[p] # 0 /\ vault.lock.tok = mine[p]

\* a lock of this host is taken over from a live process
CanTakeAny(p, lock) == lock.tok = 0 \/ (lock.box = Box[p] /\ lock.epoch = epoch[Box[p]])

\* _check_takeover: only on this host, from a dead pid or an expired heartbeat.
\* No caller passes override=True.
CanTake(p, lock) ==
    \/ lock.tok = 0
    \/ /\ lock.box = Box[p] /\ lock.epoch = epoch[Box[p]]
       /\ lock.tok \in gone \/ lock.stale

LockOf(p, tok) == [tok |-> tok, box |-> Box[p], epoch |-> epoch[Box[p]], stale |-> FALSE]

Renewed == [vault EXCEPT !.lock.stale = FALSE]
Freed(p) == IF Owns(p) THEN [vault EXCEPT !.lock = Unlocked] ELSE vault

\* acquire: exclusive create or takeover, under the flock of runs/
Acquire(p, phase) ==
    /\ issued < MaxTokens
    /\ CanTake(p, vault.lock)
    /\ Present \/ made < MaxVaults
    /\ issued' = issued + 1
    /\ mine' = [mine EXCEPT ![p] = issued + 1]
    /\ at' = [at EXCEPT ![p] = phase]
    /\ IF Present
       THEN vault' = [vault EXCEPT !.lock = LockOf(p, issued + 1)] /\ made' = made
       ELSE vault' = Stub(0, LockOf(p, issued + 1)) /\ made' = made + 1

\* the heartbeat runs out: a suspended machine, a disk that refuses the write
Expire ==
    /\ vault.lock.tok \notin gone \cup {0} /\ ~vault.lock.stale
    /\ vault' = [vault EXCEPT !.lock.stale = TRUE]
    /\ IF \E p \in Procs : Owns(p)
       THEN stalls < MaxStalls /\ stalls' = stalls + 1 /\ disturbed' = TRUE
       ELSE UNCHANGED <<stalls, disturbed>>
    /\ UNCHANGED <<creation, epoch, at, mine, lost, seen, issued, made, gone, crashes>>

\* a keeper thread renews the lock during a provider call or a snapshot
KeeperBeat(p) ==
    /\ at[p] \in {"calling", "reading", "read", "closeReading", "closeRead"}
    /\ IF Owns(p) THEN vault.lock.stale /\ vault' = Renewed /\ lost' = lost
                  ELSE p \notin lost /\ lost' = lost \cup {p} /\ vault' = vault
    /\ UNCHANGED <<creation, epoch, at, mine, seen, issued, made, gone,
                   stalls, crashes, disturbed>>

(***************************************************************************)
(* Processes die, containers are made anew                                 *)
(***************************************************************************)

\* the process and its flocks go, the lock file stays
Dies(dead) ==
    /\ gone' = gone \cup {mine[p] : p \in dead \cap Live}
    /\ mine' = [p \in Procs |-> IF p \in dead THEN 0 ELSE mine[p]]
    /\ at'   = [p \in Procs |-> IF p \in dead THEN "idle" ELSE at[p]]
    /\ creation' = IF creation \in dead THEN "free" ELSE creation
    /\ lost' = lost \ dead
    /\ seen' = [p \in Procs |-> IF p \in dead THEN Nothing ELSE seen[p]]
    /\ UNCHANGED <<vault, issued, made, stalls, disturbed>>

Crash(p) ==
    /\ crashes < MaxCrashes /\ at[p] # "idle"
    /\ crashes' = crashes + 1
    /\ Dies({p})
    /\ UNCHANGED epoch

Redeploy(b) ==
    /\ crashes < MaxCrashes
    /\ crashes' = crashes + 1
    /\ epoch' = [epoch EXCEPT ![b] = @ + 1]
    /\ Dies({p \in Procs : Box[p] = b})

(***************************************************************************)
(* A vault is made, its owner sets and lifts the litigation hold           *)
(***************************************************************************)

\* create_vault: staged beside the path, then os.replace
CreateVault ==
    /\ creation = "free" /\ ~Present /\ made < MaxVaults
    /\ vault' = [Absent EXCEPT !.ino = made + 1]
    /\ made' = made + 1
    /\ UNCHANGED <<creation, epoch, at, mine, lost, seen, issued, gone, stalls, crashes, disturbed>>

StoreInit ==
    /\ vault = [Absent EXCEPT !.ino = 1]
    /\ creation = "free"
    /\ epoch = [b \in Boxes |-> 0]
    /\ at = [p \in Procs |-> "idle"] /\ mine = [p \in Procs |-> 0] /\ lost = {}
    /\ seen = [p \in Procs |-> Nothing]
    /\ issued = 0 /\ made = 1 /\ gone = {}
    /\ stalls = 0 /\ crashes = 0 /\ disturbed = FALSE
=============================================================================
