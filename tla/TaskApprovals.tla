----------------------------- MODULE TaskApprovals -----------------------------
(***************************************************************************)
(* A task specification and the locks a person puts on it.  A lock is on   *)
(* the bytes of four files that anyone may edit: the adapter of the task,  *)
(* its rubric, the rubric's digest file and the document the task is       *)
(* about.  Locks are appended; nothing takes one back.                     *)
(***************************************************************************)
EXTENDS Naturals, Sequences

CONSTANTS
  Editions,     \* the contents a file may have; the same mark for the three that go together
  Reviewers,    \* the people who lock
  MaxApprovals  \* bound: edits of the files, specifications and locks in a behaviour

NoSpec     == "no spec"
NoDocument == "no document"

ASSUME EditionsAssumption == NoSpec \notin Editions /\ NoDocument \notin Editions
ASSUME MaxApprovalsAssumption == MaxApprovals \in Nat

VARIABLES
  source,     \* the four files as they are
  spec,       \* tasks/specs.jsonl: the document its record names, or NoDocument, or NoSpec
  locks,      \* tasks/locks.jsonl
  locksTorn,  \* its last line was cut by a crash
  approval,   \* the locking that holds tasks/.locks.write.lock, or Unheld
  approvals

taskVars == <<source, spec, locks, locksTorn, approval, approvals>>

Unheld   == [at |-> "idle"]
Files    == {"adapter", "rubric", "sidecar", "document"}
Material == {"adapter", "rubric", "sidecar"}

\* A locked rubric loads only with the digest that was recorded for it.
Binding(s) == s.rubric = s.sidecar

MaterialOf(s) == [f \in Material |-> s[f]]

\* The documents a specification names have the digests it was made with.
DocumentsStand == spec \in {NoDocument, source.document}

ApprovalSpend == approvals < MaxApprovals /\ approvals' = approvals + 1

-----------------------------------------------------------------------------
TaskInit ==
  /\ \E e \in Editions : source = [f \in Files |-> e]
  /\ spec = NoSpec
  /\ locks = <<>>
  /\ locksTorn = FALSE
  /\ approval = Unheld
  /\ approvals = 0

EditSource(f, e) ==
  /\ source[f] # e
  /\ ApprovalSpend
  /\ source' = [source EXCEPT ![f] = e]
  /\ UNCHANGED <<spec, locks, locksTorn, approval>>

\* From free text, or appended with the digest of a document.
CreateSpec(document) ==
  /\ spec = NoSpec
  /\ ApprovalSpend
  /\ spec' = IF document THEN source.document ELSE NoDocument
  /\ UNCHANGED <<source, locks, locksTorn, approval>>

\* Locking reads the material, reads it again, and only then looks at the locks.
BeginLock(r) ==
  /\ approval = Unheld /\ spec # NoSpec
  /\ Binding(source)
  /\ ApprovalSpend
  /\ approval' = [at |-> "read", by |-> r, seen |-> MaterialOf(source)]
  /\ UNCHANGED <<source, spec, locks, locksTorn>>

ConfirmLock ==
  /\ approval.at = "read"
  /\ MaterialOf(source) = approval.seen
  /\ DocumentsStand
  /\ approval' = [approval EXCEPT !.at = "confirmed"]
  /\ UNCHANGED <<source, spec, locks, locksTorn, approvals>>

LockOf(a) == [by |-> a.by, seen |-> a.seen, spec |-> spec]

LatestIs(record) == locks # <<>> /\ locks[Len(locks)] = record

\* The same approval by the same person is on record once.
RecordLock ==
  /\ approval.at = "confirmed" /\ ~locksTorn
  /\ locks' = IF LatestIs(LockOf(approval)) THEN locks ELSE Append(locks, LockOf(approval))
  /\ approval' = Unheld
  /\ UNCHANGED <<source, spec, locksTorn, approvals>>

\* An error leaves as it came; a crash may leave half a line, and the store is
\* unreadable from then on.
LockingEnds ==
  /\ approval # Unheld
  /\ locksTorn' \in {locksTorn, locksTorn \/ approval.at = "confirmed"}
  /\ approval' = Unheld
  /\ UNCHANGED <<source, spec, locks, approvals>>

TaskNext ==
  \/ \E f \in Files, e \in Editions : EditSource(f, e)
  \/ \E document \in BOOLEAN : CreateSpec(document)
  \/ \E r \in Reviewers : BeginLock(r)
  \/ ConfirmLock \/ RecordLock \/ LockingEnds

-----------------------------------------------------------------------------
\* What a launch asks of the material and the documents it captured.
\* Mutant: the files as they are now are compared, not the ones captured.
CurrentLockLoose(captured) ==
  /\ ~locksTorn /\ locks # <<>>
  /\ DocumentsStand
  /\ locks[Len(locks)].seen = MaterialOf(source)

CurrentLock(captured) ==
  /\ ~locksTorn /\ locks # <<>>
  /\ DocumentsStand
  /\ locks[Len(locks)].seen = captured

TaskTypeOK ==
  /\ source \in [Files -> Editions]
  /\ spec \in Editions \cup {NoSpec, NoDocument}
  /\ locks \in Seq([by: Reviewers, seen: [Material -> Editions], spec: Editions \cup {NoDocument}])
  /\ locksTorn \in BOOLEAN
  /\ approval \in {Unheld} \cup [at: {"read", "confirmed"}, by: Reviewers, seen: [Material -> Editions]]
  /\ approvals \in 0 .. MaxApprovals
=============================================================================
