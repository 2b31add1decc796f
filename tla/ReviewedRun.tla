---------------------------- MODULE ReviewedRun -----------------------------
(***************************************************************************)
(* A run as far as its review and its export read it: the operative        *)
(* drafts, the attorney's decisions, the verdict of the turn gates and the *)
(* journal, all written under the run lock, and matter.yaml, which anybody *)
(* may edit.  How a run gets there is RunEngine's subject.                 *)
(***************************************************************************)
EXTENDS Naturals

CONSTANTS
    Authorities,    \* what a draft may cite
    Cites,          \* the authorities cited by each version of the drafts
    MaxDrafts,      \* bound: versions of the operative drafts
    MaxBlockers     \* bound: things that block a clean export for good

ASSUME DraftsCite ==
    /\ {MaxDrafts, MaxBlockers} \subseteq Nat
    /\ Cites \in [0..MaxDrafts -> SUBSET Authorities]

VARIABLES
    drafts,         \* version of the operative drafts, 0 before the first
    complete,       \* every turn is completed: drafts are final
    turnGates,      \* fabrication and rubric, on the operative drafts
    decision,       \* the attorney gate, or none: see Decisions
    journalGrew,    \* an event was appended since the latest attestation
    edited,         \* matter.yaml no longer is what the launch recorded
    locked          \* an export holds the run lock

runVars == <<drafts, complete, turnGates, decision, journalGrew, edited, locked>>

Verdicts == {"pending", "pass", "fail"}

\* "unfit": the choice is not what the drafts say, and needs a new run
Decisions == {"none", "open", "fits", "unfit"}

One(b) == IF b THEN 1 ELSE 0

MayBlock == One(edited) + One(turnGates = "fail") + One(decision = "unfit") < MaxBlockers

\* record_turn: a draft becomes operative, and may raise the attorney's gate
CompleteDraft ==
    /\ ~locked /\ ~complete /\ drafts < MaxDrafts
    /\ drafts' = drafts + 1
    /\ journalGrew' = TRUE
    /\ decision' \in {decision} \cup (IF decision = "none" THEN {"open"} ELSE {})
    /\ UNCHANGED <<complete, turnGates, edited, locked>>

\* the last rubric seat: the panel's verdict, and no draft changes any more
CompletePanel ==
    /\ ~locked /\ ~complete /\ drafts > 0
    /\ complete' = TRUE
    /\ turnGates' \in {"pass"} \cup (IF MayBlock THEN {"fail"} ELSE {})
    /\ journalGrew' = TRUE
    /\ UNCHANGED <<drafts, decision, edited, locked>>

\* decisions never regress
Resolve ==
    /\ ~locked /\ decision = "open"
    /\ decision' \in {"fits"} \cup (IF MayBlock THEN {"unfit"} ELSE {})
    /\ journalGrew' = TRUE
    /\ UNCHANGED <<drafts, complete, turnGates, edited, locked>>

\* an edit is not taken back
EditMatter ==
    /\ ~edited /\ MayBlock /\ edited' = TRUE
    /\ UNCHANGED <<drafts, complete, turnGates, decision, journalGrew, locked>>

RunInit ==
    /\ drafts = 0 /\ complete = FALSE /\ turnGates = "pending"
    /\ decision = "none" /\ journalGrew = FALSE /\ edited = FALSE /\ locked = FALSE

RunStep == CompleteDraft \/ CompletePanel \/ Resolve \/ EditMatter
=============================================================================
