----------------------------- MODULE ContextMemory -----------------------------
(***************************************************************************)
(* The standing note of a matter: context.md, and beside it the record of  *)
(* who approved which text.  The two are written one after the other, by   *)
(* commands that take no lock, and the note may be edited by hand.         *)
(***************************************************************************)
EXTENDS Naturals

CONSTANTS
  Notes,     \* texts
  Setters,   \* commands that set the note
  MaxNotes   \* bound: settings and edits in a behaviour

NoNote == "no note"
ASSUME NotesAssumption == NoNote \notin Notes /\ MaxNotes \in Nat

VARIABLES
  markdown,  \* context.md
  sidecar,   \* context.json: the text it approves
  setting,   \* per command: the text it still has to approve, or NoNote
  approved,  \* history: every text a person approved
  noteOps

memoryVars == <<markdown, sidecar, setting, approved, noteOps>>

NoteSpend == noteOps < MaxNotes /\ noteOps' = noteOps + 1

MemoryInit ==
  /\ markdown = NoNote /\ sidecar = NoNote
  /\ setting = [c \in Setters |-> NoNote]
  /\ approved = {}
  /\ noteOps = 0

\* A person approves a text: the note first, its approval last.
WriteNote(c, n) ==
  /\ setting[c] = NoNote
  /\ NoteSpend
  /\ markdown' = n
  /\ setting' = [setting EXCEPT ![c] = n]
  /\ approved' = approved \cup {n}
  /\ UNCHANGED sidecar

ApproveNote(c) ==
  /\ setting[c] # NoNote
  /\ sidecar' = setting[c]
  /\ setting' = [setting EXCEPT ![c] = NoNote]
  /\ UNCHANGED <<markdown, approved, noteOps>>

SetterDies(c) ==
  /\ setting[c] # NoNote
  /\ setting' = [setting EXCEPT ![c] = NoNote]
  /\ UNCHANGED <<markdown, sidecar, approved, noteOps>>

EditNote(n) ==
  /\ n # markdown
  /\ NoteSpend
  /\ markdown' = n
  /\ UNCHANGED <<sidecar, setting, approved>>

MemoryNext ==
  \/ \E c \in Setters : \/ ApproveNote(c) \/ SetterDies(c)
                        \/ \E n \in Notes : WriteNote(c, n)
  \/ \E n \in Notes : EditNote(n)

\* What a launch makes of a note it read and of the approval as it is by then.
\* Mutant: an approval of some text is taken for one of this text.
NoteStandsLoose(n) == sidecar # NoNote

NoteStands(n) == n = sidecar

MemoryTypeOK ==
  /\ markdown \in Notes \cup {NoNote} /\ sidecar \in Notes \cup {NoNote}
  /\ setting \in [Setters -> Notes \cup {NoNote}]
  /\ approved \subseteq Notes
  /\ noteOps \in 0 .. MaxNotes
=============================================================================
