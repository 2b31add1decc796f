----------------------------- MODULE ContextAssembly -----------------------------
(***************************************************************************)
(* What the personas of a run are shown of the context captured for it:    *)
(* the contributions that may enter this matter and this task, the items   *)
(* made of everything captured, and the items a persona is given when a    *)
(* turn of its is planned.  Of a document's text the passages with the     *)
(* best score are taken; here a document is one passage.                   *)
(***************************************************************************)
EXTENDS FactRepository, TaskApprovals, ContextMemory, LearningReviews, JudgeProfiles

CONSTANTS
  LessonTask,   \* per lesson: the task of the run it was learned from
  Exhibits,     \* what the document of a task quotes as evidence
  Public,       \* the exhibits that are on the public record
  MaxItems      \* the limit of items in a context

Tasks == {"discovery", "document"}

ASSUME LessonTaskAssumption == LessonTask \in [Lessons -> Tasks]
ASSUME ExhibitsAssumption   == Public \subseteq Exhibits
ASSUME MaxItemsAssumption   == MaxItems \in Nat

Internal == {"associate", "partner"}
Briefed  == Internal \cup {"oc_associate", "oc_partner", "judge", "rubric_judge"}
Personas == Briefed \cup {"juror", "cite_checker"}
Everyone == {}   \* an item that names no persona

\* What the firm profile offers to a launch for a lesson.
NoOffer == [text |-> NoWording, walled |-> FALSE]
Offer(p) == IF firm[p] = NoReview THEN NoOffer
            ELSE [text |-> firm[p].text, walled |-> firm[p].walled]

\* The lessons of this matter, and those of the firm that no ethical wall keeps from
\* it; of both, only those of the task.
LessonsFor(context) ==
  {p \in Lessons : context.lessons[p] # NoWording /\ LessonTask[p] = context.task}

OffersFor(context) ==
  {p \in Lessons : /\ context.firm[p].text # NoWording /\ LessonTask[p] = context.task
                   /\ ~context.firm[p].walled}

Item(kind, of, body, personas) ==
  [kind |-> kind, of |-> of, text |-> body, personas |-> personas]

FactItems(context) == {Item("fact", f, f, Everyone) : f \in VisibleFacts(context.facts)}

VisibleDocs(corpus) == {d \in Docs : RunVisible(corpus[d])}

CorpusItems(context) ==
  {Item("passage", d, context.texts[d], Everyone) : d \in VisibleDocs(context.corpus)}

ContributionItems(context) ==
  {Item("lesson", p, context.lessons[p], Everyone) : p \in LessonsFor(context)}
    \cup {Item("offer", p, context.firm[p].text, Everyone) : p \in OffersFor(context)}
    \cup {Item("note", n, n, Everyone) : n \in {context.note} \ {NoNote}}
    \cup {Item("profile", q, q, {"judge"}) : q \in {context.profile} \ {NoProfile}}

DocumentItems(context) ==
  {Item("brief", context.document, context.document, Briefed)}
    \cup {Item("exhibit", x, context.document, IF x \in Public THEN Briefed ELSE Everyone) :
            x \in Exhibits}

\* A task about a document is given nothing else.
Assembled(context) ==
  IF context.task = "document"
  THEN DocumentItems(context)
  ELSE FactItems(context) \cup CorpusItems(context) \cup ContributionItems(context)

WithinLimit(context) == Cardinality(Assembled(context)) <= MaxItems

\* Mutant: what names no persona is for every persona.
ShownToAll(context, persona) ==
  {item \in Assembled(context) : item.personas = Everyone \/ persona \in item.personas}

\* Only our side is shown what names no persona.
Shown(context, persona) ==
  {item \in Assembled(context) :
     \/ persona \in item.personas
     \/ item.personas = Everyone /\ persona \in Internal}
=============================================================================
