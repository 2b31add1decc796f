----------------------------- MODULE LearningReviews -----------------------------
(***************************************************************************)
(* What an attorney's edits of a served document teach: an import records  *)
(* the edited file and the proposals it holds, people review each, and an  *)
(* accepted text enters the context of later runs of the matter, or, when  *)
(* promoted, of every matter of the firm.  Reviews look before they take   *)
(* the run's lock and again under it.                                      *)
(***************************************************************************)
EXTENDS Naturals, Sequences

CONSTANTS
  Lessons,     \* proposals
  Wordings,    \* texts a reviewer may settle on
  People,      \* reviewers
  MaxLearning  \* bound: imports and reviews in a behaviour

NoWording == "nothing"
NoReview  == [action |-> "none"]
ASSUME WordingsAssumption == NoWording \notin Wordings /\ MaxLearning \in Nat

VARIABLES
  imported,   \* per proposal: "none", "source" (the edited file) or "bundle"
  reviewLog,  \* learnings/reviews.jsonl
  lessons,    \* context/contributions/learning:<id>.json: the text, or NoWording
  firm,       \* the firm profile: the promotion of a proposal, or NoReview
  reviewing,  \* per person: the review under way
  learnOps

learnVars == <<imported, reviewLog, lessons, firm, reviewing, learnOps>>

Resting == [at |-> "idle"]

\* A review is itself by everything it says, the time included.  A promotion may
\* keep the text from a matter by an ethical wall.
Reviews == [lesson: Lessons, action: {"accept", "reject", "promote"},
            text: Wordings \cup {NoWording}, walled: BOOLEAN, by: People,
            time: 1 .. MaxLearning]

SameButTime(a, b) == [a EXCEPT !.time = 0] = [b EXCEPT !.time = 0]

Final(p)   == {i \in DOMAIN reviewLog : reviewLog[i].lesson = p /\ reviewLog[i].action # "promote"}
\* The first final review, which a retry takes for its own.
Original(p) == reviewLog[CHOOSE i \in Final(p) : \A j \in Final(p) : i <= j]
\* The last one, which the fold of the log shows.
Latest(p)  == reviewLog[CHOOSE i \in Final(p) : \A j \in Final(p) : j <= i]
Outcome(p)  == IF Final(p) = {} THEN "needs_review" ELSE Latest(p).action

Logged(r) == \E i \in DOMAIN reviewLog : reviewLog[i] = r

RunLockFree == \A q \in People : reviewing[q].at \in {"idle", "asked"}

LearnSpend == learnOps < MaxLearning /\ learnOps' = learnOps + 1

Goes(q, at) == reviewing' = [reviewing EXCEPT ![q].at = at]
Leaves(q)   == reviewing' = [reviewing EXCEPT ![q] = Resting]

-----------------------------------------------------------------------------
LearnInit ==
  /\ imported = [p \in Lessons |-> "none"]
  /\ reviewLog = <<>>
  /\ lessons = [p \in Lessons |-> NoWording]
  /\ firm = [p \in Lessons |-> NoReview]
  /\ reviewing = [q \in People |-> Resting]
  /\ learnOps = 0

\* An import leaves the edited file first; again, it finds what is there.
ImportSource(p) ==
  /\ imported[p] = "none" /\ RunLockFree
  /\ LearnSpend
  /\ imported' = [imported EXCEPT ![p] = "source"]
  /\ UNCHANGED <<reviewLog, lessons, firm, reviewing>>

ImportBundle(p) ==
  /\ imported[p] = "source" /\ RunLockFree
  /\ imported' = [imported EXCEPT ![p] = "bundle"]
  /\ UNCHANGED <<reviewLog, lessons, firm, reviewing, learnOps>>

\* Only an accepted proposal is promoted; the scrub of its text happens here too.
AskReview(q, p, action, t, walled) ==
  /\ reviewing[q] = Resting /\ imported[p] = "bundle"
  /\ action = "promote" => Outcome(p) = "accept"
  /\ (action = "reject") <=> (t = NoWording)
  /\ walled => action = "promote"
  /\ LearnSpend
  /\ reviewing' = [reviewing EXCEPT ![q] =
       [at |-> "asked", review |-> [lesson |-> p, action |-> action, text |-> t,
                                    walled |-> walled, by |-> q, time |-> learnOps']]]
  /\ UNCHANGED <<imported, reviewLog, lessons, firm>>

\* What the second look, under the lock, makes of a review.

SettledAs(r) ==
  IF r.action # "promote" /\ Final(r.lesson) # {} /\ SameButTime(Original(r.lesson), r)
  THEN Original(r.lesson)
  ELSE r

\* Mutant: only the status a person saw decides.
MayEnterAnyway(r) == TRUE

MayEnter(r) ==
  IF r.action = "promote" THEN Outcome(r.lesson) = "accept"
  ELSE Final(r.lesson) # {} => SameButTime(Original(r.lesson), r)

EnterReview(q) ==
  /\ reviewing[q].at = "asked" /\ RunLockFree
  /\ MayEnter(reviewing[q].review)
  /\ reviewing' = [reviewing EXCEPT ![q] =
       [at |-> IF @.review.action = "promote" THEN "publish" ELSE "log",
        review |-> SettledAs(@.review)]]
  /\ UNCHANGED <<imported, reviewLog, lessons, firm, learnOps>>

\* The firm's copy is written once and holds the review that made it, its time
\* included: another review of the same proposal does not replace it.
PublishFirm(q) ==
  LET r == reviewing[q].review IN
  /\ reviewing[q].at = "publish"
  /\ firm[r.lesson] \in {NoReview, r}
  /\ firm' = [firm EXCEPT ![r.lesson] = r]
  /\ Goes(q, "log")
  /\ UNCHANGED <<imported, reviewLog, lessons, learnOps>>

LogReview(q) ==
  LET r == reviewing[q].review IN
  /\ reviewing[q].at = "log"
  /\ reviewLog' = IF Logged(r) THEN reviewLog ELSE Append(reviewLog, r)
  /\ IF r.action = "accept" THEN Goes(q, "contribute") ELSE Leaves(q)
  /\ UNCHANGED <<imported, lessons, firm, learnOps>>

Contribute(q) ==
  LET r == reviewing[q].review IN
  /\ reviewing[q].at = "contribute"
  /\ lessons[r.lesson] \in {NoWording, r.text}
  /\ lessons' = [lessons EXCEPT ![r.lesson] = r.text]
  /\ Leaves(q)
  /\ UNCHANGED <<imported, reviewLog, firm, learnOps>>

\* A refusal, a conflict with what is written, or a crash.
ReviewEnds(q) ==
  /\ reviewing[q] # Resting
  /\ Leaves(q)
  /\ UNCHANGED <<imported, reviewLog, lessons, firm, learnOps>>

LearnNext ==
  \/ \E p \in Lessons : ImportSource(p) \/ ImportBundle(p)
  \/ \E q \in People, p \in Lessons, action \in {"accept", "reject", "promote"},
        t \in Wordings \cup {NoWording}, walled \in BOOLEAN : AskReview(q, p, action, t, walled)
  \/ \E q \in People : \/ EnterReview(q) \/ PublishFirm(q) \/ LogReview(q) \/ Contribute(q)
                       \/ ReviewEnds(q)

-----------------------------------------------------------------------------
LearnTypeOK ==
  /\ imported \in [Lessons -> {"none", "source", "bundle"}]
  /\ reviewLog \in Seq(Reviews)
  /\ lessons \in [Lessons -> Wordings \cup {NoWording}]
  /\ firm \in [Lessons -> Reviews \cup {NoReview}]
  /\ reviewing \in
       [People -> {Resting} \cup [at: {"asked", "publish", "log", "contribute"}, review: Reviews]]
  /\ learnOps \in 0 .. MaxLearning

\* The text later runs are given for a proposal is the one the record of reviews
\* shows as accepted, and no one is on record as having rejected it: however two
\* people's reviews cross, die and are tried again (review_learning_proposal).
ContextIsReviewed ==
  \A p \in Lessons :
    lessons[p] # NoWording => Outcome(p) = "accept" /\ Latest(p).text = lessons[p]

\* Every matter of the firm is given a text only after its proposal was accepted
\* in the matter it comes from (the second look of a promotion).
FirmIsAccepted == \A p \in Lessons : firm[p] # NoReview => Outcome(p) = "accept"
=============================================================================
