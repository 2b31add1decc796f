----------------------------- MODULE FactRepository -----------------------------
(***************************************************************************)
(* The facts of a matter, an append-only log: the last line of a fact is   *)
(* the fact, and a successor that was accepted closes its predecessor even *)
(* if the line that says so never landed.  Proposals and reviews take the  *)
(* review lock; a fact that a person adds by hand does not.                *)
(***************************************************************************)
EXTENDS CorpusIntake, Sequences

CONSTANTS
  Facts,     \* the ids: a statement, its version and its quotes
  Version,   \* the version a fact's id was made from
  Quotes,    \* the document and the text a fact quotes
  NoFact,
  MaxFacts   \* bound: operations on the log in a behaviour

ASSUME VersionAssumption == Version \in [Facts -> Nat \ {0}]
ASSUME QuotesAssumption  == Quotes \in [Facts -> [doc: Docs, text: AnyText]]
ASSUME NoFactAssumption  == NoFact \notin Facts
ASSUME MaxFactsAssumption == MaxFacts \in Nat

VARIABLES
  factLog,     \* facts/facts.jsonl
  factReview,  \* the review that holds facts/.review.lock, or FactIdle
  factOps

factVars == <<factLog, factReview, factOps>>

FactIdle == [at |-> "idle"]
Lines    == [fact: Facts, status: {"pending", "accepted", "rejected"},
             supersedes: Facts \cup {NoFact}, by: Facts \cup {NoFact}]
NoLine   == [fact |-> NoFact]

Written(log, f) == {i \in DOMAIN log : log[i].fact = f}
LastLine(log, f) == log[CHOOSE i \in Written(log, f) : \A j \in Written(log, f) : j <= i]

\* The lines that accept a revision of f, in the order they landed.
Successions(log, f) == {i \in DOMAIN log : log[i].status = "accepted" /\ log[i].supersedes = f}

\* Mutant: a fact is superseded only if its own last line says so.
FoldedLine(log, f) ==
  IF Written(log, f) = {} THEN NoLine ELSE LastLine(log, f)

\* The first accepted successor closes a fact whose own line does not.
Folded(log, f) ==
  LET after == Successions(log, f) IN
  IF Written(log, f) = {} THEN NoLine
  ELSE IF LastLine(log, f).by # NoFact \/ after = {} THEN LastLine(log, f)
  ELSE [LastLine(log, f) EXCEPT !.by = log[CHOOSE i \in after : \A j \in after : i <= j].fact]

Known(log, f)      == Folded(log, f) # NoLine
VisibleFacts(log)  == {f \in Facts : /\ Known(log, f)
                                     /\ Folded(log, f).by = NoFact
                                     /\ Folded(log, f).status = "accepted"}

\* A fact is ready when a reviewed document holds its quote.
Supported(f) ==
  /\ RunVisible(manifest[Quotes[f].doc])
  /\ text[Quotes[f].doc] = Quotes[f].text

FactSpend == factOps < MaxFacts /\ factOps' = factOps + 1

Line(f, status, p) == [fact |-> f, status |-> status, supersedes |-> p, by |-> NoFact]

-----------------------------------------------------------------------------
FactInit == factLog = <<>> /\ factReview = FactIdle /\ factOps = 0

\* By hand or from a file: accepted as it stands, also if it is there already.
AddFact(f) ==
  /\ Version[f] = 1
  /\ FactSpend
  /\ factLog' = Append(factLog, Line(f, "accepted", NoFact))
  /\ UNCHANGED factReview

ProposeFact(f) ==
  /\ factReview = FactIdle
  /\ Version[f] = 1 /\ ~Known(factLog, f)
  /\ FactSpend
  /\ factLog' = Append(factLog, Line(f, "pending", NoFact))
  /\ UNCHANGED factReview

\* Only a fact that was superseded has no revision; its review is not asked for.
ProposeRevision(p, f) ==
  /\ factReview = FactIdle
  /\ Known(factLog, p) /\ Folded(factLog, p).by = NoFact
  /\ Version[f] = Version[p] + 1 /\ ~Known(factLog, f)
  /\ FactSpend
  /\ factLog' = Append(factLog, Line(f, "pending", p))
  /\ UNCHANGED factReview

\* The record a revision replaces, as the review found it.
Predecessor(f) ==
  LET p == Folded(factLog, f).supersedes IN
  IF p = NoFact THEN NoLine ELSE Folded(factLog, p)

Pending(f) == Known(factLog, f) /\ Folded(factLog, f).status = "pending"

\* A person reviews one candidate: everything is read before anything is written.
BeginAccept(f) ==
  /\ factReview = FactIdle
  /\ Pending(f) /\ Supported(f)
  /\ Predecessor(f) # NoLine => Predecessor(f).by = NoFact
  /\ FactSpend
  /\ factReview' = [at |-> "checked", fact |-> Folded(factLog, f), status |-> "accepted",
                    before |-> Predecessor(f)]
  /\ UNCHANGED factLog

BeginReject(f) ==
  /\ factReview = FactIdle
  /\ Pending(f)
  /\ FactSpend
  /\ factReview' = [at |-> "checked", fact |-> Folded(factLog, f), status |-> "rejected",
                    before |-> NoLine]
  /\ UNCHANGED factLog

RecordReview ==
  /\ factReview.at = "checked"
  /\ factLog' = Append(factLog, [factReview.fact EXCEPT !.status = factReview.status])
  /\ factReview' = IF factReview.before = NoLine THEN FactIdle ELSE [factReview EXCEPT !.at = "recorded"]
  /\ UNCHANGED factOps

\* The predecessor again, with the pointer to what replaced it.
CloseBefore ==
  /\ factReview.at = "recorded"
  /\ factLog' = Append(factLog, [factReview.before EXCEPT !.by = factReview.fact.fact])
  /\ factReview' = FactIdle
  /\ UNCHANGED factOps

ReviewDies ==
  /\ factReview # FactIdle
  /\ factReview' = FactIdle
  /\ UNCHANGED <<factLog, factOps>>

FactNext ==
  \/ \E f \in Facts : AddFact(f) \/ ProposeFact(f) \/ BeginAccept(f) \/ BeginReject(f)
  \/ \E p, f \in Facts : ProposeRevision(p, f)
  \/ RecordReview \/ CloseBefore \/ ReviewDies

-----------------------------------------------------------------------------
FactTypeOK ==
  /\ factLog \in Seq(Lines)
  /\ factReview \in {FactIdle} \cup [at: {"checked", "recorded"}, fact: Lines,
                                    status: {"accepted", "rejected"}, before: Lines \cup {NoLine}]
  /\ factOps \in 0 .. MaxFacts

\* Two accepted facts never replace the same one, whichever review died half way
\* and whatever was added by hand meanwhile (_review_fact_locked, fold).
OneSuccessor ==
  \A f, g \in VisibleFacts(factLog) :
    Folded(factLog, f).supersedes = Folded(factLog, g).supersedes
    /\ Folded(factLog, f).supersedes # NoFact => f = g

\* A fact that was replaced stays replaced by the same one: neither a crash
\* between the two lines of a review nor adding the old statement again brings
\* it back into runs (fold).
EdgeStands ==
  [][\A f \in Facts : Known(factLog, f) /\ Folded(factLog, f).by # NoFact =>
       Folded(factLog', f).by = Folded(factLog, f).by]_factLog
=============================================================================
