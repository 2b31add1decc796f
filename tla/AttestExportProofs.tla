------------------------- MODULE AttestExportProofs --------------------------
(***************************************************************************)
(* What a clean DOCX and a valid attestation stand for, however long the   *)
(* drafts, the authorities, the verifiers and the exports go on.           *)
(*                                                                         *)
(* The argument is one inductive invariant, Inv: the types; which files an *)
(* export under way has already built, and from what; and that its inputs  *)
(* cannot move until it lets the run lock go.                              *)
(***************************************************************************)
EXTENDS AttestExport, TLAPS

Phases == {"idle", "building", "judging", "rendering", "scanning", "sealing"}

\* nothing but the panel's verdict lets the drafts pass, and it is the last turn
RunInv ==
    /\ drafts \in 0..MaxDrafts /\ complete \in BOOLEAN /\ turnGates \in Verdicts
    /\ decision \in Decisions /\ edited \in BOOLEAN /\ journalGrew \in BOOLEAN
    /\ turnGates = "pass" => complete

\* verdicts that a verifier has still to record
Found == UNION {[C -> Statuses] : C \in SUBSET Authorities}

Passes == [on : BOOLEAN, cites : SUBSET Authorities, found : Found]

CiteTypes ==
    /\ ledgerGrew \in BOOLEAN
    /\ ledger \in [Authorities -> [status : Statuses, left : 0..MaxAge]]
    /\ queue \in [Authorities -> {"none", "open", "fulfilled"}]
    /\ curated \subseteq Authorities /\ filing \subseteq Authorities
    /\ supported \in [Authorities -> {"none", "yes", "no"}] /\ gate \in Verdicts
    /\ pass \in [Verifiers -> Passes]

\* a verdict that sends an authority to research follows its request
FoundIsQueued ==
    \A v \in Verifiers : \A c \in DOMAIN pass[v].found :
        pass[v].found[c] = "research" => queue[c] # "none"

CiteInv == CiteTypes /\ FoundIsQueued /\ ResearchIsQueued

ExportTypes ==
    /\ export \in Phases /\ locked = (export # "idle")
    /\ exports \in 0..MaxExports
    /\ master \in 0..exports /\ papers \in File /\ docx \in File
    /\ docx.build \in 0..exports
    /\ attests \in 0..MaxAttests /\ att.id = attests
    /\ seal.att \in 0..attests /\ seal.docx \in 0..exports
    /\ att.master \in 0..exports /\ seal.papers \in 0..exports

\* an attestation without news covers the drafts and the decisions
Covered ==
    att.id # 0 /\ ~journalGrew => drafts = att.drafts /\ decision # "open"

\* the papers of the export under way, and of no export before it
PapersFresh ==
    export \in {"judging", "rendering", "scanning", "sealing"} =>
        papers = Built /\ seal.papers # exports /\ exports # 0

\* what an export found when it judged the run still holds
StillFinal ==
    export \in {"rendering", "scanning", "sealing"} =>
        complete /\ turnGates = "pass" /\ decision \in {"none", "fits"}

\* an export that builds found no intact seal, and its papers will be new
Unsealed == export = "building" => ~SealedValid /\ seal.papers # exports /\ exports # 0

ExportInv ==
    ExportTypes /\ Covered /\ PapersFresh /\ StillFinal /\ Unsealed /\ CleanIsFinal

Inv == RunInv /\ CiteInv /\ ExportInv

-----------------------------------------------------------------------------
\* What a turn, a decision or an edit may do (record_turn, resolve): the drafts and
\* the decisions move only without the run lock and with a line on the journal, and
\* no more once the run is complete and its gates resolved.
LEMMA RunMoves ==
    ASSUME RunInv, RunStep
    PROVE  /\ RunInv' /\ locked' = locked
           /\ edited => edited'
           /\ \/ UNCHANGED <<drafts, complete, turnGates, decision, journalGrew>>
              \/ ~locked /\ journalGrew' = TRUE
           /\ complete /\ decision # "open" => UNCHANGED <<drafts, complete, turnGates, decision>>
<1>0. MaxDrafts \in Nat
  BY DraftsCite DEF DraftsCite
<1>. USE <1>0 DEF RunInv, Verdicts, Decisions
<1>1. CASE CompleteDraft
  <2>1. decision' = decision \/ decision' = "open"
    BY <1>1 DEF CompleteDraft
  <2>2. RunInv'
    BY <1>1, <2>1 DEF CompleteDraft
  <2>. QED  BY <1>1, <2>2 DEF CompleteDraft
<1>2. CASE CompletePanel
  BY <1>2 DEF CompletePanel
<1>3. CASE Resolve
  BY <1>3 DEF Resolve
<1>4. CASE EditMatter
  BY <1>4 DEF EditMatter
<1>. QED  BY <1>1, <1>2, <1>3, <1>4 DEF RunStep

\* The export's part of the invariant holds through them.
LEMMA RunKeepsExport ==
    ASSUME Inv, RunStep, UNCHANGED exportVars, UNCHANGED citeVars
    PROVE  ExportInv'
<1>1. /\ RunInv' /\ locked' = locked
      /\ edited => edited'
      /\ \/ UNCHANGED <<drafts, complete, turnGates, decision, journalGrew>>
         \/ ~locked /\ journalGrew' = TRUE
      /\ complete /\ decision # "open" => UNCHANGED <<drafts, complete, turnGates, decision>>
  BY RunMoves DEF Inv
<1>2. ExportTypes /\ Covered /\ PapersFresh /\ StillFinal /\ Unsealed /\ CleanIsFinal
  BY DEF Inv, ExportInv
<1>3. ExportTypes'
  BY <1>1, <1>2 DEF ExportTypes, exportVars, File
<1>4. Covered'
  BY <1>1, <1>2 DEF Covered, exportVars
<1>5. PapersFresh'
  BY <1>1, <1>2 DEF PapersFresh, ExportTypes, exportVars, Built
<1>6. StillFinal'
  BY <1>1, <1>2 DEF StillFinal, exportVars
<1>7. Unsealed'
  BY <1>1, <1>2 DEF Unsealed, ExportTypes, exportVars, citeVars, SealedValid, AttestationValid
<1>8. CleanIsFinal'
  BY <1>1, <1>2 DEF CleanIsFinal, exportVars
<1>. QED  BY <1>3, <1>4, <1>5, <1>6, <1>7, <1>8 DEF ExportInv

-----------------------------------------------------------------------------
\* The citations of the operative drafts are authorities (citations of a draft).
LEMMA CitedAreAuthorities ==
    ASSUME RunInv
    PROVE  Cites[drafts] \subseteq Authorities
BY DraftsCite DEF DraftsCite, RunInv

\* A record appended to the ledger is one of its four verdicts (append of a
\* verification record), and one that asks for research has its request.
LEMMA RecordedKeeps ==
    ASSUME CiteInv, NEW c \in Authorities, NEW status \in Statuses, Recorded(c, status),
           status = "research" => queue[c] # "none"
    PROVE  /\ ledgerGrew' \in BOOLEAN /\ ledgerGrew'
           /\ ledger' \in [Authorities -> [status : Statuses, left : 0..MaxAge]]
           /\ \A d \in Authorities : ledger'[d].status = "research" => queue[d] # "none"
<1>1. MaxAge \in Nat
  BY LedgerConstants DEF LedgerConstants
<1>2. DEFINE new == [status |-> status, left |-> IF status = "verified" THEN MaxAge ELSE 0]
<1>3. new \in [status : Statuses, left : 0..MaxAge] /\ new.status = status
  BY <1>1
<1>4. ledger' = [ledger EXCEPT ![c] = new] /\ ledgerGrew' = TRUE
  BY DEF Recorded
<1>5. ledger \in [Authorities -> [status : Statuses, left : 0..MaxAge]]
  BY DEF CiteInv, CiteTypes
<1>6. \A d \in Authorities : ledger'[d] = IF d = c THEN new ELSE ledger[d]
  BY <1>4, <1>5
<1>7. \A d \in Authorities : ledger[d].status = "research" => queue[d] # "none"
  BY DEF CiteInv, ResearchIsQueued
<1>. HIDE DEF new
<1>. QED  BY <1>3, <1>4, <1>5, <1>6, <1>7

\* cite verify keeps the ledger, the queue and its own verdicts in order (verify_all).
LEMMA VerifyLookUpKeeps ==
    ASSUME RunInv, CiteInv, NEW v \in Verifiers, VerifyLookUp(v)
    PROVE  CiteInv' /\ (ledgerGrew => ledgerGrew')
<1>1. CiteTypes /\ FoundIsQueued /\ ResearchIsQueued
  BY DEF CiteInv
<1>2. Uncached(Cites[drafts]) \subseteq Authorities
  BY CitedAreAuthorities DEF Uncached
<1>3. PICK found \in [Uncached(Cites[drafts]) -> Statuses] :
         /\ queue' = Routed(found)
         /\ pass' = [pass EXCEPT ![v] = [on |-> TRUE, cites |-> Cites[drafts], found |-> found]]
  BY DEF VerifyLookUp
<1>4. UNCHANGED <<ledger, ledgerGrew, curated, filing, supported, gate>>
  BY DEF VerifyLookUp
<1>5. queue' \in [Authorities -> {"none", "open", "fulfilled"}]
  BY <1>1, <1>3 DEF Routed, CiteTypes
<1>6. \A c \in Authorities : queue[c] # "none" => queue'[c] # "none"
  BY <1>3 DEF Routed
<1>7. \A c \in DOMAIN found : found[c] = "research" => queue'[c] # "none"
  BY <1>2, <1>3 DEF Routed
<1>8. found \in Found
  BY <1>2, <1>3 DEF Found
<1>9. [on |-> TRUE, cites |-> Cites[drafts], found |-> found] \in Passes
  BY <1>8, CitedAreAuthorities DEF Passes
<1>10. /\ pass \in [Verifiers -> Passes]
       /\ pass' \in [Verifiers -> Passes]
       /\ \A w \in Verifiers \ {v} : pass'[w] = pass[w]
       /\ pass'[v].found = found
  BY <1>1, <1>3, <1>9 DEF CiteTypes
<1>11. FoundIsQueued'
  <2>1. ASSUME NEW w \in Verifiers, NEW c \in DOMAIN pass'[w].found,
               pass'[w].found[c] = "research"
        PROVE  queue'[c] # "none"
    <3>1. CASE w = v
      BY <3>1, <2>1, <1>7, <1>10
    <3>2. CASE w # v
      <4>1. c \in DOMAIN pass[w].found /\ pass[w].found[c] = "research"
        BY <3>2, <2>1, <1>10
      <4>2. DOMAIN pass[w].found \subseteq Authorities
        BY <1>10 DEF Passes, Found
      <4>. QED  BY <4>1, <4>2, <1>1, <1>6 DEF FoundIsQueued
    <3>. QED  BY <3>1, <3>2
  <2>. QED  BY <2>1 DEF FoundIsQueued
<1>12. ResearchIsQueued'
  BY <1>1, <1>4, <1>6 DEF ResearchIsQueued
<1>. QED  BY <1>1, <1>4, <1>5, <1>10, <1>11, <1>12 DEF CiteInv, CiteTypes

\* Recording one verdict takes it off the verifier's list (verify_all).
LEMMA VerifyRecordKeeps ==
    ASSUME CiteInv, NEW v \in Verifiers, VerifyRecord(v)
    PROVE  CiteInv' /\ (ledgerGrew => ledgerGrew')
<1>1. CiteTypes /\ FoundIsQueued /\ ResearchIsQueued
  BY DEF CiteInv
<1>2. PICK c \in DOMAIN pass[v].found :
         /\ Recorded(c, pass[v].found[c])
         /\ pass' = [pass EXCEPT ![v].found =
                        [d \in DOMAIN pass[v].found \ {c} |-> pass[v].found[d]]]
  BY DEF VerifyRecord
<1>. DEFINE rest == [d \in DOMAIN pass[v].found \ {c} |-> pass[v].found[d]]
<1>3. UNCHANGED <<queue, curated, filing, supported, gate>>
  BY DEF VerifyRecord
<1>4. pass[v] \in Passes /\ pass[v].found \in Found
  BY <1>1 DEF CiteTypes, Passes
<1>5. PICK C \in SUBSET Authorities : pass[v].found \in [C -> Statuses]
  BY <1>4 DEF Found
<1>6. rest \in [C \ {c} -> Statuses]
  BY <1>5
<1>7. rest \in Found
  BY <1>6 DEF Found
<1>8. DOMAIN rest \subseteq DOMAIN pass[v].found /\ \A d \in DOMAIN rest : rest[d] = pass[v].found[d]
  OBVIOUS
<1>9. pass' = [pass EXCEPT ![v].found = rest]
  BY <1>2
<1>. HIDE DEF rest
<1>10. /\ pass \in [Verifiers -> Passes]
       /\ pass' \in [Verifiers -> Passes]
       /\ \A w \in Verifiers \ {v} : pass'[w] = pass[w]
       /\ pass'[v].found = rest
  BY <1>1, <1>4, <1>7, <1>9 DEF CiteTypes, Passes
<1>11. FoundIsQueued'
  BY <1>1, <1>3, <1>8, <1>10 DEF FoundIsQueued
<1>12. /\ ledgerGrew' \in BOOLEAN /\ ledgerGrew'
       /\ ledger' \in [Authorities -> [status : Statuses, left : 0..MaxAge]]
       /\ \A d \in Authorities : ledger'[d].status = "research" => queue[d] # "none"
  <2>1. c \in Authorities /\ pass[v].found[c] \in Statuses
    BY <1>5
  <2>2. pass[v].found[c] = "research" => queue[c] # "none"
    BY <1>1 DEF FoundIsQueued
  <2>. QED  BY <2>1, <2>2, <1>2, RecordedKeeps
<1>13. ResearchIsQueued'
  BY <1>3, <1>12 DEF ResearchIsQueued
<1>. QED  BY <1>1, <1>3, <1>10, <1>11, <1>12, <1>13 DEF CiteInv, CiteTypes

\* A verifier that ends, by its gate or by dying, leaves nothing to record.
LEMMA RestingKeeps ==
    ASSUME CiteInv, NEW v \in Verifiers, pass' = [pass EXCEPT ![v] = Resting],
           UNCHANGED <<ledger, ledgerGrew, queue, curated, filing, supported>>,
           gate' \in Verdicts
    PROVE  CiteInv' /\ (ledgerGrew => ledgerGrew')
<1>1. CiteTypes /\ FoundIsQueued /\ ResearchIsQueued
  BY DEF CiteInv
<1>2. <<>> \in [{} -> Statuses]
  OBVIOUS
<1>3. <<>> \in Found
  BY <1>2 DEF Found
<1>4. Resting \in Passes /\ Resting.found = <<>>
  BY <1>3 DEF Passes, Resting
<1>5. /\ pass' \in [Verifiers -> Passes]
      /\ \A w \in Verifiers \ {v} : pass'[w] = pass[w]
      /\ DOMAIN pass'[v].found = {}
  BY <1>1, <1>4 DEF CiteTypes
<1>6. FoundIsQueued'
  BY <1>1, <1>5 DEF FoundIsQueued
<1>7. ResearchIsQueued'
  BY <1>1 DEF ResearchIsQueued
<1>. QED  BY <1>1, <1>5, <1>6, <1>7 DEF CiteInv, CiteTypes

\* The rest of a step that leaves the ledger's and the verifiers' variables alone.
LEMMA QueueKeeps ==
    ASSUME CiteInv, UNCHANGED <<ledger, ledgerGrew, pass>>,
           queue' \in [Authorities -> {"none", "open", "fulfilled"}],
           \A c \in Authorities : queue[c] # "none" => queue'[c] # "none",
           curated' \subseteq Authorities, filing' \subseteq Authorities,
           supported' \in [Authorities -> {"none", "yes", "no"}], gate' \in Verdicts
    PROVE  CiteInv' /\ (ledgerGrew => ledgerGrew')
<1>1. CiteTypes /\ FoundIsQueued /\ ResearchIsQueued
  BY DEF CiteInv
<1>2. \A v \in Verifiers : DOMAIN pass[v].found \subseteq Authorities
  BY <1>1 DEF CiteTypes, Passes, Found
<1>3. FoundIsQueued'
  BY <1>1, <1>2 DEF FoundIsQueued
<1>4. ResearchIsQueued'
  BY <1>1 DEF ResearchIsQueued
<1>. QED  BY <1>1, <1>3, <1>4 DEF CiteInv, CiteTypes

\* A day passes: a verified record may fall back to pending, never to research
\* (fold_ledger).
LEMMA NextDayKeeps ==
    ASSUME CiteInv, NextDay
    PROVE  CiteInv' /\ (ledgerGrew => ledgerGrew')
<1>1. CiteTypes /\ FoundIsQueued /\ ResearchIsQueued
  BY DEF CiteInv
<1>2. UNCHANGED <<ledgerGrew, queue, curated, filing, supported, gate, pass>>
  BY DEF NextDay
<1>3. ASSUME NEW r \in [status : Statuses, left : 0..MaxAge]
      PROVE  /\ Aged(r) \in [status : Statuses, left : 0..MaxAge]
             /\ Aged(r).status = "research" => r.status = "research"
  <2>1. CASE r.status # "verified"
    BY <2>1 DEF Aged
  <2>2. CASE r.status = "verified" /\ r.left = 0
    BY <2>2 DEF Aged, Statuses
  <2>3. CASE r.status = "verified" /\ r.left # 0
    <3>1. Aged(r) = [r EXCEPT !.left = @ - 1]
      BY <2>3 DEF Aged
    <3>2. r.left - 1 \in 0..MaxAge
      BY <2>3, LedgerConstants DEF LedgerConstants
    <3>. QED  BY <3>1, <3>2
  <2>. QED  BY <2>1, <2>2, <2>3
<1>4. ledger' = [c \in Authorities |-> Aged(ledger[c])]
  BY DEF NextDay
<1>5. \A c \in Authorities : ledger[c] \in [status : Statuses, left : 0..MaxAge]
  BY <1>1 DEF CiteTypes
<1>6. ledger' \in [Authorities -> [status : Statuses, left : 0..MaxAge]]
  BY <1>3, <1>4, <1>5
<1>7. \A c \in Authorities : ledger'[c].status = "research" => ledger[c].status = "research"
  BY <1>3, <1>4, <1>5
<1>8. ResearchIsQueued'
  BY <1>1, <1>2, <1>7 DEF ResearchIsQueued
<1>9. FoundIsQueued'
  BY <1>1, <1>2 DEF FoundIsQueued
<1>. QED  BY <1>1, <1>2, <1>6, <1>8, <1>9 DEF CiteInv, CiteTypes

\* A gate is a verdict (citation_gate, citation_export_gate).
LEMMA GatesAreVerdicts ==
    /\ \A cited : GateOf(cited) \in Verdicts
    /\ Combined \in Verdicts
BY Zenon DEF GateOf, Combined, Verdicts

\* What citation verification, research and the proposition checks do
\* (verify_all, fulfill_research_request, run_cite_check).
LEMMA CiteMoves ==
    ASSUME RunInv, CiteInv, CiteQuietly \/ CiteJournalled
    PROVE  CiteInv' /\ (ledgerGrew => ledgerGrew')
<1>0. CiteTypes /\ FoundIsQueued /\ ResearchIsQueued
  BY DEF CiteInv
<1>1. ASSUME NEW v \in Verifiers, VerifyLookUp(v)
      PROVE  CiteInv' /\ (ledgerGrew => ledgerGrew')
  BY <1>1, VerifyLookUpKeeps
<1>2. ASSUME NEW v \in Verifiers, VerifyRecord(v)
      PROVE  CiteInv' /\ (ledgerGrew => ledgerGrew')
  BY <1>2, VerifyRecordKeeps
<1>3. ASSUME NEW v \in Verifiers, VerifyDies(v)
      PROVE  CiteInv' /\ (ledgerGrew => ledgerGrew')
  BY <1>0, <1>3, RestingKeeps DEF VerifyDies, CiteTypes
<1>4. ASSUME NEW v \in Verifiers, VerifyGate(v)
      PROVE  CiteInv' /\ (ledgerGrew => ledgerGrew')
  BY <1>4, RestingKeeps, GatesAreVerdicts DEF VerifyGate
<1>5. ASSUME NEW c \in Authorities, FulfillFile(c)
      PROVE  CiteInv' /\ (ledgerGrew => ledgerGrew')
  <2>1. /\ queue' \in [Authorities -> {"none", "open", "fulfilled"}]
        /\ \A d \in Authorities : queue[d] # "none" => queue'[d] # "none"
    BY <1>0, <1>5 DEF FulfillFile, CiteTypes
  <2>2. /\ curated' \subseteq Authorities /\ filing' \subseteq Authorities
        /\ UNCHANGED <<ledger, ledgerGrew, pass, supported, gate>>
    BY <1>0, <1>5 DEF FulfillFile, CiteTypes
  <2>. QED  BY <1>0, <2>1, <2>2, QueueKeeps DEF CiteTypes
<1>6. ASSUME NEW c \in Authorities, FulfillRecord(c)
      PROVE  CiteInv' /\ (ledgerGrew => ledgerGrew')
  <2>1. Recorded(c, "verified") /\ "verified" \in Statuses
    BY <1>6 DEF FulfillRecord, Statuses
  <2>2. UNCHANGED <<queue, curated, supported, gate, pass>> /\ filing' \subseteq Authorities
    BY <1>0, <1>6 DEF FulfillRecord, CiteTypes
  <2>3. /\ ledgerGrew' \in BOOLEAN /\ ledgerGrew'
        /\ ledger' \in [Authorities -> [status : Statuses, left : 0..MaxAge]]
        /\ \A d \in Authorities : ledger'[d].status = "research" => queue[d] # "none"
    BY <2>1, RecordedKeeps
  <2>4. FoundIsQueued' /\ ResearchIsQueued'
    BY <1>0, <2>2, <2>3 DEF FoundIsQueued, ResearchIsQueued
  <2>. QED  BY <1>0, <2>2, <2>3, <2>4 DEF CiteInv, CiteTypes
<1>7. ASSUME NEW c \in Authorities, FulfillDies(c)
      PROVE  CiteInv' /\ (ledgerGrew => ledgerGrew')
  <2>1. UNCHANGED <<ledger, ledgerGrew, queue, curated, supported, gate, pass>>
        /\ filing' \subseteq Authorities
    BY <1>0, <1>7 DEF FulfillDies, CiteTypes
  <2>. QED  BY <1>0, <2>1, QueueKeeps DEF CiteTypes
<1>8. CASE NextDay
  BY <1>8, NextDayKeeps
<1>9. CASE CheckOne
  <2>1. supported' \in [Authorities -> {"none", "yes", "no"}]
    BY <1>0, <1>9 DEF CheckOne, CiteTypes
  <2>2. UNCHANGED <<ledger, ledgerGrew, queue, curated, filing, gate, pass>>
    BY <1>9 DEF CheckOne
  <2>. QED  BY <1>0, <2>1, <2>2, QueueKeeps DEF CiteTypes
<1>10. CASE CheckGates
  <2>1. gate' \in Verdicts
    BY <1>10, GatesAreVerdicts DEF CheckGates
  <2>2. UNCHANGED <<ledger, ledgerGrew, queue, curated, filing, supported, pass>>
    BY <1>10 DEF CheckGates
  <2>. QED  BY <1>0, <2>1, <2>2, QueueKeeps DEF CiteTypes
<1>. QED
  BY <1>1, <1>2, <1>3, <1>4, <1>5, <1>6, <1>7, <1>8, <1>9, <1>10
  DEF CiteQuietly, CiteJournalled

\* The export's part of the invariant holds through them: the ledger and the journal
\* only grow, and nothing else that an attestation covers moves.
LEMMA CiteKeepsExport ==
    ASSUME Inv, ledgerGrew => ledgerGrew', journalGrew => journalGrew',
           UNCHANGED <<drafts, complete, turnGates, decision, edited, locked, exportVars>>
    PROVE  ExportInv'
<1>1. ExportTypes /\ Covered /\ PapersFresh /\ StillFinal /\ Unsealed /\ CleanIsFinal
  BY DEF Inv, ExportInv
<1>2. ExportTypes'
  BY <1>1 DEF ExportTypes, exportVars, File
<1>3. Covered'
  BY <1>1 DEF Covered, exportVars
<1>4. PapersFresh'
  BY <1>1 DEF PapersFresh, exportVars, Built
<1>5. StillFinal'
  BY <1>1 DEF StillFinal, exportVars
<1>6. Unsealed'
  BY <1>1 DEF Unsealed, exportVars, SealedValid, AttestationValid
<1>7. CleanIsFinal'
  BY <1>1 DEF CleanIsFinal, exportVars
<1>. QED  BY <1>2, <1>3, <1>4, <1>5, <1>6, <1>7 DEF ExportInv

-----------------------------------------------------------------------------
\* The bounds are numbers, and what an export builds is a file.
LEMMA ExportLimits ==
    /\ MaxAttests \in Nat /\ MaxExports \in Nat /\ MaxDrafts \in Nat
    /\ NoFile \in File /\ (Inv => Built \in File)
<1>1. MaxAttests \in Nat /\ MaxExports \in Nat /\ MaxDrafts \in Nat
  BY ExportBounds, DraftsCite DEF ExportBounds, DraftsCite
<1>2. NoFile \in File
  BY <1>1 DEF NoFile, File
<1>3. ASSUME Inv PROVE Built \in File
  <2>1. exports \in 0..MaxExports /\ drafts \in 0..MaxDrafts
    BY <1>3 DEF Inv, RunInv, ExportInv, ExportTypes
  <2>. QED  BY <2>1 DEF Built, File
<1>. QED  BY <1>1, <1>2, <1>3

\* An export takes the lock only where no intact seal is (_export_run_locked).
LEMMA OpenKeeps ==
    ASSUME Inv, ExportOpen, UNCHANGED <<drafts, complete, turnGates, decision, journalGrew, edited, citeVars>>
    PROVE  ExportInv'
<1>. USE DEF ExportOpen, NeedsBuild, AttestationValid, SealedValid
<1>1. ExportTypes /\ Covered /\ PapersFresh /\ StillFinal /\ Unsealed /\ CleanIsFinal /\ RunInv
  BY DEF Inv, ExportInv
<1>2. ExportTypes'
  <2>1. exports' \in 0..MaxExports /\ exports' = exports + 1 /\ exports \in Nat
    BY <1>1, ExportLimits DEF ExportTypes
  <2>2. master' \in 0..exports'
    BY <1>1, <2>1 DEF ExportTypes
  <2>3. 0..exports \subseteq 0..exports'
    BY <2>1
  <2>4. /\ papers' \in File /\ docx' \in File /\ docx'.build \in 0..exports
        /\ seal'.docx \in 0..exports /\ att'.master \in 0..exports /\ seal'.papers \in 0..exports
    BY <1>1 DEF ExportTypes
  <2>. QED  BY <1>1, <2>1, <2>2, <2>3, <2>4 DEF ExportTypes, Phases
<1>3. Covered'
  BY <1>1 DEF Covered, ExportTypes
<1>4. PapersFresh'
  BY <1>1 DEF PapersFresh, ExportTypes, Unsealed, Built
<1>5. StillFinal'
  BY <1>1 DEF StillFinal, ExportReady, RunInv
<1>6. Unsealed'
  BY <1>1 DEF Unsealed, PapersFresh, ExportTypes, citeVars, SealedValid, AttestationValid
<1>7. CleanIsFinal'
  BY <1>1 DEF CleanIsFinal, PapersFresh, StillFinal, ExportReady, RunInv, Built, NoFile
<1>. QED  BY <1>2, <1>3, <1>4, <1>5, <1>6, <1>7 DEF ExportInv

\* The papers are built from the operative drafts (_export_run_locked).
LEMMA PapersKeeps ==
    ASSUME Inv, ExportPapers, UNCHANGED <<drafts, complete, turnGates, decision, journalGrew, edited, citeVars>>
    PROVE  ExportInv'
<1>. USE DEF ExportPapers, Phase
<1>1. ExportTypes /\ Covered /\ PapersFresh /\ StillFinal /\ Unsealed /\ CleanIsFinal /\ RunInv
  BY DEF Inv, ExportInv
<1>2. ExportTypes'
  BY <1>1, ExportLimits DEF ExportTypes, Phases, NoFile, Built, PapersFresh
<1>3. Covered'
  BY <1>1 DEF Covered, ExportTypes
<1>4. PapersFresh'
  BY <1>1 DEF PapersFresh, ExportTypes, Unsealed, Built
<1>5. StillFinal'
  BY <1>1 DEF StillFinal, ExportReady, RunInv
<1>6. Unsealed'
  BY <1>1 DEF Unsealed, PapersFresh, ExportTypes, citeVars, SealedValid, AttestationValid
<1>7. CleanIsFinal'
  BY <1>1 DEF CleanIsFinal, PapersFresh, StillFinal, ExportReady, RunInv, Built, NoFile
<1>. QED  BY <1>2, <1>3, <1>4, <1>5, <1>6, <1>7 DEF ExportInv

\* Only what qualifies stays clean (qualifies_clean, _retire_clean_docx).
LEMMA JudgeKeeps ==
    ASSUME Inv, ExportJudge, UNCHANGED <<drafts, complete, turnGates, decision, journalGrew, edited, citeVars>>
    PROVE  ExportInv'
<1>. USE DEF ExportJudge, Unlock
<1>1. ExportTypes /\ Covered /\ PapersFresh /\ StillFinal /\ Unsealed /\ CleanIsFinal /\ RunInv
  BY DEF Inv, ExportInv
<1>2. ExportTypes'
  <2>1. docx' \in {docx, NoFile}
    OBVIOUS
  <2>2. docx' \in File
    BY <1>1, <2>1, ExportLimits DEF ExportTypes
  <2>3. docx'.build \in 0..exports
    BY <1>1, <2>1 DEF ExportTypes, NoFile
  <2>. QED  BY <1>1, <2>2, <2>3 DEF ExportTypes, Phases
<1>3. Covered'
  BY <1>1 DEF Covered, ExportTypes
<1>4. PapersFresh'
  BY <1>1 DEF PapersFresh, ExportTypes, Unsealed, Built
<1>5. StillFinal'
  BY <1>1 DEF StillFinal, ExportReady, RunInv
<1>6. Unsealed'
  BY <1>1 DEF Unsealed, PapersFresh, ExportTypes, citeVars, SealedValid, AttestationValid
<1>7. CleanIsFinal'
  BY <1>1 DEF CleanIsFinal, PapersFresh, StillFinal, ExportReady, RunInv, Built, NoFile
<1>. QED  BY <1>2, <1>3, <1>4, <1>5, <1>6, <1>7 DEF ExportInv

\* The clean DOCX is rendered from the papers just built (_export_run_locked).
LEMMA RenderKeeps ==
    ASSUME Inv, ExportRender, UNCHANGED <<drafts, complete, turnGates, decision, journalGrew, edited, citeVars>>
    PROVE  ExportInv'
<1>. USE DEF ExportRender, Phase
<1>1. ExportTypes /\ Covered /\ PapersFresh /\ StillFinal /\ Unsealed /\ CleanIsFinal /\ RunInv
  BY DEF Inv, ExportInv
<1>2. ExportTypes'
  BY <1>1, ExportLimits DEF ExportTypes, Phases, NoFile, Built, PapersFresh
<1>3. Covered'
  BY <1>1 DEF Covered, ExportTypes
<1>4. PapersFresh'
  BY <1>1 DEF PapersFresh, ExportTypes, Unsealed, Built
<1>5. StillFinal'
  BY <1>1 DEF StillFinal, ExportReady, RunInv
<1>6. Unsealed'
  BY <1>1 DEF Unsealed, PapersFresh, ExportTypes, citeVars, SealedValid, AttestationValid
<1>7. CleanIsFinal'
  BY <1>1 DEF CleanIsFinal, PapersFresh, StillFinal, ExportReady, RunInv, Built, NoFile
<1>. QED  BY <1>2, <1>3, <1>4, <1>5, <1>6, <1>7 DEF ExportInv

\* A clean scan changes no file (residue scan).
LEMMA ScannedKeeps ==
    ASSUME Inv, ExportScanned, UNCHANGED <<drafts, complete, turnGates, decision, journalGrew, edited, citeVars>>
    PROVE  ExportInv'
<1>. USE DEF ExportScanned, Phase
<1>1. ExportTypes /\ Covered /\ PapersFresh /\ StillFinal /\ Unsealed /\ CleanIsFinal /\ RunInv
  BY DEF Inv, ExportInv
<1>2. ExportTypes'
  BY <1>1, ExportLimits DEF ExportTypes, Phases, NoFile, Built, PapersFresh
<1>3. Covered'
  BY <1>1 DEF Covered, ExportTypes
<1>4. PapersFresh'
  BY <1>1 DEF PapersFresh, ExportTypes, Unsealed, Built
<1>5. StillFinal'
  BY <1>1 DEF StillFinal, ExportReady, RunInv
<1>6. Unsealed'
  BY <1>1 DEF Unsealed, PapersFresh, ExportTypes, citeVars, SealedValid, AttestationValid
<1>7. CleanIsFinal'
  BY <1>1 DEF CleanIsFinal, PapersFresh, StillFinal, ExportReady, RunInv, Built, NoFile
<1>. QED  BY <1>2, <1>3, <1>4, <1>5, <1>6, <1>7 DEF ExportInv

\* Residue leaves no clean DOCX (residue scan).
LEMMA ResidueKeeps ==
    ASSUME Inv, ExportResidue, UNCHANGED <<drafts, complete, turnGates, decision, journalGrew, edited, citeVars>>
    PROVE  ExportInv'
<1>. USE DEF ExportResidue, Unlock
<1>1. ExportTypes /\ Covered /\ PapersFresh /\ StillFinal /\ Unsealed /\ CleanIsFinal /\ RunInv
  BY DEF Inv, ExportInv
<1>2. ExportTypes'
  <2>1. docx' = NoFile
    OBVIOUS
  <2>2. docx' \in File
    BY <1>1, <2>1, ExportLimits DEF ExportTypes
  <2>3. docx'.build \in 0..exports
    BY <1>1, <2>1 DEF ExportTypes, NoFile
  <2>. QED  BY <1>1, <2>2, <2>3 DEF ExportTypes, Phases
<1>3. Covered'
  BY <1>1 DEF Covered, ExportTypes
<1>4. PapersFresh'
  BY <1>1 DEF PapersFresh, ExportTypes, Unsealed, Built
<1>5. StillFinal'
  BY <1>1 DEF StillFinal, ExportReady, RunInv
<1>6. Unsealed'
  BY <1>1 DEF Unsealed, PapersFresh, ExportTypes, citeVars, SealedValid, AttestationValid
<1>7. CleanIsFinal'
  BY <1>1 DEF CleanIsFinal, PapersFresh, StillFinal, ExportReady, RunInv, Built, NoFile
<1>. QED  BY <1>2, <1>3, <1>4, <1>5, <1>6, <1>7 DEF ExportInv

\* The seal names the files as they are (seal_export).
LEMMA SealKeeps ==
    ASSUME Inv, ExportSeal, UNCHANGED <<drafts, complete, turnGates, decision, journalGrew, edited, citeVars>>
    PROVE  ExportInv'
<1>. USE DEF ExportSeal, Unlock
<1>1. ExportTypes /\ Covered /\ PapersFresh /\ StillFinal /\ Unsealed /\ CleanIsFinal /\ RunInv
  BY DEF Inv, ExportInv
<1>2. ExportTypes'
  <2>1. /\ seal'.att \in 0..attests /\ seal'.docx \in 0..exports
        /\ seal'.papers \in 0..exports
    <3>1. CASE AttestationValid
      <4>1. papers.build = exports /\ att.id = attests /\ attests \in Nat /\ exports \in Nat
        BY <1>1, ExportLimits DEF ExportTypes, PapersFresh, Built
      <4>2. docx.build \in 0..exports
        BY <1>1 DEF ExportTypes
      <4>3. seal' = [att |-> att.id, master |-> master,
                     papers |-> papers.build, docx |-> docx.build]
        BY <3>1
      <4>. QED  BY <4>1, <4>2, <4>3
    <3>2. CASE ~AttestationValid
      BY <1>1, <3>2 DEF ExportTypes
    <3>. QED  BY <3>1, <3>2
  <2>. QED  BY <1>1, <2>1 DEF ExportTypes, Phases
<1>3. Covered'
  BY <1>1 DEF Covered, ExportTypes
<1>4. PapersFresh'
  BY <1>1 DEF PapersFresh, ExportTypes, Unsealed, Built
<1>5. StillFinal'
  BY <1>1 DEF StillFinal, ExportReady, RunInv
<1>6. Unsealed'
  BY <1>1 DEF Unsealed, PapersFresh, ExportTypes, citeVars, SealedValid, AttestationValid
<1>7. CleanIsFinal'
  BY <1>1 DEF CleanIsFinal, PapersFresh, StillFinal, ExportReady, RunInv, Built, NoFile
<1>. QED  BY <1>2, <1>3, <1>4, <1>5, <1>6, <1>7 DEF ExportInv

\* A crash lets the lock go and leaves the files (RunLock).
LEMMA DiesKeeps ==
    ASSUME Inv, ExportDies, UNCHANGED <<drafts, complete, turnGates, decision, journalGrew, edited, citeVars>>
    PROVE  ExportInv'
<1>. USE DEF ExportDies, Unlock
<1>1. ExportTypes /\ Covered /\ PapersFresh /\ StillFinal /\ Unsealed /\ CleanIsFinal /\ RunInv
  BY DEF Inv, ExportInv
<1>2. ExportTypes'
  BY <1>1, ExportLimits DEF ExportTypes, Phases, NoFile, Built, PapersFresh
<1>3. Covered'
  BY <1>1 DEF Covered, ExportTypes
<1>4. PapersFresh'
  BY <1>1 DEF PapersFresh, ExportTypes, Unsealed, Built
<1>5. StillFinal'
  BY <1>1 DEF StillFinal, ExportReady, RunInv
<1>6. Unsealed'
  BY <1>1 DEF Unsealed, PapersFresh, ExportTypes, citeVars, SealedValid, AttestationValid
<1>7. CleanIsFinal'
  BY <1>1 DEF CleanIsFinal, PapersFresh, StillFinal, ExportReady, RunInv, Built, NoFile
<1>. QED  BY <1>2, <1>3, <1>4, <1>5, <1>6, <1>7 DEF ExportInv

\* An attestation commits to the drafts and the resolved decisions as they are
\* (attest).
LEMMA AttestKeeps ==
    ASSUME Inv, Attest,
           UNCHANGED <<drafts, complete, turnGates, decision, edited, ledger, queue,
                       curated, filing, supported, gate, pass>>
    PROVE  Inv'
<1>. USE DEF Attest
<1>1. ExportTypes /\ Covered /\ PapersFresh /\ StillFinal /\ Unsealed /\ CleanIsFinal
  BY DEF Inv, ExportInv
<1>2. RunInv'
  BY DEF Inv, RunInv
<1>3. CiteTypes' /\ FoundIsQueued' /\ ResearchIsQueued'
  BY DEF Inv, CiteInv, CiteTypes, FoundIsQueued, ResearchIsQueued
<1>4. ExportTypes'
  <2>1. attests' \in 0..MaxAttests /\ attests' = attests + 1 /\ att'.id = attests'
    BY <1>1, ExportLimits DEF ExportTypes
  <2>2. seal.att \in 0..attests'
    BY <1>1, <2>1 DEF ExportTypes
  <2>. QED  BY <1>1, <2>1, <2>2 DEF ExportTypes
<1>5. Covered'
  BY DEF Covered
<1>6. export = "idle" /\ export' = "idle"
  BY <1>1 DEF ExportTypes
<1>7. PapersFresh' /\ StillFinal' /\ Unsealed'
  BY <1>6 DEF PapersFresh, StillFinal, Unsealed
<1>8. CleanIsFinal'
  BY <1>1 DEF CleanIsFinal
<1>. QED  BY <1>2, <1>3, <1>4, <1>5, <1>7, <1>8 DEF Inv, CiteInv, ExportInv

\* Steps that leave the run's part of the invariant alone.
LEMMA RunRests ==
    ASSUME RunInv, UNCHANGED <<drafts, complete, turnGates, decision>>,
           edited' \in BOOLEAN, journalGrew' \in BOOLEAN
    PROVE  RunInv'
BY DEF RunInv

LEMMA CiteRests ==
    ASSUME CiteInv, UNCHANGED citeVars
    PROVE  CiteInv'
BY DEF CiteInv, CiteTypes, FoundIsQueued, ResearchIsQueued, citeVars

\* Inv holds at the start.
LEMMA Initially ==
    ASSUME Init PROVE Inv
<1>. USE DEF Init
<1>0. MaxAttests \in Nat /\ MaxExports \in Nat /\ MaxDrafts \in Nat /\ NoFile \in File
  BY ExportLimits
<1>1. RunInv
  <2>1. drafts = 0 /\ turnGates = "pending" /\ decision = "none"
    BY DEF RunInit
  <2>2. complete \in BOOLEAN /\ edited \in BOOLEAN /\ journalGrew \in BOOLEAN
    BY Zenon DEF RunInit
  <2>3. drafts \in 0..MaxDrafts
    BY <1>0, <2>1
  <2>. QED  BY <2>1, <2>2, <2>3 DEF RunInv, Verdicts, Decisions
<1>2. MaxAge \in Nat
  BY LedgerConstants DEF LedgerConstants
<1>3. <<>> \in [{} -> Statuses]
  OBVIOUS
<1>4. Resting \in Passes /\ DOMAIN Resting.found = {}
  BY <1>3 DEF Passes, Found, Resting
<1>5. CiteTypes
  <2>1. [status |-> "pending", left |-> 0] \in [status : Statuses, left : 0..MaxAge]
    BY <1>2 DEF Statuses
  <2>. QED  BY <2>1, <1>4 DEF CiteInit, CiteTypes, Verdicts
<1>6. FoundIsQueued /\ ResearchIsQueued
  BY <1>4 DEF CiteInit, FoundIsQueued, ResearchIsQueued
<1>7. ExportTypes
  <2>1. master \in 0..exports /\ seal.papers \in 0..exports /\ att.master \in 0..exports
        /\ seal.att = 0 /\ seal.docx = 0 /\ att.id = 0
    BY DEF NoSeal, NoAttestation
  <2>2. docx.build = 0
    BY DEF NoFile
  <2>3. export = "idle" /\ locked = (export # "idle")
    BY Zenon DEF RunInit
  <2>4. exports = 0 /\ master = 0 /\ papers = NoFile /\ docx = NoFile /\ attests = 0
    OBVIOUS
  <2>5. exports \in 0..MaxExports /\ attests \in 0..MaxAttests
    BY <1>0, <2>4
  <2>. QED  BY <1>0, <2>1, <2>2, <2>3, <2>4, <2>5 DEF ExportTypes, Phases
<1>8. Covered /\ PapersFresh /\ StillFinal /\ Unsealed /\ CleanIsFinal
  BY DEF Covered, PapersFresh, StillFinal, Unsealed, CleanIsFinal, NoFile, NoAttestation
<1>. QED  BY <1>1, <1>5, <1>6, <1>7, <1>8 DEF Inv, CiteInv, ExportInv

\* Every step keeps Inv.
LEMMA InvStep ==
    ASSUME Inv, [Next]_vars
    PROVE  Inv'
<1>0. RunInv /\ CiteInv /\ ExportInv
  BY DEF Inv
<1>1. CASE RunStep /\ UNCHANGED <<citeVars, exportVars>>
  BY <1>0, <1>1, RunMoves, RunKeepsExport, CiteRests DEF Inv
<1>2. CASE CiteQuietly /\ UNCHANGED <<runVars, exportVars>>
  <2>1. CiteInv' /\ (ledgerGrew => ledgerGrew')
    BY <1>0, <1>2, CiteMoves
  <2>2. UNCHANGED <<drafts, complete, turnGates, decision, edited, locked, exportVars>>
        /\ journalGrew' = journalGrew
    BY <1>2 DEF runVars
  <2>3. ExportInv'
    BY <2>1, <2>2, CiteKeepsExport
  <2>4. RunInv'
    BY <1>0, <2>2, RunRests DEF RunInv
  <2>. QED  BY <2>1, <2>3, <2>4 DEF Inv
<1>3. CASE /\ CiteJournalled
           /\ UNCHANGED <<drafts, complete, turnGates, decision, edited, locked, exportVars>>
  <2>1. CiteInv' /\ (ledgerGrew => ledgerGrew')
    BY <1>0, <1>3, CiteMoves
  <2>2. journalGrew' = TRUE
    BY <1>3 DEF CiteJournalled, VerifyGate, CheckOne, CheckGates
  <2>3. ExportInv'
    BY <1>3, <2>1, <2>2, CiteKeepsExport
  <2>4. RunInv'
    BY <1>0, <1>3, <2>2, RunRests DEF RunInv
  <2>. QED  BY <2>1, <2>3, <2>4 DEF Inv
<1>4. CASE /\ Attest
           /\ UNCHANGED <<drafts, complete, turnGates, decision, edited, ledger, queue,
                          curated, filing, supported, gate, pass>>
  BY <1>4, AttestKeeps
<1>5. CASE /\ ExportStep
           /\ UNCHANGED <<drafts, complete, turnGates, decision, journalGrew, edited, citeVars>>
  <2>1. ExportInv'
    BY <1>5, OpenKeeps, PapersKeeps, JudgeKeeps, RenderKeeps, ScannedKeeps, ResidueKeeps,
       SealKeeps, DiesKeeps DEF ExportStep
  <2>2. CiteInv'
    BY <1>0, <1>5, CiteRests
  <2>3. RunInv'
    BY <1>0, <1>5, RunRests DEF RunInv
  <2>. QED  BY <2>1, <2>2, <2>3 DEF Inv
<1>6. CASE UNCHANGED vars
  <2>1. UNCHANGED runVars /\ UNCHANGED citeVars /\ UNCHANGED exportVars
    BY <1>6 DEF vars
  <2>2. CiteInv'
    BY <1>0, <2>1, CiteRests
  <2>3. RunInv'
    BY <1>0, <2>1, RunRests DEF RunInv, runVars
  <2>4. ExportInv'
    BY <2>1, CiteKeepsExport DEF runVars, citeVars
  <2>. QED  BY <2>2, <2>3, <2>4 DEF Inv
<1>. QED  BY <1>1, <1>2, <1>3, <1>4, <1>5, <1>6 DEF Next

\* The invariant of the proofs.
LEMMA Invariant == Spec => []Inv
<1>1. Init => Inv
  BY Initially
<1>2. Inv /\ [Next]_vars => Inv'
  BY InvStep
<1>. QED  BY <1>1, <1>2, PTL DEF Spec

-----------------------------------------------------------------------------
\* The run's papers, the ledger, the research queue, the verifiers, the attestation and
\* the seal keep their types and their relations, for all authorities, verifiers and
\* bounds (Attestation, ExportSeal, VerificationRecord, ResearchRequest).
THEOREM TypeCorrect == Spec => []TypeOK
<1>1. Inv => TypeOK
  BY Zenon DEF Inv, RunInv, CiteInv, CiteTypes, ExportInv, ExportTypes, TypeOK
<1>. QED  BY <1>1, Invariant, PTL

\* A valid attestation covers the drafts and the decisions of now (attest,
\* _attestation_state).
THEOREM AttestedIsUnchanged == Spec => []ValidMeansUnchanged
<1>1. Inv => ValidMeansUnchanged
  BY DEF Inv, ExportInv, Covered, ValidMeansUnchanged, AttestationValid
<1>. QED  BY <1>1, Invariant, PTL

\* A clean DOCX is the final text, whatever verification, edits, attestations and
\* crashes come between (_retire_clean_docx, _export_run_locked).
THEOREM CleanStaysFinal == Spec => []CleanIsFinal
<1>1. Inv => CleanIsFinal
  BY DEF Inv, ExportInv
<1>. QED  BY <1>1, Invariant, PTL

\* Research is never asked for without a request in the queue (verify_all,
\* fulfill_research_request).
THEOREM ResearchHasRequest == Spec => []ResearchIsQueued
<1>1. Inv => ResearchIsQueued
  BY DEF Inv, CiteInv
<1>. QED  BY <1>1, Invariant, PTL

\* No step rewrites the files of an intact sealed generation (_existing_sealed_result):
\* an export opens only without one, and what it builds is newer than any seal.
THEOREM SealedStays == Spec => SealedNeverRewritten
<1>1. ASSUME Inv, [Next]_vars, SealedValid
      PROVE  UNCHANGED <<master, papers, docx>>
  <2>1. CASE UNCHANGED <<master, papers, docx>>
    BY <2>1
  <2>2. CASE ExportStep
    <3>1. PapersFresh /\ Unsealed
      BY <1>1 DEF Inv, ExportInv
    <3>2. export # "building" /\ export \notin {"judging", "rendering", "scanning", "sealing"}
      BY <1>1, <3>1 DEF PapersFresh, Unsealed, SealedValid, Built
    <3>3. ~ExportOpen
      BY <1>1 DEF ExportOpen, NeedsBuild
    <3>. QED
      BY <2>2, <3>2, <3>3 DEF ExportStep, ExportPapers, ExportJudge, ExportRender,
         ExportScanned, ExportResidue, ExportSeal, ExportDies, Phase
  <2>3. CASE Attest
    BY <2>3 DEF Attest
  <2>. QED  BY <1>1, <2>1, <2>2, <2>3 DEF Next, vars, exportVars
<1>2. Inv /\ [Next]_vars => [SealedValid => UNCHANGED <<master, papers, docx>>]_vars
  BY <1>1
<1>. QED  BY <1>2, Invariant, PTL DEF Spec, SealedNeverRewritten
=============================================================================
