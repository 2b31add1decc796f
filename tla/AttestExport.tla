---------------------------- MODULE AttestExport ----------------------------
(***************************************************************************)
(* The attorney's attestation and the clean export it allows.  attest      *)
(* commits to the master, the ledger, the journal and the decisions as     *)
(* they are; an export builds the deliverables under the run lock, decides *)
(* whether they are clean, renders the DOCX and seals the whole set.       *)
(* Citation verification, edits of matter.yaml and time do not wait for    *)
(* the lock, and an export may die at any step.                            *)
(***************************************************************************)
EXTENDS CitationLedger

CONSTANTS
    MaxAttests,     \* bound: attestations
    MaxExports      \* bound: exports

ASSUME ExportBounds == {MaxAttests, MaxExports} \subseteq Nat

VARIABLES
    exports,        \* exports begun; each leaves its number on what it builds
    export,         \* what the export that holds the lock is doing
    master,         \* the export that built master.md, or 0
    papers,         \* the set masters, reports and logs
    docx,           \* the clean DOCX
    attests,        \* attestations recorded
    att,            \* the latest one
    seal            \* the latest export seal

exportVars == <<exports, export, master, papers, docx, attests, att, seal>>
vars == <<runVars, citeVars, exportVars>>

NoFile == [build |-> 0, drafts |-> 0]
NoAttestation == [id |-> 0, master |-> 0, drafts |-> 0]
NoSeal == [att |-> 0, master |-> 0, papers |-> 0, docx |-> 0]

\* files built now from the operative drafts
Built == [build |-> exports, drafts |-> drafts]

\* the commitments without the journal
ValidWithoutJournal ==
    /\ att.id # 0 /\ ~edited
    /\ master = att.master /\ ~ledgerGrew

\* _attestation_state
AttestationValid ==
    /\ att.id # 0 /\ ~edited
    /\ master = att.master
    /\ ~ledgerGrew /\ ~journalGrew

\* _export_seal_state: the seal is of this attestation and of these files
SealedValid ==
    /\ AttestationValid
    /\ seal = [att |-> att.id, master |-> master,
               papers |-> papers.build, docx |-> docx.build]

\* a ledger that forgets the turn gates
ReadyWithoutTurnGates ==
    AttestationValid /\ gate = "pass" /\ decision \in {"none", "fits"}

\* gate_ledger.export_ready
ExportReady ==
    /\ AttestationValid /\ gate = "pass" /\ turnGates = "pass"
    /\ decision \in {"none", "fits"}

\* _require_downloadable, for the clean DOCX
Downloadable == docx.build # 0 /\ ExportReady /\ SealedValid

(***************************************************************************)
(* attest                                                                  *)
(***************************************************************************)

\* the master is taken as it is, however old
Attest ==
    /\ ~locked /\ attests < MaxAttests
    /\ ~edited /\ decision # "open" /\ master # 0
    /\ attests' = attests + 1
    /\ att' = [id |-> attests + 1, master |-> master, drafts |-> drafts]
    /\ journalGrew' = FALSE /\ ledgerGrew' = FALSE
    /\ UNCHANGED <<exports, export, master, papers, docx, seal, locked>>

(***************************************************************************)
(* export                                                                  *)
(***************************************************************************)

Phase(from, to) == export = from /\ export' = to

\* an export that does not look for a sealed generation
Rebuilds == TRUE

\* an intact sealed generation is returned, or refused when the gates no longer
\* pass; with --force-draft it gets DRAFT copies.  Nothing of it is rewritten.
NeedsBuild == ~SealedValid

\* an attested master is kept, any other is built anew
ExportOpen ==
    /\ MayStart /\ ~locked /\ exports < MaxExports /\ NeedsBuild
    /\ export' = "building"
    /\ exports' = exports + 1
    /\ locked' = TRUE
    /\ master' = IF AttestationValid THEN master ELSE exports + 1
    /\ UNCHANGED <<papers, docx, attests, att, seal>>

ExportPapers ==
    /\ Phase("building", "judging")
    /\ papers' = Built
    /\ UNCHANGED <<exports, master, docx, attests, att, seal, locked>>

Unlock == export' = "idle" /\ locked' = FALSE

\* qualifies_clean: if not, a clean DOCX of an earlier export is retired, and
\* DRAFT copies are all that follows.  Without pandoc the export ends here too,
\* with no seal.
ExportJudge ==
    /\ export = "judging"
    /\ docx' = IF ExportReady THEN docx ELSE NoFile
    /\ \/ ExportReady /\ export' = "rendering" /\ UNCHANGED locked
       \/ Unlock
    /\ UNCHANGED <<exports, master, papers, attests, att, seal>>

\* with --force-draft only DRAFT copies are rendered
ExportRender ==
    /\ Phase("rendering", "scanning")
    /\ docx' \in {papers, docx}
    /\ UNCHANGED <<exports, master, papers, attests, att, seal, locked>>

\* the residue scan passes
ExportScanned ==
    /\ Phase("scanning", "sealing")
    /\ UNCHANGED <<exports, master, papers, docx, attests, att, seal, locked>>

\* or it finds residue, and no clean DOCX stays
ExportResidue ==
    /\ export = "scanning" /\ Unlock
    /\ docx' = NoFile
    /\ UNCHANGED <<exports, master, papers, attests, att, seal>>

\* the attestation is checked once more, and the artifacts are sealed, whether
\* or not this export rendered a clean DOCX
ExportSeal ==
    /\ export = "sealing" /\ Unlock
    /\ seal' = IF AttestationValid
               THEN [att |-> att.id, master |-> master,
                     papers |-> papers.build, docx |-> docx.build]
               ELSE seal
    /\ UNCHANGED <<exports, master, papers, docx, attests, att>>

ExportDies ==
    /\ export # "idle" /\ Unlock
    /\ UNCHANGED <<exports, master, papers, docx, attests, att, seal>>

ExportStep ==
    \/ ExportOpen \/ ExportPapers \/ ExportJudge \/ ExportRender
    \/ ExportScanned \/ ExportResidue \/ ExportSeal \/ ExportDies

Init ==
    /\ RunInit /\ CiteInit
    /\ exports = 0 /\ export = "idle"
    /\ master = 0 /\ papers = NoFile /\ docx = NoFile
    /\ attests = 0 /\ att = NoAttestation /\ seal = NoSeal

Next ==
    \/ RunStep /\ UNCHANGED <<citeVars, exportVars>>
    \/ CiteQuietly /\ UNCHANGED <<runVars, exportVars>>
    \/ /\ CiteJournalled
       /\ UNCHANGED <<drafts, complete, turnGates, decision, edited, locked, exportVars>>
    \/ /\ Attest
       /\ UNCHANGED <<drafts, complete, turnGates, decision, edited, ledger, queue,
                      curated, filing, supported, gate, pass>>
    \/ /\ ExportStep
       /\ UNCHANGED <<drafts, complete, turnGates, decision, journalGrew, edited, citeVars>>

Spec == Init /\ [][Next]_vars

-----------------------------------------------------------------------------
File == [build : 0..MaxExports, drafts : 0..MaxDrafts]

\* The state is well typed (Attestation, ExportSeal, VerificationRecord,
\* ResearchRequest, GateEvaluated).
TypeOK ==
    /\ drafts \in 0..MaxDrafts /\ complete \in BOOLEAN /\ turnGates \in Verdicts
    /\ decision \in Decisions /\ {journalGrew, ledgerGrew} \subseteq BOOLEAN /\ edited \in BOOLEAN
    /\ locked = (export # "idle")
    /\ ledger \in [Authorities -> [status : Statuses, left : 0..MaxAge]]
    /\ queue \in [Authorities -> {"none", "open", "fulfilled"}]
    /\ curated \subseteq Authorities /\ filing \subseteq Authorities
    /\ supported \in [Authorities -> {"none", "yes", "no"}] /\ gate \in Verdicts
    /\ exports \in 0..MaxExports
    /\ master \in 0..exports /\ {papers, docx} \subseteq File
    /\ attests \in 0..MaxAttests /\ att.id = attests
    /\ seal.att \in 0..attests /\ seal.docx \in 0..exports

\* As long as the attestation is valid, nothing the attorney signed for has
\* changed, although nobody has to tell the attestation of a change: the drafts,
\* the decisions and the ledger are the committed ones, and no gate is open
\* (attest, _attestation_state).
ValidMeansUnchanged ==
    AttestationValid => drafts = att.drafts /\ decision # "open" /\ master = att.master

\* A clean DOCX in the deliverables, downloadable or not, is the final text: it
\* renders the operative drafts and the attorney's decisions, and no later turn
\* can change either (_retire_clean_docx, _export_run_locked).
CleanIsFinal ==
    docx.build # 0 =>
       /\ complete /\ turnGates = "pass"
       /\ docx.drafts = drafts /\ decision \in {"none", "fits"}

\* An intact sealed generation is never rewritten: no step of an export, of a
\* verification or of a crash changes one of its files (_existing_sealed_result).
SealedNeverRewritten == [][SealedValid => UNCHANGED <<master, papers, docx>>]_vars

\* A verdict that sends an authority to research is never without a request that
\* a human can fulfil, whatever dies between the two files (verify_all,
\* fulfill_research_request).
ResearchIsQueued ==
    \A c \in Authorities : ledger[c].status = "research" => queue[c] # "none"

\* README, Export citation gate: a clean DOCX is served only if the ledger holds
\* every authority its drafts cite as verified.
CleanCitesVerified == Downloadable => \A c \in Cites[drafts] : ledger[c].status = "verified"
=============================================================================
