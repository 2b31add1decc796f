--------------------------- MODULE CitationLedger ---------------------------
(***************************************************************************)
(* Whether a cited authority exists: the append-only verification ledger   *)
(* with its expiry, the research queue for what the free services cannot   *)
(* look up, and the citation gate.  None of it runs under the run lock,    *)
(* but for the journalled proposition checks.                              *)
(*                                                                         *)
(* The gate that export reads is the latest one on the journal: of the     *)
(* existence pass (cite verify) or of the proposition checks (cite check). *)
(***************************************************************************)
EXTENDS ReviewedRun, FiniteSets

CONSTANTS
    Lookup,         \* cases: CourtListener looks them up, and what they are cited for is checked
    Verifiers,      \* cite verify processes
    MaxAge,         \* days a verified record counts
    MaxCommands     \* bound: commands (verify, fulfill, export) at a time

ASSUME LedgerConstants == Lookup \subseteq Authorities /\ {MaxAge, MaxCommands} \subseteq Nat

VARIABLES
    ledger,         \* latest record of each authority, and the days it has left
    ledgerGrew,     \* a record was appended since the latest attestation
    queue,          \* research request of each authority
    curated,        \* authorities with a file under law/curated
    filing,         \* authorities whose fulfilment is half done
    supported,      \* verdict of the proposition checks
    gate,           \* latest citation gate on the journal
    pass            \* what each verifier is doing

citeVars == <<ledger, ledgerGrew, queue, curated, filing, supported, gate, pass>>

Resting == [on |-> FALSE, cites |-> {}, found |-> <<>>]

\* no record is as good as a pending one
Statuses == {"verified", "failed", "pending", "research"}

Commands ==
    Cardinality({v \in Verifiers : pass[v].on}) + Cardinality(filing) + One(locked)

MayStart == Commands < MaxCommands

Existing(cited) == {c \in cited : ledger[c].status = "verified"}

\* citation_gate
GateOf(cited) ==
    CASE \E c \in cited : ledger[c].status = "failed" -> "fail"
      [] Existing(cited) = cited -> "pass"
      [] OTHER -> "pending"

\* citation_export_gate: existence, and support of the cases that exist
Combined ==
    LET cited == Cites[drafts]
        cases == Existing(cited) \cap Lookup
    IN CASE GateOf(cited) = "fail" \/ \E c \in cases : supported[c] = "no" -> "fail"
         [] GateOf(cited) = "pass" /\ \A c \in cases : supported[c] = "yes" -> "pass"
         [] OTHER -> "pending"

\* append of a verification record
Recorded(c, status) ==
    /\ ledgerGrew' = TRUE
    /\ ledger' = [ledger EXCEPT ![c] =
          [status |-> status, left |-> IF status = "verified" THEN MaxAge ELSE 0]]

(***************************************************************************)
(* cite verify                                                             *)
(***************************************************************************)

\* a cached verdict other than pending is not looked up again
Uncached(cited) == {c \in cited : ledger[c].status = "pending"}

Outcomes(c) ==
    CASE c \in curated -> {"verified"}
      [] c \in Lookup \ curated -> {"verified", "failed", "pending"}
      [] OTHER -> {"research"}

\* the verdict gets no request
Unrouted(found) == queue

\* what cannot be looked up goes to the research queue, unless it is open there
Routed(found) ==
    [c \in Authorities |->
        IF c \in DOMAIN found /\ found[c] = "research" THEN "open" ELSE queue[c]]

\* the citations of the operative drafts are read, then looked up
VerifyLookUp(v) ==
    /\ MayStart /\ pass[v] = Resting /\ drafts > 0
    /\ \E found \in [Uncached(Cites[drafts]) -> Statuses] :
          /\ \A c \in DOMAIN found : found[c] \in Outcomes(c)
          /\ queue' = Routed(found)
          /\ pass' = [pass EXCEPT ![v] = [on |-> TRUE, cites |-> Cites[drafts], found |-> found]]
    /\ UNCHANGED <<ledger, ledgerGrew, curated, filing, supported, gate>>

VerifyRecord(v) ==
    /\ pass[v].on
    /\ \E c \in DOMAIN pass[v].found :
          /\ Recorded(c, pass[v].found[c])
          /\ pass' = [pass EXCEPT ![v].found =
                         [d \in DOMAIN pass[v].found \ {c} |-> pass[v].found[d]]]
    /\ UNCHANGED <<queue, curated, filing, supported, gate>>

\* the gate of the citations read at the start, on the ledger as it is now
VerifyGate(v) ==
    /\ pass[v].on /\ DOMAIN pass[v].found = {}
    /\ gate' = GateOf(pass[v].cites)
    /\ journalGrew' = TRUE
    /\ pass' = [pass EXCEPT ![v] = Resting]
    /\ UNCHANGED <<ledger, ledgerGrew, queue, curated, filing, supported>>

\* killed, or stopped by an error
VerifyDies(v) ==
    /\ pass[v].on
    /\ pass' = [pass EXCEPT ![v] = Resting]
    /\ UNCHANGED <<ledger, ledgerGrew, queue, curated, filing, supported, gate>>

(***************************************************************************)
(* research fulfill                                                        *)
(***************************************************************************)

\* the file is copied and the request closed
FulfillFile(c) ==
    /\ MayStart /\ c \notin filing /\ queue[c] # "none"
    /\ curated' = curated \cup {c}
    /\ queue' = [queue EXCEPT ![c] = "fulfilled"]
    /\ filing' = filing \cup {c}
    /\ UNCHANGED <<ledger, ledgerGrew, supported, gate, pass>>

FulfillRecord(c) ==
    /\ c \in filing
    /\ Recorded(c, "verified")
    /\ filing' = filing \ {c}
    /\ UNCHANGED <<queue, curated, supported, gate, pass>>

FulfillDies(c) ==
    /\ c \in filing /\ filing' = filing \ {c}
    /\ UNCHANGED <<ledger, ledgerGrew, queue, curated, supported, gate, pass>>

(***************************************************************************)
(* cite check: does the authority support what the draft says it does      *)
(***************************************************************************)

\* one proposition: a paid and journalled turn, under the run lock
CheckOne ==
    /\ complete /\ ~locked
    /\ \E c \in Existing(Cites[drafts]) \cap Lookup, v \in {"yes", "no"} :
          /\ supported[c] = "none"
          /\ supported' = [supported EXCEPT ![c] = v]
    /\ journalGrew' = TRUE
    /\ UNCHANGED <<ledger, ledgerGrew, queue, curated, filing, gate, pass>>

\* the end of a pass over the propositions: the proposition gate, and the
\* combined one.  Some may be unchecked: no text to be had, or the cap met.
CheckGates ==
    /\ complete
    /\ gate' = Combined
    /\ journalGrew' = TRUE
    /\ UNCHANGED <<ledger, ledgerGrew, queue, curated, filing, supported, pass>>

\* fold_ledger: a verified record of more than MaxAge days reads as pending
Aged(r) ==
    IF r.status # "verified" THEN r
    ELSE IF r.left = 0 THEN [r EXCEPT !.status = "pending"]
    ELSE [r EXCEPT !.left = @ - 1]

\* each command reads the clock once; none of them runs past midnight here
NextDay ==
    /\ Commands = 0
    /\ ledger' = [c \in Authorities |-> Aged(ledger[c])]
    /\ UNCHANGED <<ledgerGrew, queue, curated, filing, supported, gate, pass>>

CiteInit ==
    /\ ledgerGrew = FALSE /\ curated = {} /\ filing = {} /\ gate = "pending"
    /\ ledger = [c \in Authorities |-> [status |-> "pending", left |-> 0]]
    /\ queue = [c \in Authorities |-> "none"]
    /\ supported = [c \in Authorities |-> "none"]
    /\ pass = [v \in Verifiers |-> Resting]

\* steps that leave the journal alone
CiteQuietly ==
    \/ \E v \in Verifiers : VerifyLookUp(v) \/ VerifyRecord(v) \/ VerifyDies(v)
    \/ \E c \in Authorities : FulfillFile(c) \/ FulfillRecord(c) \/ FulfillDies(c)
    \/ NextDay

\* steps that append to it
CiteJournalled == (\E v \in Verifiers : VerifyGate(v)) \/ CheckOne \/ CheckGates
=============================================================================
