------------------------------ MODULE CorpusIntake ------------------------------
(***************************************************************************)
(* The corpus of a matter: documents are ingested from folders, tagged by  *)
(* a person, and, when their format needs it, converted by a protected     *)
(* service.  Three things are on disk and none is written together with    *)
(* another: the manifest (one file, under its lock), the normalized text   *)
(* of a document, and the write-once receipt of a conversion.  A document  *)
(* is named by its content, but what becomes of it follows the extension   *)
(* it came with: the same bytes may come again under another one.          *)
(***************************************************************************)
EXTENDS Naturals, FiniteSets

CONSTANTS
  Docs,       \* contents of documents
  Forms,      \* extensions that a file may come with
  Kind,       \* what the bytes are under each: "plain", "convertible", "manual", "huge"
  Texts,      \* what a converter may make of a document
  PlainText,  \* what the normalizer of each extension makes of a plain one
  Images,     \* the releases of the converter
  Calls,      \* what a person, or a tags file, says of a document
  MaxIntake   \* bound: ingests, tags, releases and conversions in a behaviour

Absent   == "absent"          \* of a text
NoEntry  == [status |-> "none"]  \* of a document
Unknown  == "unreviewed"
CorpusIdle == [at |-> "idle"]

AnyText == Texts \cup {PlainText[k] : k \in Forms}

ASSUME KindAssumption ==
  /\ Kind \in [Docs -> [Forms -> {"plain", "convertible", "manual", "huge"}]]
  /\ \A d \in Docs : \A j, k \in Forms : Kind[d][j] = "huge" => Kind[d][k] = "huge"
ASSUME TextsAssumption  == Absent \notin AnyText
ASSUME CallsAssumption  == Calls \subseteq [role: BOOLEAN, privileged: {Unknown, "yes", "no"}]
ASSUME MaxIntakeAssumption == MaxIntake \in Nat

VARIABLES
  manifest,   \* per document: its entry, or NoEntry
  originals,  \* per document: the extensions of its files in corpus/originals
  text,       \* per document: corpus/normalized/<doc>.md, or Absent
  receipts,   \* corpus/conversions/*.json
  image,      \* the release the converter is configured with
  conv,       \* per document: where its conversion is (one at a time: its lock)
  intakes

corpusVars == <<manifest, originals, text, receipts, image, conv, intakes>>

Status  == {"ok", "needs_conversion", "too_large"}
Entries == [status: Status, form: Forms, role: BOOLEAN, privileged: {Unknown, "yes", "no"}]

\* Only a normalized document with both calls of a person may enter a run.
RunVisible(e) == e # NoEntry /\ e.status = "ok" /\ e.role /\ e.privileged # Unknown

\* What a capture of the file's bytes comes to before anything is normalized.
Triage(d, form) ==
  CASE Kind[d][form] = "plain" -> "ok"
    [] Kind[d][form] = "huge"  -> "too_large"
    [] OTHER                   -> "needs_conversion"

\* Only an unsupported format goes to the converter; a scan, a password or a
\* corrupt file needs a person first.
Convertible(d) ==
  /\ manifest[d] # NoEntry
  /\ \/ manifest[d].status = "ok"
     \/ manifest[d].status = "needs_conversion" /\ Kind[d][manifest[d].form] = "convertible"

Tagged(e, call) ==
  [e EXCEPT !.role = @ \/ call.role,
            !.privileged = IF call.privileged = Unknown THEN @ ELSE call.privileged]

\* A new entry keeps what a person said of an earlier one.
CarryPriorTags(d, form, call) ==
  LET fresh == [status |-> Triage(d, form), form |-> form, role |-> FALSE, privileged |-> Unknown]
  IN  Tagged(IF manifest[d] = NoEntry
             THEN fresh
             ELSE [manifest[d] EXCEPT !.status = fresh.status, !.form = form], call)

\* A folder gives an extension to each document in it.  Two copies of one document
\* under two extensions are two folders.
Folders == UNION {[docs -> Forms] : docs \in SUBSET Docs \ {{}}}

\* While the folder is walked each original is kept, and the text of a plain
\* document is written over whatever text is there.
Captured(folder) ==
  [d \in Docs |-> IF d \in DOMAIN folder THEN originals[d] \cup {folder[d]} ELSE originals[d]]

Normalized(folder) ==
  [d \in Docs |-> IF d \in DOMAIN folder /\ Triage(d, folder[d]) = "ok"
                 THEN PlainText[folder[d]]
                 ELSE text[d]]

CorpusSpend == intakes < MaxIntake /\ intakes' = intakes + 1

-----------------------------------------------------------------------------
CorpusInit ==
  /\ manifest = [d \in Docs |-> NoEntry]
  /\ originals = [d \in Docs |-> {}]
  /\ text = [d \in Docs |-> Absent]
  /\ receipts = {}
  /\ image \in Images
  /\ conv = [d \in Docs |-> CorpusIdle]
  /\ intakes = 0

\* One folder under one hold of the manifest lock; the manifest is saved at the end.
Ingest(folder, call) ==
  /\ CorpusSpend
  /\ manifest' = [d \in Docs |-> IF d \in DOMAIN folder
                                THEN CarryPriorTags(d, folder[d], call)
                                ELSE manifest[d]]
  /\ originals' = Captured(folder)
  /\ text' = Normalized(folder)
  /\ UNCHANGED <<receipts, image, conv>>

\* A crash before that leaves files and no entry, and so does an ingest under way.
IngestDies(folder) ==
  /\ CorpusSpend
  /\ originals' = Captured(folder)
  /\ text' = Normalized(folder)
  /\ UNCHANGED <<manifest, receipts, image, conv>>

Tag(d, call) ==
  /\ manifest[d] # NoEntry
  /\ CorpusSpend
  /\ manifest' = [manifest EXCEPT ![d] = Tagged(@, call)]
  /\ UNCHANGED <<originals, text, receipts, image, conv>>

\* The operator deploys another reviewed release.
Release(i) ==
  /\ i # image
  /\ CorpusSpend
  /\ image' = i
  /\ UNCHANGED <<manifest, originals, text, receipts, conv>>

-----------------------------------------------------------------------------
(* A conversion, under the document's own lock: it holds no other until it *)
(* promotes the document.                                                  *)

\* A receipt names the document, the format it was converted from and the release.
ReceiptsOf(d) == {r \in receipts : r.doc = d /\ r.form = manifest[d].form /\ r.image = image}

Asks(d) ==
  conv' = [conv EXCEPT ![d] = [at |-> "asked", form |-> manifest[d].form, image |-> image]]

\* Mutant: a receipt is trusted without a look at the text.
RecoverUnchecked(d) ==
  /\ conv[d] = CorpusIdle /\ Convertible(d)
  /\ ReceiptsOf(d) # {}
  /\ CorpusSpend
  /\ conv' = [conv EXCEPT ![d] = [at |-> "vouched"]]
  /\ UNCHANGED <<manifest, originals, text, receipts, image>>

\* A receipt of this very conversion must vouch for the text that is there.
Recover(d) ==
  /\ conv[d] = CorpusIdle /\ Convertible(d)
  /\ \E r \in ReceiptsOf(d) : r.text = text[d]
  /\ CorpusSpend
  /\ conv' = [conv EXCEPT ![d] = [at |-> "vouched"]]
  /\ UNCHANGED <<manifest, originals, text, receipts, image>>

\* Mutant: a document that runs already read is converted anew.
AskAnyway(d) ==
  /\ conv[d] = CorpusIdle /\ Convertible(d)
  /\ ReceiptsOf(d) = {}
  /\ CorpusSpend
  /\ Asks(d)
  /\ UNCHANGED <<manifest, originals, text, receipts, image>>

AskConverter(d) ==
  /\ conv[d] = CorpusIdle /\ Convertible(d)
  /\ manifest[d].status # "ok" /\ ReceiptsOf(d) = {}
  /\ CorpusSpend
  /\ Asks(d)
  /\ UNCHANGED <<manifest, originals, text, receipts, image>>

ConverterAnswers(d, t) ==
  /\ conv[d].at = "asked"
  /\ text' = [text EXCEPT ![d] = t]
  /\ conv' = [conv EXCEPT ![d].at = "written"]
  /\ UNCHANGED <<manifest, originals, receipts, image, intakes>>

\* The receipt is of the text as it is read back, which an ingest may have replaced.
WriteReceipt(d) ==
  /\ conv[d].at = "written"
  /\ receipts' = receipts \cup
       {[doc |-> d, form |-> conv[d].form, image |-> conv[d].image, text |-> text[d]]}
  /\ conv' = [conv EXCEPT ![d] = [at |-> "vouched"]]
  /\ UNCHANGED <<manifest, originals, text, image, intakes>>

\* The entry is read again under the manifest lock, with the tags it has by then.
Promoted(d) ==
  IF manifest[d].status = "needs_conversion"
  THEN [manifest EXCEPT ![d].status = "ok"]
  ELSE manifest

Promote(d) ==
  /\ conv[d].at = "vouched"
  /\ manifest' = Promoted(d)
  /\ conv' = [conv EXCEPT ![d] = CorpusIdle]
  /\ UNCHANGED <<originals, text, receipts, image, intakes>>

\* The converter refuses, answers nonsense, or the process dies.
ConversionEnds(d) ==
  /\ conv[d] # CorpusIdle
  /\ conv' = [conv EXCEPT ![d] = CorpusIdle]
  /\ UNCHANGED <<manifest, originals, text, receipts, image, intakes>>

CorpusNext ==
  \/ \E folder \in Folders, call \in Calls : Ingest(folder, call)
  \/ \E folder \in Folders : IngestDies(folder)
  \/ \E d \in Docs, call \in Calls : Tag(d, call)
  \/ \E i \in Images : Release(i)
  \/ \E d \in Docs : \/ Recover(d) \/ AskConverter(d) \/ WriteReceipt(d)
                     \/ Promote(d) \/ ConversionEnds(d)
  \/ \E d \in Docs, t \in Texts : ConverterAnswers(d, t)

-----------------------------------------------------------------------------
CorpusTypeOK ==
  /\ manifest \in [Docs -> Entries \cup {NoEntry}]
  /\ originals \in [Docs -> SUBSET Forms]
  /\ text \in [Docs -> AnyText \cup {Absent}]
  /\ receipts \subseteq [doc: Docs, form: Forms, image: Images, text: AnyText]
  /\ image \in Images
  /\ conv \in [Docs -> {CorpusIdle, [at |-> "vouched"]} \cup
                      [at: {"asked", "written"}, form: Forms, image: Images]]
  /\ intakes \in 0 .. MaxIntake

\* The document has only ever come with this extension.
OnlyAs(d, form) == originals[d] = {form}

\* A document that was converted and is offered to runs has a receipt for the
\* very text that is there, whatever crashed, was ingested again or was released
\* in between (convert_corpus_document, promote_converted_document), unless the
\* same bytes came under another extension too: their text is in the same file.
ReceiptVouches ==
  \A d \in Docs : \A form \in Forms :
    /\ OnlyAs(d, form) /\ Kind[d][form] = "convertible"
    /\ manifest[d] # NoEntry /\ manifest[d].status = "ok"
    => \E r \in receipts : r.doc = d /\ r.text = text[d]

\* While a document is offered to runs its text is never rewritten: facts were
\* accepted against it (write_normalized_text).  Only an ingest of the same bytes
\* under another extension does.
TextStable ==
  [][\A d \in Docs : \A form \in Forms :
       RunVisible(manifest[d]) /\ RunVisible(manifest'[d]) /\ OnlyAs(d, form)' =>
         text'[d] = text[d]]_corpusVars

\* What a person said of a document is never lost to an ingest, a conversion or a
\* later call on something else (_carry_prior_tags, promote_converted_document).
TagsKept ==
  [][\A d \in Docs : manifest[d] # NoEntry =>
       /\ manifest'[d] # NoEntry
       /\ manifest[d].role => manifest'[d].role
       /\ manifest[d].privileged # Unknown => manifest'[d].privileged # Unknown]_corpusVars

=============================================================================
