---------------------------- MODULE RunLaunchProofs ----------------------------
(***************************************************************************)
(* Proofs about the launch of a run and about what it captures.  Each part *)
(* changes its own variables only (Parts), so that its invariant is proved *)
(* against its own steps.                                                  *)
(***************************************************************************)
EXTENDS RunLaunch, TLAPS

LEMMA Parts ==
  ASSUME [Next]_vars
  PROVE  /\ [CorpusNext]_corpusVars /\ [FactNext]_factVars /\ [TaskNext]_taskVars
         /\ [MemoryNext]_memoryVars /\ [LearnNext]_learnVars /\ [ProfileNext]_profileVars
         /\ [LaunchStep /\ UNCHANGED sourceVars]_launchVars
BY DEF Next, vars, sourceVars

(***************************************************************************)
(* The corpus: an entry has the extension of one of the originals.  While  *)
(* there is one original only, a document whose text is being replaced is  *)
(* not offered to runs, and what is about to be promoted has its receipt.  *)
(***************************************************************************)

FormsHeld ==
  \A d \in Docs :
    /\ manifest[d] # NoEntry => manifest[d].form \in originals[d]
    /\ conv[d] # CorpusIdle => manifest[d] # NoEntry
    /\ conv[d].at \in {"asked", "written"} =>
         conv[d].form \in originals[d] /\ Kind[d][conv[d].form] = "convertible"
    /\ conv[d].at = "written" => text[d] # Absent

ConversionsInOrder ==
  \A d \in Docs : \A k \in Forms : OnlyAs(d, k) =>
    /\ conv[d].at \in {"asked", "written"} => manifest[d].status # "ok"
    /\ conv[d].at = "vouched" =>
         Kind[d][k] = "convertible" /\ \E r \in receipts : r.doc = d /\ r.text = text[d]

OnlyConvertible == \A r \in receipts : Kind[r.doc][r.form] = "convertible"

PlainIsWritten ==
  \A d \in Docs : \A k \in Forms :
    OnlyAs(d, k) /\ manifest[d].status = "ok" /\ Kind[d][k] = "plain" => text[d] = PlainText[k]

CorpusInv ==
  /\ CorpusTypeOK /\ FormsHeld /\ ConversionsInOrder /\ OnlyConvertible
  /\ PlainIsWritten /\ ReceiptVouches

LEMMA EntryFields ==
  /\ NoEntry.status = "none"
  /\ \A e \in Entries : /\ e # NoEntry /\ e.status \in Status /\ e.form \in Forms
                        /\ e.role \in BOOLEAN /\ e.privileged \in {Unknown, "yes", "no"}
BY DEF NoEntry, Entries, Status

LEMMA TaggedFields ==
  ASSUME NEW e \in Entries, NEW call \in Calls
  PROVE  /\ Tagged(e, call) \in Entries
         /\ Tagged(e, call).status = e.status /\ Tagged(e, call).form = e.form
         /\ e.role => Tagged(e, call).role
         /\ e.privileged # Unknown => Tagged(e, call).privileged # Unknown
BY CallsAssumption DEF Tagged, Entries

LEMMA TriageOk ==
  ASSUME NEW d \in Docs, NEW k \in Forms
  PROVE  /\ Triage(d, k) \in Status
         /\ Triage(d, k) = "ok" <=> Kind[d][k] = "plain"
BY KindAssumption DEF Triage, Status

LEMMA CarriedFields ==
  ASSUME CorpusTypeOK, NEW d \in Docs, NEW k \in Forms, NEW call \in Calls
  PROVE  /\ CarryPriorTags(d, k, call) \in Entries
         /\ CarryPriorTags(d, k, call).status = Triage(d, k)
         /\ CarryPriorTags(d, k, call).form = k
         /\ manifest[d] # NoEntry =>
              /\ manifest[d].role => CarryPriorTags(d, k, call).role
              /\ manifest[d].privileged # Unknown =>
                   CarryPriorTags(d, k, call).privileged # Unknown
<1> DEFINE fresh == [status |-> Triage(d, k), form |-> k, role |-> FALSE, privileged |-> Unknown]
           prior == IF manifest[d] = NoEntry
                    THEN fresh
                    ELSE [manifest[d] EXCEPT !.status = fresh.status, !.form = k]
<1>1. fresh \in Entries /\ fresh.status = Triage(d, k) /\ fresh.form = k
  BY TriageOk DEF Entries
<1>2. /\ prior \in Entries /\ prior.status = Triage(d, k) /\ prior.form = k
      /\ manifest[d] # NoEntry => /\ prior.role = manifest[d].role
                                  /\ prior.privileged = manifest[d].privileged
  <2>1. CASE manifest[d] = NoEntry
    BY <1>1, <2>1
  <2>2. CASE manifest[d] # NoEntry
    <3>1. manifest[d] \in Entries
      BY <2>2 DEF CorpusTypeOK
    <3>2. fresh.status = Triage(d, k) /\ Triage(d, k) \in Status
      BY <1>1, TriageOk
    <3> HIDE DEF fresh
    <3> QED BY <2>2, <3>1, <3>2 DEF Entries
  <2> QED BY <2>1, <2>2
<1>3. CarryPriorTags(d, k, call) = Tagged(prior, call)
  BY DEF CarryPriorTags
<1> HIDE DEF prior
<1> QED BY <1>2, <1>3, TaggedFields

LEMMA CorpusStarts == CorpusInit => CorpusInv
BY MaxIntakeAssumption, EntryFields
   DEF CorpusInit, CorpusInv, CorpusTypeOK, FormsHeld, ConversionsInOrder, OnlyConvertible,
       PlainIsWritten, ReceiptVouches, CorpusIdle, OnlyAs

LEMMA FolderFields ==
  ASSUME NEW folder \in Folders
  PROVE  /\ DOMAIN folder \subseteq Docs
         /\ \A d \in DOMAIN folder : folder[d] \in Forms
BY DEF Folders

\* What a folder leaves of a document: its originals grow, and its text changes only
\* to what the normalizer makes of it.
LEMMA FolderKept ==
  ASSUME CorpusTypeOK, NEW folder \in Folders, originals' = Captured(folder),
         text' = Normalized(folder), NEW d \in Docs
  PROVE  /\ originals[d] \subseteq originals'[d]
         /\ text'[d] = Absent => text[d] = Absent
         /\ \A k \in Forms : OnlyAs(d, k)' =>
              /\ OnlyAs(d, k) \/ originals[d] = {}
              /\ d \in DOMAIN folder => folder[d] = k
              /\ Kind[d][k] # "plain" => text'[d] = text[d]
              /\ Kind[d][k] = "plain" => text'[d] \in {text[d], PlainText[k]}
              /\ d \in DOMAIN folder /\ Kind[d][k] = "plain" => text'[d] = PlainText[k]
<1>1. originals'[d] = IF d \in DOMAIN folder THEN originals[d] \cup {folder[d]} ELSE originals[d]
  BY DEF Captured
<1>2. text'[d] = IF d \in DOMAIN folder /\ Triage(d, folder[d]) = "ok"
                 THEN PlainText[folder[d]]
                 ELSE text[d]
  BY DEF Normalized
<1>3. ASSUME d \in DOMAIN folder
      PROVE  /\ folder[d] \in Forms
             /\ Triage(d, folder[d]) = "ok" <=> Kind[d][folder[d]] = "plain"
             /\ PlainText[folder[d]] # Absent
  BY <1>3, FolderFields, TriageOk, TextsAssumption DEF AnyText
<1> QED BY <1>1, <1>2, <1>3 DEF OnlyAs

LEMMA FolderTyped ==
  ASSUME CorpusTypeOK, NEW folder \in Folders, originals' = Captured(folder),
         text' = Normalized(folder)
  PROVE  /\ originals' \in [Docs -> SUBSET Forms]
         /\ text' \in [Docs -> AnyText \cup {Absent}]
<1>1. ASSUME NEW d \in DOMAIN folder
      PROVE  folder[d] \in Forms /\ PlainText[folder[d]] \in AnyText
  BY FolderFields DEF AnyText
<1> QED BY <1>1 DEF CorpusTypeOK, Captured, Normalized

LEMMA IngestKeeps ==
  ASSUME CorpusInv, NEW folder \in Folders, originals' = Captured(folder),
         text' = Normalized(folder), CorpusSpend, UNCHANGED <<receipts, image, conv>>,
         \/ manifest' = manifest
         \/ \E call \in Calls :
              manifest' = [d \in Docs |-> IF d \in DOMAIN folder
                                         THEN CarryPriorTags(d, folder[d], call)
                                         ELSE manifest[d]]
  PROVE  CorpusInv'
<1>1. CorpusTypeOK
  BY DEF CorpusInv
<1>2. /\ manifest' \in [Docs -> Entries \cup {NoEntry}]
      /\ \A d \in Docs :
           \/ manifest'[d] = manifest[d]
           \/ /\ d \in DOMAIN folder /\ manifest'[d] \in Entries
              /\ manifest'[d].status = Triage(d, folder[d])
              /\ manifest'[d].form = folder[d]
  <2>1. CASE manifest' = manifest
    BY <1>1, <2>1 DEF CorpusTypeOK
  <2>2. ASSUME NEW call \in Calls,
               manifest' = [d \in Docs |-> IF d \in DOMAIN folder
                                          THEN CarryPriorTags(d, folder[d], call)
                                          ELSE manifest[d]]
        PROVE  /\ manifest' \in [Docs -> Entries \cup {NoEntry}]
               /\ \A d \in Docs :
                    \/ manifest'[d] = manifest[d]
                    \/ /\ d \in DOMAIN folder /\ manifest'[d] \in Entries
                       /\ manifest'[d].status = Triage(d, folder[d])
                       /\ manifest'[d].form = folder[d]
    <3>1. ASSUME NEW d \in Docs
          PROVE  manifest[d] \in Entries \cup {NoEntry}
      BY <1>1 DEF CorpusTypeOK
    <3>2. ASSUME NEW d \in Docs, d \in DOMAIN folder
          PROVE  /\ CarryPriorTags(d, folder[d], call) \in Entries
                 /\ CarryPriorTags(d, folder[d], call).status = Triage(d, folder[d])
                 /\ CarryPriorTags(d, folder[d], call).form = folder[d]
      <4>1. folder[d] \in Forms
        BY <3>2, FolderFields
      <4> QED BY <1>1, <4>1, CarriedFields
    <3>3. ASSUME NEW d \in Docs
          PROVE  /\ manifest'[d] \in Entries \cup {NoEntry}
                 /\ \/ manifest'[d] = manifest[d]
                    \/ /\ d \in DOMAIN folder /\ manifest'[d] \in Entries
                       /\ manifest'[d].status = Triage(d, folder[d])
                       /\ manifest'[d].form = folder[d]
      <4>1. manifest'[d] = IF d \in DOMAIN folder
                           THEN CarryPriorTags(d, folder[d], call)
                           ELSE manifest[d]
        BY <2>2
      <4> QED BY <3>1, <3>2, <4>1
    <3>4. manifest' = [d \in Docs |-> manifest'[d]]
      BY <2>2
    <3> QED BY <3>3, <3>4
  <2> QED BY <2>1, <2>2
<1>3. CorpusTypeOK'
  BY <1>1, <1>2, FolderTyped, MaxIntakeAssumption DEF CorpusTypeOK, CorpusSpend
<1>4. FormsHeld'
  <2> SUFFICES ASSUME NEW d \in Docs
               PROVE  /\ manifest'[d] # NoEntry => manifest'[d].form \in originals'[d]
                      /\ conv[d] # CorpusIdle => manifest'[d] # NoEntry
                      /\ conv[d].at \in {"asked", "written"} =>
                           /\ conv[d].form \in originals'[d]
                           /\ Kind[d][conv[d].form] = "convertible"
                      /\ conv[d].at = "written" => text'[d] # Absent
    BY DEF FormsHeld
  <2>1. originals[d] \subseteq originals'[d] /\ (text'[d] = Absent => text[d] = Absent)
    BY <1>1, FolderKept
  <2>2. d \in DOMAIN folder => folder[d] \in originals'[d]
    BY DEF Captured
  <2> QED BY <1>2, <2>1, <2>2, EntryFields DEF CorpusInv, FormsHeld
<1>5. ASSUME NEW d \in Docs, NEW k \in Forms, OnlyAs(d, k)'
      PROVE  /\ \/ OnlyAs(d, k)
                \/ manifest[d] = NoEntry /\ conv[d] = CorpusIdle
             /\ \/ manifest'[d] = manifest[d]
                \/ d \in DOMAIN folder /\ (manifest'[d].status = "ok" <=> Kind[d][k] = "plain")
  <2>1. \/ OnlyAs(d, k)
        \/ originals[d] = {}
    BY <1>1, <1>5, FolderKept
  <2>2. d \in DOMAIN folder => folder[d] = k
    BY <1>1, <1>5, FolderKept
  <2> QED BY <1>2, <2>1, <2>2, TriageOk DEF CorpusInv, FormsHeld
<1>6. ASSUME NEW d \in Docs, NEW k \in Forms, OnlyAs(d, k)'
      PROVE  /\ Kind[d][k] # "plain" => text'[d] = text[d]
             /\ Kind[d][k] = "plain" => text'[d] \in {text[d], PlainText[k]}
             /\ d \in DOMAIN folder /\ Kind[d][k] = "plain" => text'[d] = PlainText[k]
  BY <1>1, <1>6, FolderKept
<1>7. ConversionsInOrder'
  <2> SUFFICES ASSUME NEW d \in Docs, NEW k \in Forms, OnlyAs(d, k)'
               PROVE  /\ conv[d].at \in {"asked", "written"} => manifest'[d].status # "ok"
                      /\ conv[d].at = "vouched" =>
                           /\ Kind[d][k] = "convertible"
                           /\ \E r \in receipts : r.doc = d /\ r.text = text'[d]
    BY DEF ConversionsInOrder
  <2>1. CASE conv[d] = CorpusIdle
    BY <2>1 DEF CorpusIdle
  <2>2. CASE conv[d] # CorpusIdle
    <3>1. OnlyAs(d, k)
      BY <1>5, <2>2 DEF CorpusInv, FormsHeld
    <3>2. conv[d].at \in {"asked", "written"} => Kind[d][k] = "convertible"
      BY <3>1 DEF CorpusInv, FormsHeld, OnlyAs
    <3> QED BY <1>5, <1>6, <3>1, <3>2 DEF CorpusInv, ConversionsInOrder
  <2> QED BY <2>1, <2>2
<1>8. OnlyConvertible'
  BY DEF CorpusInv, OnlyConvertible
<1>9. PlainIsWritten'
  <2> SUFFICES ASSUME NEW d \in Docs, NEW k \in Forms, OnlyAs(d, k)',
                      manifest'[d].status = "ok", Kind[d][k] = "plain"
               PROVE  text'[d] = PlainText[k]
    BY DEF PlainIsWritten
  <2>1. CASE d \in DOMAIN folder
    BY <1>6, <2>1
  <2>2. CASE d \notin DOMAIN folder
    <3>1. manifest[d].status = "ok"
      BY <1>5, <2>2
    <3>2. OnlyAs(d, k)
      BY <1>5, <3>1, EntryFields
    <3> QED BY <1>6, <3>1, <3>2 DEF CorpusInv, PlainIsWritten
  <2> QED BY <2>1, <2>2
<1>10. ReceiptVouches'
  <2> SUFFICES ASSUME NEW d \in Docs, NEW k \in Forms, OnlyAs(d, k)',
                      manifest'[d].status = "ok", Kind[d][k] = "convertible"
               PROVE  \E r \in receipts : r.doc = d /\ r.text = text'[d]
    BY DEF ReceiptVouches
  <2>1. manifest[d].status = "ok" /\ text'[d] = text[d]
    BY <1>5, <1>6
  <2>2. OnlyAs(d, k) /\ manifest[d] # NoEntry
    BY <1>5, <2>1, EntryFields
  <2> QED BY <2>1, <2>2 DEF CorpusInv, ReceiptVouches
<1> QED BY <1>3, <1>4, <1>7, <1>8, <1>9, <1>10 DEF CorpusInv

LEMMA CorpusKept ==
  ASSUME CorpusInv, [CorpusNext]_corpusVars
  PROVE  CorpusInv'
<1> USE DEF CorpusInv
<1>1. ASSUME NEW folder \in Folders, NEW call \in Calls, Ingest(folder, call)
      PROVE  CorpusInv'
  BY <1>1, IngestKeeps DEF Ingest
<1>2. ASSUME NEW folder \in Folders, IngestDies(folder)
      PROVE  CorpusInv'
  BY <1>2, IngestKeeps DEF IngestDies
<1>3. ASSUME NEW d \in Docs, NEW call \in Calls, Tag(d, call)
      PROVE  CorpusInv'
  <2>1. manifest[d] \in Entries
    BY <1>3 DEF Tag, CorpusTypeOK
  <2>2. CorpusTypeOK' /\ \A c \in Docs : /\ manifest'[c].status = manifest[c].status
                                         /\ manifest'[c] = NoEntry <=> manifest[c] = NoEntry
                                         /\ manifest[c] # NoEntry => manifest'[c].form = manifest[c].form
    BY <1>3, <2>1, TaggedFields, EntryFields, MaxIntakeAssumption DEF Tag, CorpusSpend, CorpusTypeOK
  <2>3. ReceiptVouches'
    BY <1>3, <2>2 DEF Tag, ReceiptVouches, OnlyAs
  <2>4. FormsHeld'
    BY <1>3, <2>2 DEF Tag, FormsHeld
  <2> QED BY <1>3, <2>2, <2>3, <2>4
          DEF Tag, ConversionsInOrder, OnlyConvertible, PlainIsWritten, OnlyAs
<1>4. ASSUME NEW i \in Images, Release(i)
      PROVE  CorpusInv'
  BY <1>4, MaxIntakeAssumption
     DEF Release, CorpusSpend, CorpusTypeOK, FormsHeld, ConversionsInOrder, OnlyConvertible,
         PlainIsWritten, ReceiptVouches, OnlyAs
<1>5. ASSUME NEW d \in Docs, Recover(d)
      PROVE  CorpusInv'
  <2>1. CorpusTypeOK'
    BY <1>5, MaxIntakeAssumption DEF Recover, CorpusSpend, CorpusTypeOK
  <2>2. PICK r \in receipts : r.doc = d /\ r.form = manifest[d].form /\ r.text = text[d]
    BY <1>5 DEF Recover, ReceiptsOf
  <2>3. conv' = [conv EXCEPT ![d] = [at |-> "vouched"]] /\ manifest[d] # NoEntry
    BY <1>5 DEF Recover, Convertible
  <2>4. UNCHANGED <<manifest, originals, text, receipts>>
    BY <1>5 DEF Recover
  <2>5. FormsHeld'
    BY <2>3, <2>4 DEF FormsHeld, CorpusTypeOK
  <2>6. ConversionsInOrder'
    <3> SUFFICES ASSUME NEW c \in Docs, NEW k \in Forms, OnlyAs(c, k)
                 PROVE  /\ conv'[c].at \in {"asked", "written"} => manifest[c].status # "ok"
                        /\ conv'[c].at = "vouched" =>
                             /\ Kind[c][k] = "convertible"
                             /\ \E s \in receipts : s.doc = c /\ s.text = text[c]
      BY <2>4 DEF ConversionsInOrder, OnlyAs
    <3>1. CASE c = d
      <4>1. Kind[d][k] = "convertible"
        BY <2>2, <2>3, <3>1 DEF FormsHeld, OnlyAs, OnlyConvertible
      <4> QED BY <2>2, <2>3, <3>1, <4>1 DEF CorpusTypeOK
    <3>2. CASE c # d
      BY <2>3, <3>2 DEF ConversionsInOrder, CorpusTypeOK
    <3> QED BY <3>1, <3>2
  <2> QED BY <2>1, <2>4, <2>5, <2>6 DEF OnlyConvertible, PlainIsWritten, ReceiptVouches, OnlyAs
<1>6. ASSUME NEW d \in Docs, AskConverter(d)
      PROVE  CorpusInv'
  <2>1. /\ manifest[d] \in Entries /\ manifest[d].status # "ok"
        /\ Kind[d][manifest[d].form] = "convertible"
    BY <1>6 DEF AskConverter, Convertible, CorpusTypeOK
  <2>2. CorpusTypeOK'
    BY <1>6, <2>1, MaxIntakeAssumption, EntryFields
       DEF AskConverter, Asks, CorpusSpend, CorpusTypeOK
  <2>3. FormsHeld'
    BY <1>6, <2>1, EntryFields DEF AskConverter, Asks, FormsHeld, CorpusTypeOK
  <2>4. ConversionsInOrder'
    BY <1>6, <2>1 DEF AskConverter, Asks, ConversionsInOrder, CorpusTypeOK, OnlyAs
  <2> QED BY <1>6, <2>2, <2>3, <2>4
          DEF AskConverter, OnlyConvertible, PlainIsWritten, ReceiptVouches, OnlyAs
<1>7. ASSUME NEW d \in Docs, NEW t \in Texts, ConverterAnswers(d, t)
      PROVE  CorpusInv'
  <2>1. /\ conv[d] \in [at: {"asked", "written"}, form: Forms, image: Images]
        /\ conv[d].at = "asked"
    BY <1>7 DEF ConverterAnswers, CorpusIdle, CorpusTypeOK
  <2>2. /\ conv' = [conv EXCEPT ![d].at = "written"] /\ text' = [text EXCEPT ![d] = t]
        /\ UNCHANGED <<manifest, originals, receipts, image, intakes>>
    BY <1>7 DEF ConverterAnswers
  <2>3. t \in AnyText /\ t # Absent
    BY TextsAssumption DEF AnyText
  <2>4. CorpusTypeOK'
    BY <2>1, <2>2, <2>3 DEF CorpusTypeOK
  <2>5. /\ conv'[d].at = "written" /\ conv'[d].form = conv[d].form /\ text'[d] = t
        /\ \A c \in Docs : c # d => conv'[c] = conv[c] /\ text'[c] = text[c]
    BY <2>1, <2>2 DEF CorpusTypeOK
  <2>6. FormsHeld'
    BY <2>1, <2>2, <2>3, <2>5 DEF FormsHeld, CorpusIdle
  <2>7. \A k \in Forms : OnlyAs(d, k) =>
          manifest[d].status # "ok" /\ Kind[d][k] = "convertible"
    BY <2>1 DEF ConversionsInOrder, FormsHeld, OnlyAs
  <2>8. ConversionsInOrder'
    BY <2>2, <2>5, <2>7 DEF ConversionsInOrder, OnlyAs
  <2>9. PlainIsWritten' /\ ReceiptVouches'
    BY <2>2, <2>5, <2>7 DEF PlainIsWritten, ReceiptVouches, OnlyAs
  <2> QED BY <2>2, <2>4, <2>6, <2>8, <2>9 DEF OnlyConvertible
<1>8. ASSUME NEW d \in Docs, WriteReceipt(d)
      PROVE  CorpusInv'
  <2> DEFINE receipt == [doc |-> d, form |-> conv[d].form, image |-> conv[d].image,
                         text |-> text[d]]
  <2>1. /\ conv[d] \in [at: {"asked", "written"}, form: Forms, image: Images]
        /\ conv[d].at = "written" /\ Kind[d][conv[d].form] = "convertible"
        /\ conv[d].form \in originals[d] /\ manifest[d] # NoEntry
        /\ text[d] \in AnyText
    BY <1>8 DEF WriteReceipt, CorpusIdle, CorpusTypeOK, FormsHeld
  <2>2. /\ receipt \in [doc: Docs, form: Forms, image: Images, text: AnyText]
        /\ receipts' = receipts \cup {receipt}
        /\ receipt.doc = d /\ receipt.text = text[d] /\ receipt.form = conv[d].form
    BY <1>8, <2>1 DEF WriteReceipt
  <2> HIDE DEF receipt
  <2>3. /\ conv'[d] = [at |-> "vouched"]
        /\ \A c \in Docs : c # d => conv'[c] = conv[c]
        /\ conv' \in [Docs -> {CorpusIdle, [at |-> "vouched"]} \cup
                              [at: {"asked", "written"}, form: Forms, image: Images]]
        /\ UNCHANGED <<manifest, originals, text, image, intakes>>
    BY <1>8 DEF WriteReceipt, CorpusTypeOK
  <2>4. CorpusTypeOK'
    BY <2>2, <2>3 DEF CorpusTypeOK
  <2>5. FormsHeld'
    BY <2>1, <2>3 DEF FormsHeld
  <2>6. ConversionsInOrder'
    <3> SUFFICES ASSUME NEW c \in Docs, NEW k \in Forms, OnlyAs(c, k)
                 PROVE  /\ conv'[c].at \in {"asked", "written"} => manifest[c].status # "ok"
                        /\ conv'[c].at = "vouched" =>
                             /\ Kind[c][k] = "convertible"
                             /\ \E r \in receipts' : r.doc = c /\ r.text = text[c]
      BY <2>3 DEF ConversionsInOrder, OnlyAs
    <3>1. CASE c = d
      <4>1. Kind[d][k] = "convertible"
        BY <2>1, <3>1 DEF OnlyAs
      <4> QED BY <2>2, <2>3, <3>1, <4>1
    <3>2. CASE c # d
      BY <2>2, <2>3, <3>2 DEF ConversionsInOrder
    <3> QED BY <3>1, <3>2
  <2>7. OnlyConvertible'
    BY <2>1, <2>2 DEF OnlyConvertible
  <2> QED BY <2>2, <2>3, <2>4, <2>5, <2>6, <2>7 DEF PlainIsWritten, ReceiptVouches, OnlyAs
<1>9. ASSUME NEW d \in Docs, Promote(d)
      PROVE  CorpusInv'
  <2>1. manifest[d] \in Entries
    BY <1>9, EntryFields DEF Promote, FormsHeld, CorpusTypeOK, CorpusIdle
  <2>2. /\ manifest' \in [Docs -> Entries \cup {NoEntry}]
        /\ \A c \in Docs : c # d => manifest'[c] = manifest[c]
        /\ manifest'[d] \in Entries /\ manifest'[d].form = manifest[d].form
    BY <1>9, <2>1 DEF Promote, Promoted, CorpusTypeOK, Entries, Status
  <2>3. /\ conv[d].at = "vouched" /\ conv' = [conv EXCEPT ![d] = CorpusIdle]
        /\ UNCHANGED <<originals, text, receipts, image, intakes>>
    BY <1>9 DEF Promote
  <2>4. CorpusTypeOK'
    BY <2>2, <2>3 DEF CorpusTypeOK
  <2>5. /\ conv'[d] = CorpusIdle /\ conv'[d].at = "idle"
        /\ \A c \in Docs : c # d => conv'[c] = conv[c]
    BY <2>3 DEF CorpusTypeOK, CorpusIdle
  <2>6. FormsHeld'
    BY <2>1, <2>2, <2>3, <2>5, EntryFields DEF FormsHeld
  <2>7. ConversionsInOrder'
    BY <2>2, <2>3, <2>5 DEF ConversionsInOrder, OnlyAs
  <2>8. ASSUME NEW k \in Forms, OnlyAs(d, k)
        PROVE  Kind[d][k] = "convertible" /\ \E r \in receipts : r.doc = d /\ r.text = text[d]
    BY <2>3, <2>8 DEF ConversionsInOrder
  <2>9. PlainIsWritten' /\ ReceiptVouches'
    BY <2>2, <2>3, <2>8 DEF PlainIsWritten, ReceiptVouches, OnlyAs
  <2> QED BY <2>3, <2>4, <2>6, <2>7, <2>9 DEF OnlyConvertible
<1>10. ASSUME NEW d \in Docs, ConversionEnds(d)
       PROVE  CorpusInv'
  <2>1. CorpusTypeOK' /\ FormsHeld' /\ ConversionsInOrder'
    BY <1>10 DEF ConversionEnds, CorpusTypeOK, FormsHeld, ConversionsInOrder, CorpusIdle, OnlyAs
  <2> QED BY <1>10, <2>1
          DEF ConversionEnds, OnlyConvertible, PlainIsWritten, ReceiptVouches, OnlyAs
<1>11. CASE UNCHANGED corpusVars
  BY <1>11 DEF corpusVars, CorpusTypeOK, FormsHeld, ConversionsInOrder, OnlyConvertible,
               PlainIsWritten, ReceiptVouches, OnlyAs
<1> QED BY <1>1, <1>2, <1>3, <1>4, <1>5, <1>6, <1>7, <1>8, <1>9, <1>10, <1>11 DEF CorpusNext

\* A converted document that runs may read, and whose bytes never came under another
\* extension, has the receipt of the very text that is there (convert_corpus_document).
THEOREM ReceiptsVouch == Spec => []ReceiptVouches
<1>1. Init => CorpusInv
  BY CorpusStarts DEF Init
<1>2. CorpusInv /\ [Next]_vars => CorpusInv'
  BY CorpusKept, Parts
<1>3. CorpusInv => ReceiptVouches
  BY DEF CorpusInv
<1> QED BY <1>1, <1>2, <1>3, PTL DEF Spec

\* The text of a document changes in two steps only, and neither time do runs see it
\* before and after with another text, unless a second original comes with the step.
LEMMA TextKept ==
  ASSUME CorpusInv, [CorpusNext]_corpusVars, NEW d \in Docs, RunVisible(manifest[d]),
         NEW k \in Forms, OnlyAs(d, k)'
  PROVE  text'[d] = text[d]
<1>1. manifest[d].status = "ok" /\ manifest[d] # NoEntry /\ CorpusTypeOK
  BY DEF RunVisible, CorpusInv
<1>2. manifest[d].form \in originals[d]
  BY <1>1 DEF CorpusInv, FormsHeld
<1>3. ASSUME NEW folder \in Folders, originals' = Captured(folder), text' = Normalized(folder)
      PROVE  text'[d] = text[d]
  <2>1. OnlyAs(d, k) \/ originals[d] = {}
    BY <1>1, <1>3, FolderKept
  <2>2. OnlyAs(d, k)
    BY <1>2, <2>1
  <2>3. /\ Kind[d][k] # "plain" => text'[d] = text[d]
        /\ Kind[d][k] = "plain" => text'[d] \in {text[d], PlainText[k]}
    BY <1>1, <1>3, FolderKept
  <2> QED BY <1>1, <2>2, <2>3 DEF CorpusInv, PlainIsWritten
<1>4. ASSUME NEW folder \in Folders, NEW call \in Calls, Ingest(folder, call)
      PROVE  text'[d] = text[d]
  BY <1>3, <1>4 DEF Ingest
<1>5. ASSUME NEW folder \in Folders, IngestDies(folder)
      PROVE  text'[d] = text[d]
  BY <1>3, <1>5 DEF IngestDies
<1>6. ASSUME NEW c \in Docs, NEW t \in Texts, ConverterAnswers(c, t)
      PROVE  text'[d] = text[d]
  <2>1. OnlyAs(d, k) /\ conv[c].at = "asked" /\ text' = [text EXCEPT ![c] = t]
    BY <1>6 DEF ConverterAnswers, OnlyAs
  <2>2. c # d
    BY <1>1, <2>1 DEF CorpusInv, ConversionsInOrder
  <2> QED BY <1>1, <2>1, <2>2 DEF CorpusTypeOK
<1> QED
  BY <1>4, <1>5, <1>6
     DEF CorpusNext, corpusVars, Tag, Release, Recover, AskConverter, WriteReceipt, Promote,
         ConversionEnds

\* While a document is offered to runs its text is not rewritten, unless its bytes
\* come under another extension (convert_corpus_document, ingest's normalization).
THEOREM TextsAreStable == Spec => TextStable
<1>1. Init => CorpusInv
  BY CorpusStarts DEF Init
<1>2. CorpusInv /\ [Next]_vars => CorpusInv'
  BY CorpusKept, Parts
<1>3. CorpusInv /\ [Next]_vars =>
        [\A d \in Docs : \A form \in Forms :
           RunVisible(manifest[d]) /\ RunVisible(manifest'[d]) /\ OnlyAs(d, form)' =>
             text'[d] = text[d]]_corpusVars
  BY TextKept, Parts
<1> QED BY <1>1, <1>2, <1>3, PTL DEF Spec, TextStable

\* What a person said of a document is not lost.
LEMMA CallsKept ==
  ASSUME CorpusInv, [CorpusNext]_corpusVars, NEW d \in Docs, manifest[d] # NoEntry
  PROVE  /\ manifest'[d] # NoEntry
         /\ manifest[d].role => manifest'[d].role
         /\ manifest[d].privileged # Unknown => manifest'[d].privileged # Unknown
<1>1. manifest[d] \in Entries /\ CorpusTypeOK
  BY DEF CorpusInv, CorpusTypeOK
<1>2. ASSUME NEW folder \in Folders, NEW call \in Calls, Ingest(folder, call)
      PROVE  /\ manifest'[d] # NoEntry
             /\ manifest[d].role => manifest'[d].role
             /\ manifest[d].privileged # Unknown => manifest'[d].privileged # Unknown
  <2>1. manifest'[d] = IF d \in DOMAIN folder THEN CarryPriorTags(d, folder[d], call)
                                            ELSE manifest[d]
    BY <1>2 DEF Ingest
  <2>2. d \in DOMAIN folder => folder[d] \in Forms
    BY FolderFields
  <2> QED BY <1>1, <2>1, <2>2, CarriedFields, EntryFields
<1>3. ASSUME NEW c \in Docs, NEW call \in Calls, Tag(c, call)
      PROVE  /\ manifest'[d] # NoEntry
             /\ manifest[d].role => manifest'[d].role
             /\ manifest[d].privileged # Unknown => manifest'[d].privileged # Unknown
  <2>1. manifest'[d] = IF d = c THEN Tagged(manifest[d], call) ELSE manifest[d]
    BY <1>1, <1>3 DEF Tag, CorpusTypeOK
  <2> QED BY <1>1, <2>1, TaggedFields, EntryFields
<1>4. ASSUME NEW c \in Docs, Promote(c)
      PROVE  /\ manifest'[d] # NoEntry
             /\ manifest'[d].role = manifest[d].role
             /\ manifest'[d].privileged = manifest[d].privileged
  <2>1. \/ manifest'[d] = manifest[d]
        \/ manifest'[d] = [manifest[d] EXCEPT !.status = "ok"]
    BY <1>1, <1>4 DEF Promote, Promoted, CorpusTypeOK
  <2> QED BY <1>1, <2>1 DEF Entries, NoEntry, Status
<1> QED
  BY <1>2, <1>3, <1>4
     DEF CorpusNext, corpusVars, IngestDies, Release, Recover, AskConverter, ConverterAnswers,
         WriteReceipt, ConversionEnds


\* The role and the privilege call of a document survive ingests and conversions
\* (_carry_prior_tags, promote_converted_document).
THEOREM CallsAreKept == Spec => TagsKept
<1>1. Init => CorpusInv
  BY CorpusStarts DEF Init
<1>2. CorpusInv /\ [Next]_vars => CorpusInv'
  BY CorpusKept, Parts
<1>3. CorpusInv /\ [Next]_vars =>
        [\A d \in Docs : manifest[d] # NoEntry =>
           /\ manifest'[d] # NoEntry
           /\ manifest[d].role => manifest'[d].role
           /\ manifest[d].privileged # Unknown => manifest'[d].privileged # Unknown]_corpusVars
  BY CallsKept, Parts
<1> QED BY <1>1, <1>2, <1>3, PTL DEF Spec, TagsKept

(***************************************************************************)
(* The facts: a revision is accepted only while its predecessor has no     *)
(* accepted successor, so that all the lines which close a fact name one   *)
(* and the same successor, and the fold's choice among them is none.       *)
(***************************************************************************)

\* The fold's two choices are of something.
LastsExist(log) ==
  \A f \in Facts : Written(log, f) # {} => \E i \in Written(log, f) : \A j \in Written(log, f) : j <= i

FirstsExist(log) ==
  \A f \in Facts : Successions(log, f) # {} =>
    \E i \in Successions(log, f) : \A j \in Successions(log, f) : i <= j

HeirsAgree(log) ==
  \A f \in Facts : \A i, j \in Successions(log, f) : log[i].fact = log[j].fact

Heir(log, f, g) == \E j \in Successions(log, f) : log[j].fact = g

PointersStand(log) ==
  \A i \in DOMAIN log : log[i].by # NoFact => Heir(log, log[i].fact, log[i].by)

PredecessorsKnown(log) ==
  \A i \in DOMAIN log : log[i].supersedes # NoFact => Written(log, log[i].supersedes) # {}

LogInOrder(log) ==
  /\ log \in Seq(Lines)
  /\ LastsExist(log) /\ FirstsExist(log)
  /\ HeirsAgree(log) /\ PointersStand(log) /\ PredecessorsKnown(log)

LEMMA Appended ==
  ASSUME NEW log \in Seq(Lines), NEW line \in Lines
  PROVE  LET more == Append(log, line) IN
         /\ more \in Seq(Lines)
         /\ DOMAIN more = DOMAIN log \cup {Len(log) + 1}
         /\ more[Len(log) + 1] = line
         /\ \A i \in DOMAIN log : i \in Nat /\ i < Len(log) + 1 /\ more[i] = log[i] /\ log[i] \in Lines
         /\ Len(log) + 1 \in Nat
OBVIOUS

LEMMA Grown ==
  ASSUME NEW log \in Seq(Lines), NEW line \in Lines, NEW f \in Facts
  PROVE  LET more == Append(log, line) IN
         /\ Written(more, f) = Written(log, f) \cup {i \in {Len(log) + 1} : line.fact = f}
         /\ Successions(more, f) =
              Successions(log, f)
                \cup {i \in {Len(log) + 1} : line.status = "accepted" /\ line.supersedes = f}
         /\ \A g \in Facts : Heir(log, f, g) => Heir(more, f, g)
<1> DEFINE more == Append(log, line)
<1>1. /\ DOMAIN more = DOMAIN log \cup {Len(log) + 1}
      /\ more[Len(log) + 1] = line
      /\ \A i \in DOMAIN log : more[i] = log[i]
  BY Appended
<1> HIDE DEF more
<1>2. Written(more, f) = Written(log, f) \cup {i \in {Len(log) + 1} : line.fact = f}
  BY <1>1 DEF Written
<1>3. Successions(more, f) =
        Successions(log, f)
          \cup {i \in {Len(log) + 1} : line.status = "accepted" /\ line.supersedes = f}
  BY <1>1 DEF Successions
<1>4. \A g \in Facts : Heir(log, f, g) => Heir(more, f, g)
  BY <1>1, <1>3 DEF Heir, Successions
<1> QED BY <1>2, <1>3, <1>4 DEF more


\* What a line must be for the log to stay in order.
MayAppend(log, line) ==
  /\ line \in Lines
  /\ line.by # NoFact => Heir(log, line.fact, line.by)
  /\ line.supersedes # NoFact => Written(log, line.supersedes) # {}
  /\ line.supersedes # NoFact /\ line.status = "accepted" =>
       \A j \in Successions(log, line.supersedes) : log[j].fact = line.fact

LEMMA LogGrows ==
  ASSUME NEW log, LogInOrder(log), NEW line, MayAppend(log, line)
  PROVE  LogInOrder(Append(log, line))
<1> DEFINE more == Append(log, line)
           new  == Len(log) + 1
<1>1. log \in Seq(Lines) /\ line \in Lines
  BY DEF LogInOrder, MayAppend
<1>2. /\ more \in Seq(Lines) /\ new \in Nat
      /\ DOMAIN more = DOMAIN log \cup {new} /\ more[new] = line
      /\ \A i \in DOMAIN log : i \in Nat /\ i < new /\ more[i] = log[i] /\ log[i] \in Lines
  BY <1>1, Appended
<1>3. \A f \in Facts :
        /\ Written(more, f) = Written(log, f) \cup {i \in {new} : line.fact = f}
        /\ Successions(more, f) =
             Successions(log, f)
               \cup {i \in {new} : line.status = "accepted" /\ line.supersedes = f}
        /\ \A g \in Facts : Heir(log, f, g) => Heir(more, f, g)
  BY <1>1, Grown
<1>4. \A f \in Facts : /\ Written(log, f) \subseteq DOMAIN log
                       /\ Successions(log, f) \subseteq DOMAIN log
  BY DEF Written, Successions
<1> HIDE DEF more, new
<1>5. LastsExist(more)
  <2> SUFFICES ASSUME NEW f \in Facts, Written(more, f) # {}
               PROVE  \E i \in Written(more, f) : \A j \in Written(more, f) : j <= i
    BY DEF LastsExist
  <2>1. CASE line.fact = f
    <3>1. new \in Written(more, f)
      BY <1>3, <2>1
    <3>2. \A j \in Written(more, f) : j <= new
      BY <1>2, <1>3, <1>4
    <3> QED BY <3>1, <3>2
  <2>2. CASE line.fact # f
    BY <1>3, <2>2 DEF LogInOrder, LastsExist
  <2> QED BY <2>1, <2>2
<1>6. FirstsExist(more)
  <2> SUFFICES ASSUME NEW f \in Facts, Successions(more, f) # {}
               PROVE  \E i \in Successions(more, f) : \A j \in Successions(more, f) : i <= j
    BY DEF FirstsExist
  <2>1. CASE Successions(log, f) = {}
    BY <1>2, <1>3, <2>1
  <2>2. CASE Successions(log, f) # {}
    <3>1. PICK i \in Successions(log, f) : \A j \in Successions(log, f) : i <= j
      BY <2>2 DEF LogInOrder, FirstsExist
    <3>2. i < new /\ i \in Nat
      BY <1>2, <1>4
    <3>3. \A j \in Successions(more, f) : i <= j
      BY <1>2, <1>3, <3>1, <3>2
    <3> QED BY <1>3, <3>3
  <2> QED BY <2>1, <2>2
<1>7. HeirsAgree(more)
  <2> SUFFICES ASSUME NEW f \in Facts, NEW i \in Successions(more, f), NEW j \in Successions(more, f)
               PROVE  more[i].fact = more[j].fact
    BY DEF HeirsAgree
  <2>1. \A k, l \in Successions(log, f) : more[k].fact = more[l].fact
    BY <1>2, <1>4 DEF LogInOrder, HeirsAgree
  <2>2. line.status = "accepted" /\ line.supersedes = f =>
          \A k \in Successions(log, f) : more[k].fact = line.fact
    BY <1>2, <1>4, NoFactAssumption DEF MayAppend
  <2> QED BY <1>2, <1>3, <2>1, <2>2
<1>8. PointersStand(more)
  <2> SUFFICES ASSUME NEW i \in DOMAIN more, more[i].by # NoFact
               PROVE  Heir(more, more[i].fact, more[i].by)
    BY DEF PointersStand
  <2>1. more[i].fact \in Facts /\ more[i].by \in Facts
    BY <1>1, <1>2 DEF Lines
  <2>2. Heir(log, more[i].fact, more[i].by)
    BY <1>2 DEF LogInOrder, PointersStand, MayAppend
  <2> QED BY <1>3, <2>1, <2>2
<1>9. PredecessorsKnown(more)
  <2> SUFFICES ASSUME NEW i \in DOMAIN more, more[i].supersedes # NoFact
               PROVE  Written(more, more[i].supersedes) # {}
    BY DEF PredecessorsKnown
  <2>1. more[i].supersedes \in Facts
    BY <1>1, <1>2 DEF Lines
  <2>2. Written(log, more[i].supersedes) # {}
    BY <1>2 DEF LogInOrder, PredecessorsKnown, MayAppend
  <2> QED BY <1>3, <2>1, <2>2
<1> QED BY <1>2, <1>5, <1>6, <1>7, <1>8, <1>9 DEF LogInOrder, more

\* The fold of a log in order: the last line, and the one successor if there is any.
LEMMA LastLineIs ==
  ASSUME NEW log, LogInOrder(log), NEW f \in Facts, Written(log, f) # {}
  PROVE  \E i \in Written(log, f) : LastLine(log, f) = log[i] /\ log[i] \in Lines /\ log[i].fact = f
<1>1. PICK i \in Written(log, f) : \A j \in Written(log, f) : j <= i
  BY DEF LogInOrder, LastsExist
<1>2. (CHOOSE k \in Written(log, f) : \A j \in Written(log, f) : j <= k) \in Written(log, f)
  BY <1>1
<1>3. \A k \in Written(log, f) : log[k] \in Lines /\ log[k].fact = f
  BY DEF Written, LogInOrder
<1> QED BY <1>2, <1>3 DEF LastLine

LEMMA FirstSuccessionIs ==
  ASSUME NEW log, LogInOrder(log), NEW f \in Facts, Successions(log, f) # {}
  PROVE  (CHOOSE i \in Successions(log, f) : \A j \in Successions(log, f) : i <= j)
           \in Successions(log, f)
BY DEF LogInOrder, FirstsExist

LEMMA FoldIs ==
  ASSUME NEW log, LogInOrder(log), NEW f \in Facts
  PROVE  /\ Known(log, f) <=> Written(log, f) # {}
         /\ Known(log, f) =>
              /\ Folded(log, f) \in Lines /\ Folded(log, f).fact = f
              /\ \E i \in Written(log, f) : /\ log[i].supersedes = Folded(log, f).supersedes
                                           /\ log[i].status = Folded(log, f).status
              /\ Successions(log, f) = {} => Folded(log, f).by = NoFact
              /\ \A g \in Facts : Heir(log, f, g) => Folded(log, f).by = g
<1>1. CASE Written(log, f) = {}
  BY <1>1 DEF Known, Folded, NoLine
<1>2. CASE Written(log, f) # {}
  <2> DEFINE last  == LastLine(log, f)
             first == CHOOSE i \in Successions(log, f) : \A j \in Successions(log, f) : i <= j
  <2>1. PICK i \in Written(log, f) : last = log[i] /\ log[i] \in Lines /\ log[i].fact = f
    BY <1>2, LastLineIs
  <2>2. last.by # NoFact => Heir(log, f, last.by)
    BY <2>1 DEF LogInOrder, PointersStand, Written
  <2>3. Folded(log, f) = IF last.by # NoFact \/ Successions(log, f) = {}
                         THEN last
                         ELSE [last EXCEPT !.by = log[first].fact]
    BY <1>2 DEF Folded
  <2>4. Successions(log, f) # {} => /\ first \in Successions(log, f)
                                   /\ log[first].fact \in Facts
    <3>1. \A j \in Successions(log, f) : log[j].fact \in Facts
      <4>1. \A j \in Successions(log, f) : log[j] \in Lines
        BY DEF LogInOrder, Successions
      <4> QED BY <4>1 DEF Lines
    <3> QED BY <3>1, FirstSuccessionIs
  <2>5. \A g, h \in Facts : Heir(log, f, g) /\ Heir(log, f, h) => g = h
    BY DEF LogInOrder, HeirsAgree, Heir
  <2>6. Successions(log, f) # {} => Heir(log, f, log[first].fact)
    BY <2>4 DEF Heir
  <2>7. \A g : Heir(log, f, g) => Successions(log, f) # {}
    BY DEF Heir
  <2> HIDE DEF last, first
  <2>8. /\ Folded(log, f) \in Lines /\ Folded(log, f).fact = f
        /\ Folded(log, f).supersedes = last.supersedes /\ Folded(log, f).status = last.status
    BY <2>1, <2>3, <2>4 DEF Lines
  <2>9. Known(log, f)
    BY <2>8, NoFactAssumption DEF Known, NoLine
  <2>10. Successions(log, f) = {} => Folded(log, f).by = NoFact
    BY <2>2, <2>3, <2>7
  <2>11. ASSUME NEW g \in Facts, Heir(log, f, g)
         PROVE  Folded(log, f).by = g
    <3>1. CASE last.by # NoFact
      BY <2>1, <2>2, <2>3, <2>5, <2>11, <3>1 DEF Lines
    <3>2. CASE last.by = NoFact
      <4>1. Folded(log, f).by = log[first].fact
        BY <2>1, <2>3, <2>7, <2>11, <3>2 DEF Lines
      <4> QED BY <2>4, <2>5, <2>6, <2>7, <2>11, <4>1
    <3> QED BY <3>1, <3>2
  <2> QED BY <1>2, <2>1, <2>8, <2>9, <2>10, <2>11
<1> QED BY <1>1, <1>2


(***************************************************************************)
(* A review works on records it read earlier; what it read still holds of  *)
(* the log when it writes, because only a hand-added fact gets in between. *)
(***************************************************************************)

MadeFrom(log, r) == r.supersedes # NoFact => Written(log, r.supersedes) # {}

ReviewInOrder(log, r) ==
  r # FactIdle =>
    /\ MadeFrom(log, r.fact)
    /\ r.fact.by # NoFact => Heir(log, r.fact.fact, r.fact.by)
    /\ r.before # NoLine =>
         /\ r.status = "accepted" /\ r.fact.supersedes = r.before.fact
         /\ MadeFrom(log, r.before)
         /\ r.before.status = "accepted" /\ r.before.supersedes # NoFact =>
              Heir(log, r.before.supersedes, r.before.fact)
    /\ r.at = "checked" /\ r.status = "accepted" /\ r.fact.supersedes # NoFact =>
         Successions(log, r.fact.supersedes) = {}
    /\ r.at = "recorded" => r.before # NoLine /\ Heir(log, r.before.fact, r.fact.fact)

FactInv == FactTypeOK /\ LogInOrder(factLog) /\ ReviewInOrder(factLog, factReview)

\* A line that accepts no revision leaves what a review read as it was.
LEMMA ReviewStands ==
  ASSUME FactInv, NEW line \in Lines,
         line.status = "accepted" => line.supersedes = NoFact
  PROVE  ReviewInOrder(Append(factLog, line), factReview)
<1> DEFINE more == Append(factLog, line)
<1>1. factLog \in Seq(Lines)
  BY DEF FactInv, FactTypeOK
<1>2. \A f \in Facts : /\ Written(factLog, f) \subseteq Written(more, f)
                       /\ Successions(more, f) = Successions(factLog, f)
                       /\ \A g \in Facts : Heir(factLog, f, g) => Heir(more, f, g)
  <2> SUFFICES ASSUME NEW f \in Facts
               PROVE  /\ Written(factLog, f) \subseteq Written(more, f)
                      /\ Successions(more, f) = Successions(factLog, f)
                      /\ \A g \in Facts : Heir(factLog, f, g) => Heir(more, f, g)
    OBVIOUS
  <2>1. ~(line.status = "accepted" /\ line.supersedes = f)
    BY NoFactAssumption
  <2> HIDE DEF more
  <2>2. /\ Written(more, f) =
             Written(factLog, f) \cup {i \in {Len(factLog) + 1} : line.fact = f}
        /\ Successions(more, f) =
             Successions(factLog, f)
               \cup {i \in {Len(factLog) + 1} : line.status = "accepted" /\ line.supersedes = f}
        /\ \A g \in Facts : Heir(factLog, f, g) => Heir(more, f, g)
    BY <1>1, Grown DEF more
  <2> QED BY <2>1, <2>2
<1> HIDE DEF more
<1> SUFFICES ASSUME factReview # FactIdle
             PROVE  ReviewInOrder(more, factReview)
  BY DEF ReviewInOrder, more
<1>3. /\ factReview.fact \in Lines /\ factReview.before \in Lines \cup {NoLine}
      /\ ReviewInOrder(factLog, factReview)
  BY DEF FactInv, FactTypeOK
<1>4. \A r \in Lines : MadeFrom(factLog, r) => MadeFrom(more, r)
  BY <1>2 DEF MadeFrom, Lines
<1>5. \A r \in Lines : /\ r.fact \in Facts
                       /\ r.by # NoFact => r.by \in Facts
                       /\ r.supersedes # NoFact => r.supersedes \in Facts
  BY DEF Lines
<1> QED BY <1>2, <1>3, <1>4, <1>5 DEF ReviewInOrder

LEMMA ReadIs ==
  ASSUME FactInv, NEW f \in Facts, Known(factLog, f)
  PROVE  /\ Folded(factLog, f) \in Lines /\ Folded(factLog, f).fact = f
         /\ MadeFrom(factLog, Folded(factLog, f))
         /\ Folded(factLog, f).by # NoFact => Heir(factLog, f, Folded(factLog, f).by)
         /\ Folded(factLog, f).by = NoFact => Successions(factLog, f) = {}
         /\ Folded(factLog, f).status = "accepted" /\ Folded(factLog, f).supersedes # NoFact =>
              Heir(factLog, Folded(factLog, f).supersedes, f)
<1> DEFINE log == factLog
           it  == Folded(log, f)
<1>1. LogInOrder(log) /\ log \in Seq(Lines)
  BY DEF FactInv, FactTypeOK
<1>2. PICK i \in Written(log, f) : log[i].supersedes = it.supersedes /\ log[i].status = it.status
  BY <1>1, FoldIs
<1>3. /\ it \in Lines /\ it.fact = f
      /\ Successions(log, f) = {} => it.by = NoFact
      /\ \A g \in Facts : Heir(log, f, g) => it.by = g
  BY <1>1, FoldIs
<1>4. i \in DOMAIN log /\ log[i].fact = f
  BY DEF Written
<1>5. MadeFrom(log, it)
  BY <1>1, <1>2, <1>4 DEF MadeFrom, LogInOrder, PredecessorsKnown
<1>6. \A j \in Successions(log, f) : log[j].fact \in Facts /\ Heir(log, f, log[j].fact)
  <2>1. \A j \in Successions(log, f) : log[j] \in Lines
    BY <1>1 DEF Successions
  <2> QED BY <2>1 DEF Lines, Heir
<1>7. it.by # NoFact => Heir(log, f, it.by)
  BY <1>3, <1>6
<1>8. it.by = NoFact => Successions(log, f) = {}
  BY <1>3, <1>6, NoFactAssumption
<1>9. it.status = "accepted" /\ it.supersedes # NoFact => Heir(log, it.supersedes, f)
  BY <1>2, <1>4 DEF Heir, Successions
<1> QED BY <1>3, <1>5, <1>7, <1>8, <1>9


LEMMA FactStarts == FactInit => FactInv
BY MaxFactsAssumption
   DEF FactInit, FactInv, FactTypeOK, LogInOrder, LastsExist, FirstsExist, HeirsAgree,
       PointersStand, PredecessorsKnown, Written, Successions, ReviewInOrder

\* A line by hand, or a proposal, beside whatever review is on.
LEMMA ProposalKeeps ==
  ASSUME FactInv, NEW f \in Facts, NEW p \in Facts \cup {NoFact}, NEW status \in {"pending", "accepted"},
         status = "accepted" => p = NoFact,
         p # NoFact => Known(factLog, p),
         FactSpend, factLog' = Append(factLog, Line(f, status, p)), UNCHANGED factReview
  PROVE  FactInv'
<1> DEFINE line == Line(f, status, p)
<1>1. /\ line \in Lines /\ line.by = NoFact
      /\ line.supersedes = p /\ line.status = status /\ line.fact = f
  BY DEF Line, Lines
<1>2. LogInOrder(factLog) /\ factLog \in Seq(Lines)
  BY DEF FactInv, FactTypeOK
<1>3. p # NoFact => Written(factLog, p) # {}
  BY <1>2, FoldIs
<1>4. MayAppend(factLog, line)
  BY <1>1, <1>3 DEF MayAppend
<1>5. LogInOrder(factLog')
  BY <1>2, <1>4, LogGrows
<1>6. ReviewInOrder(factLog', factReview')
  BY <1>1, ReviewStands
<1>7. FactTypeOK'
  BY <1>1, <1>2, MaxFactsAssumption DEF FactInv, FactTypeOK, FactSpend
<1> QED BY <1>5, <1>6, <1>7 DEF FactInv

LEMMA BeginKeeps ==
  ASSUME FactInv, NEW f \in Facts, BeginAccept(f) \/ BeginReject(f)
  PROVE  FactInv'
<1> DEFINE it == Folded(factLog, f)
           p  == it.supersedes
<1>1. /\ it \in Lines /\ it.fact = f /\ MadeFrom(factLog, it)
      /\ it.by # NoFact => Heir(factLog, f, it.by)
      /\ factReview = FactIdle /\ FactSpend /\ factLog' = factLog
  BY ReadIs DEF BeginAccept, BeginReject, Pending
<1>2. LogInOrder(factLog) /\ factLog \in Seq(Lines)
  BY DEF FactInv, FactTypeOK
<1>3. p \in Facts \cup {NoFact}
  BY <1>1 DEF Lines
<1>4. Predecessor(f) = IF p = NoFact THEN NoLine ELSE Folded(factLog, p)
  BY DEF Predecessor
<1>5. p # NoFact => Known(factLog, p)
  BY <1>1, <1>2, <1>3, FoldIs DEF MadeFrom
<1>6. p # NoFact =>
        /\ Folded(factLog, p) \in Lines /\ Folded(factLog, p) # NoLine /\ Folded(factLog, p).fact = p
        /\ MadeFrom(factLog, Folded(factLog, p))
        /\ Folded(factLog, p).by = NoFact => Successions(factLog, p) = {}
        /\ (Folded(factLog, p).status = "accepted" /\ Folded(factLog, p).supersedes # NoFact) =>
             Heir(factLog, Folded(factLog, p).supersedes, p)
  BY <1>3, <1>5, ReadIs DEF Known
<1> HIDE DEF it, p
<1>7. CASE BeginAccept(f)
  <2>1. /\ factReview' = [at |-> "checked", fact |-> it, status |-> "accepted",
                         before |-> Predecessor(f)]
        /\ Predecessor(f) # NoLine => Predecessor(f).by = NoFact
    BY <1>7 DEF BeginAccept, it
  <2>2. FactTypeOK'
    BY <1>1, <1>2, <1>4, <1>6, <2>1, MaxFactsAssumption DEF FactInv, FactTypeOK, FactSpend
  <2>3. ReviewInOrder(factLog, factReview')
    BY <1>1, <1>4, <1>6, <2>1 DEF ReviewInOrder, p
  <2> QED BY <1>1, <1>2, <2>2, <2>3 DEF FactInv
<1>8. CASE BeginReject(f)
  <2>1. factReview' = [at |-> "checked", fact |-> it, status |-> "rejected", before |-> NoLine]
    BY <1>8 DEF BeginReject, it
  <2>2. FactTypeOK'
    BY <1>1, <1>2, <2>1, MaxFactsAssumption DEF FactInv, FactTypeOK, FactSpend
  <2>3. ReviewInOrder(factLog, factReview')
    BY <1>1, <2>1 DEF ReviewInOrder
  <2> QED BY <1>1, <1>2, <2>2, <2>3 DEF FactInv
<1> QED BY <1>7, <1>8


LEMMA ReadsStand ==
  ASSUME NEW log \in Seq(Lines), NEW line \in Lines, NEW r \in Lines
  PROVE  LET more == Append(log, line) IN
         /\ MadeFrom(log, r) => MadeFrom(more, r)
         /\ \A f, g \in Facts : Heir(log, f, g) => Heir(more, f, g)
<1>1. r.supersedes # NoFact => r.supersedes \in Facts
  BY DEF Lines
<1> QED BY <1>1, Grown DEF MadeFrom

LEMMA RecordKeeps ==
  ASSUME FactInv, RecordReview
  PROVE  FactInv'
<1> DEFINE r    == factReview
           line == [r.fact EXCEPT !.status = r.status]
           more == Append(factLog, line)
<1>1. /\ r \in [at: {"checked", "recorded"}, fact: Lines,
                status: {"accepted", "rejected"}, before: Lines \cup {NoLine}]
      /\ r.at = "checked" /\ r # FactIdle /\ ReviewInOrder(factLog, r)
      /\ factOps' = factOps /\ factLog' = more
      /\ factReview' = IF r.before = NoLine THEN FactIdle ELSE [r EXCEPT !.at = "recorded"]
  BY DEF RecordReview, FactInv, FactTypeOK, FactIdle
<1>2. LogInOrder(factLog) /\ factLog \in Seq(Lines)
  BY DEF FactInv, FactTypeOK
<1>3. /\ line \in Lines /\ line.fact = r.fact.fact /\ line.by = r.fact.by
      /\ line.supersedes = r.fact.supersedes /\ line.status = r.status
      /\ r.fact \in Lines
  BY <1>1 DEF Lines
<1> HIDE DEF line
<1>4. MayAppend(factLog, line)
  BY <1>1, <1>3 DEF MayAppend, ReviewInOrder, MadeFrom
<1>5. LogInOrder(more)
  BY <1>2, <1>4, LogGrows
<1>6. CASE r.before = NoLine
  <2>1. FactTypeOK'
    BY <1>1, <1>5, <1>6 DEF FactInv, FactTypeOK, LogInOrder
  <2>2. ReviewInOrder(factLog', factReview')
    BY <1>1, <1>6 DEF ReviewInOrder
  <2> QED BY <1>1, <1>5, <2>1, <2>2 DEF FactInv
<1>7. CASE r.before # NoLine
  <2> DEFINE s == [r EXCEPT !.at = "recorded"]
  <2>1. /\ s.at = "recorded" /\ s.fact = r.fact /\ s.status = r.status /\ s.before = r.before
        /\ s \in [at: {"checked", "recorded"}, fact: Lines,
                  status: {"accepted", "rejected"}, before: Lines \cup {NoLine}]
        /\ factReview' = s
    BY <1>1, <1>7
  <2> HIDE DEF s
  <2>2. /\ r.before \in Lines /\ r.before.fact \in Facts /\ r.fact.fact \in Facts
        /\ r.fact.by # NoFact => r.fact.by \in Facts
        /\ r.before.supersedes # NoFact => r.before.supersedes \in Facts
    BY <1>1, <1>7 DEF Lines
  <2>3. /\ MadeFrom(more, r.fact) /\ MadeFrom(more, r.before)
        /\ \A f, g \in Facts : Heir(factLog, f, g) => Heir(more, f, g)
    BY <1>1, <1>2, <1>3, <1>7, <2>2, ReadsStand DEF ReviewInOrder
  <2>4. Heir(more, r.before.fact, r.fact.fact)
    <3>1. line.status = "accepted" /\ line.supersedes = r.before.fact
      BY <1>1, <1>3, <1>7 DEF ReviewInOrder
    <3>2. Len(factLog) + 1 \in Successions(more, r.before.fact) /\ more[Len(factLog) + 1] = line
      BY <1>2, <1>3, <2>2, <3>1, Grown, Appended
    <3> QED BY <1>3, <3>2 DEF Heir
  <2>5. ReviewInOrder(more, s)
    BY <1>1, <1>7, <2>1, <2>2, <2>3, <2>4 DEF ReviewInOrder
  <2>6. FactTypeOK'
    BY <1>1, <1>5, <2>1 DEF FactInv, FactTypeOK, LogInOrder
  <2> QED BY <1>1, <1>5, <2>1, <2>5, <2>6 DEF FactInv
<1> QED BY <1>6, <1>7

LEMMA CloseKeeps ==
  ASSUME FactInv, CloseBefore
  PROVE  FactInv'
<1> DEFINE r    == factReview
           line == [r.before EXCEPT !.by = r.fact.fact]
<1>1. /\ r \in [at: {"checked", "recorded"}, fact: Lines,
                status: {"accepted", "rejected"}, before: Lines \cup {NoLine}]
      /\ r.at = "recorded" /\ r # FactIdle /\ ReviewInOrder(factLog, r)
      /\ factOps' = factOps /\ factLog' = Append(factLog, line) /\ factReview' = FactIdle
  BY DEF CloseBefore, FactInv, FactTypeOK, FactIdle
<1>2. LogInOrder(factLog) /\ factLog \in Seq(Lines)
  BY DEF FactInv, FactTypeOK
<1>3. r.before \in Lines /\ r.before # NoLine /\ r.fact \in Lines
  BY <1>1 DEF ReviewInOrder
<1>4. /\ line \in Lines /\ line.fact = r.before.fact /\ line.by = r.fact.fact
      /\ line.supersedes = r.before.supersedes /\ line.status = r.before.status
  BY <1>3 DEF Lines
<1> HIDE DEF line
<1>5. \A j \in Successions(factLog, line.supersedes) :
        line.supersedes # NoFact /\ line.status = "accepted" => factLog[j].fact = line.fact
  <2> SUFFICES ASSUME NEW j \in Successions(factLog, line.supersedes),
                      line.supersedes # NoFact, line.status = "accepted"
               PROVE  factLog[j].fact = line.fact
    OBVIOUS
  <2>1. line.supersedes \in Facts
    BY <1>4 DEF Lines
  <2>2. Heir(factLog, line.supersedes, line.fact)
    BY <1>1, <1>3, <1>4 DEF ReviewInOrder
  <2> QED BY <1>2, <2>1, <2>2 DEF Heir, LogInOrder, HeirsAgree
<1>6. MayAppend(factLog, line)
  BY <1>1, <1>3, <1>4, <1>5 DEF MayAppend, ReviewInOrder, MadeFrom
<1>7. LogInOrder(factLog')
  BY <1>1, <1>2, <1>6, LogGrows
<1>8. FactTypeOK'
  BY <1>1, <1>7 DEF FactInv, FactTypeOK, LogInOrder
<1> QED BY <1>1, <1>7, <1>8 DEF FactInv, ReviewInOrder

LEMMA FactKept ==
  ASSUME FactInv, [FactNext]_factVars
  PROVE  FactInv'
<1>1. ASSUME NEW f \in Facts, AddFact(f) \/ ProposeFact(f)
      PROVE  FactInv'
  BY <1>1, ProposalKeeps DEF AddFact, ProposeFact
<1>2. ASSUME NEW p \in Facts, NEW f \in Facts, ProposeRevision(p, f)
      PROVE  FactInv'
  BY <1>2, ProposalKeeps DEF ProposeRevision
<1>3. ASSUME NEW f \in Facts, BeginAccept(f) \/ BeginReject(f)
      PROVE  FactInv'
  BY <1>3, BeginKeeps
<1>4. CASE ReviewDies
  BY <1>4 DEF ReviewDies, FactInv, FactTypeOK, ReviewInOrder
<1>5. CASE UNCHANGED factVars
  BY <1>5 DEF factVars, FactInv, FactTypeOK
<1> QED BY <1>1, <1>2, <1>3, <1>4, <1>5, RecordKeeps, CloseKeeps DEF FactNext

\* Two facts that runs may use never replace the same one, whichever review died half
\* way and whatever was added by hand meanwhile (review_fact, fold_facts).
THEOREM SuccessorsAreUnique == Spec => []OneSuccessor
<1>1. Init => FactInv
  BY FactStarts DEF Init
<1>2. FactInv /\ [Next]_vars => FactInv'
  BY FactKept, Parts
<1>3. ASSUME FactInv
      PROVE  OneSuccessor
  <2> SUFFICES ASSUME NEW f \in VisibleFacts(factLog), NEW g \in VisibleFacts(factLog),
                      Folded(factLog, f).supersedes = Folded(factLog, g).supersedes,
                      Folded(factLog, f).supersedes # NoFact
               PROVE  f = g
    BY DEF OneSuccessor
  <2> DEFINE p == Folded(factLog, f).supersedes
  <2>1. /\ p \in Facts /\ f \in Facts /\ g \in Facts
        /\ Heir(factLog, p, f) /\ Heir(factLog, p, g)
    BY <1>3, ReadIs DEF VisibleFacts, Lines
  <2> QED BY <1>3, <2>1 DEF Heir, FactInv, LogInOrder, HeirsAgree
<1> QED BY <1>1, <1>2, <1>3, PTL DEF Spec

\* What is appended to the log of facts does not reopen a fact that was replaced, and
\* does not give it another successor (fold_facts).
LEMMA EdgeKept ==
  ASSUME FactInv, FactInv', [FactNext]_factVars,
         NEW f \in Facts, Known(factLog, f), Folded(factLog, f).by # NoFact
  PROVE  Folded(factLog', f).by = Folded(factLog, f).by
<1> DEFINE g == Folded(factLog, f).by
<1>1. g \in Facts /\ Heir(factLog, f, g) /\ LogInOrder(factLog')
  BY ReadIs DEF Lines, FactInv
<1>2. \/ factLog' = factLog
      \/ \E line : factLog' = Append(factLog, line)
  BY DEF FactNext, factVars, AddFact, ProposeFact, ProposeRevision, BeginAccept, BeginReject,
         RecordReview, CloseBefore, ReviewDies
<1>3. Written(factLog, f) # {} /\ factLog \in Seq(Lines)
  BY FoldIs DEF FactInv, FactTypeOK
<1>4. DOMAIN factLog \subseteq DOMAIN factLog' /\ \A i \in DOMAIN factLog : factLog'[i] = factLog[i]
  BY <1>2, <1>3
<1>5. Heir(factLog', f, g) /\ Written(factLog', f) # {}
  BY <1>1, <1>3, <1>4 DEF Heir, Successions, Written
<1> QED BY <1>1, <1>5, FoldIs

THEOREM EdgesStand == Spec => EdgeStands
<1>1. Init => FactInv
  BY FactStarts DEF Init
<1>2. FactInv /\ [Next]_vars => FactInv'
  BY FactKept, Parts
<1>3. FactInv /\ [Next]_vars =>
        [\A f \in Facts : Known(factLog, f) /\ Folded(factLog, f).by # NoFact =>
           Folded(factLog', f).by = Folded(factLog, f).by]_factLog
  BY <1>2, EdgeKept, Parts
<1> QED BY <1>1, <1>2, <1>3, PTL DEF Spec, EdgeStands


(***************************************************************************)
(* The reviews of what edits teach: one person is past the run's lock at a *)
(* time, and looks again there, so a proposal has one final review for     *)
(* good; what enters a context is the text of that one.                    *)
(***************************************************************************)

OneFinal == \A p \in Lessons : \A i, j \in Final(p) : i = j

Accepted(p, t) == \E i \in Final(p) : reviewLog[i].action = "accept" /\ reviewLog[i].text = t
WasAccepted(p) == \E i \in Final(p) : reviewLog[i].action = "accept"

Inside(q) == reviewing[q].at \in {"publish", "log", "contribute"}

OneInside == \A q, r \in People : Inside(q) /\ Inside(r) => q = r

InsideInOrder ==
  \A q \in People : LET r == reviewing[q].review IN
    /\ reviewing[q].at = "publish" => r.action = "promote" /\ WasAccepted(r.lesson)
    /\ reviewing[q].at = "log" /\ r.action # "promote" => Final(r.lesson) = {} \/ Logged(r)
    /\ reviewing[q].at = "contribute" => Accepted(r.lesson, r.text)

LessonsAccepted == \A p \in Lessons : lessons[p] # NoWording => Accepted(p, lessons[p])
FirmAccepted    == \A p \in Lessons : firm[p] # NoReview => WasAccepted(p)

LearnInv ==
  LearnTypeOK /\ OneFinal /\ OneInside /\ InsideInOrder /\ LessonsAccepted /\ FirmAccepted

LEMMA FinalIs ==
  ASSUME LearnTypeOK, OneFinal, NEW p \in Lessons, NEW i \in Final(p)
  PROVE  /\ reviewLog[i] \in Reviews
         /\ Original(p) = reviewLog[i] /\ Latest(p) = reviewLog[i]
         /\ Outcome(p) = reviewLog[i].action
<1>1. i \in DOMAIN reviewLog /\ i \in Nat /\ reviewLog[i] \in Reviews
  BY DEF Final, LearnTypeOK
<1>2. \A j \in Final(p) : i <= j /\ j <= i /\ j = i
  BY <1>1 DEF OneFinal
<1>3. /\ (CHOOSE k \in Final(p) : \A j \in Final(p) : k <= j) = i
      /\ (CHOOSE k \in Final(p) : \A j \in Final(p) : j <= k) = i
  BY <1>2
<1> QED BY <1>1, <1>3 DEF Original, Latest, Outcome

LEMMA ReviewFields ==
  /\ \A r \in Reviews : /\ r.lesson \in Lessons /\ r.action \in {"accept", "reject", "promote"}
                        /\ r.text \in Wordings \cup {NoWording} /\ r.walled \in BOOLEAN
                        /\ r # NoReview
BY DEF Reviews, NoReview

LEMMA LearnStarts == LearnInit => LearnInv
BY WordingsAssumption
   DEF LearnInit, LearnInv, LearnTypeOK, OneFinal, OneInside, InsideInOrder, LessonsAccepted,
       FirmAccepted, Final, Inside, Resting

\* Nothing but a line in the log changes what reviews say of a proposal.
LEMMA SameLog ==
  ASSUME reviewLog' = reviewLog
  PROVE  /\ OneFinal' <=> OneFinal
         /\ \A p : Final(p)' = Final(p) /\ (WasAccepted(p)' <=> WasAccepted(p))
         /\ \A p, t : Accepted(p, t)' <=> Accepted(p, t)
         /\ \A r : Logged(r)' <=> Logged(r)
BY DEF OneFinal, Final, WasAccepted, Accepted, Logged

\* Of the people, one moves.
LEMMA OneMoves ==
  ASSUME LearnTypeOK, NEW q \in People, NEW s \in {Resting} \cup
           [at: {"asked", "publish", "log", "contribute"}, review: Reviews],
         reviewing' = [reviewing EXCEPT ![q] = s]
  PROVE  /\ reviewing'[q] = s
         /\ \A r \in People : r # q => reviewing'[r] = reviewing[r]
         /\ reviewing' \in
              [People -> {Resting} \cup [at: {"asked", "publish", "log", "contribute"}, review: Reviews]]
BY DEF LearnTypeOK

LEMMA ReviewingFields ==
  ASSUME LearnTypeOK, NEW q \in People, reviewing[q].at # "idle"
  PROVE  /\ reviewing[q] \in [at: {"asked", "publish", "log", "contribute"}, review: Reviews]
         /\ reviewing[q].review \in Reviews /\ reviewing[q] # Resting
BY DEF LearnTypeOK, Resting

LEMMA LeavesKeeps ==
  ASSUME LearnInv, NEW q \in People, Leaves(q), reviewLog' = reviewLog, learnOps' = learnOps,
         imported' = imported, firm' = firm,
         lessons' \in [Lessons -> Wordings \cup {NoWording}], LessonsAccepted'
  PROVE  LearnInv'
<1>1. LearnTypeOK
  BY DEF LearnInv
<1>2. /\ reviewing'[q] = Resting
      /\ \A r \in People : r # q => reviewing'[r] = reviewing[r]
      /\ LearnTypeOK'
  BY <1>1, OneMoves DEF Leaves, LearnTypeOK
<1>3. OneFinal' /\ FirmAccepted'
  BY SameLog DEF LearnInv, FirmAccepted
<1>4. OneInside'
  BY <1>2 DEF LearnInv, OneInside, Inside, Resting
<1>5. InsideInOrder'
  BY <1>2, SameLog DEF LearnInv, InsideInOrder, Resting
<1> QED BY <1>2, <1>3, <1>4, <1>5 DEF LearnInv


LEMMA AskKeeps ==
  ASSUME LearnInv, NEW q \in People, NEW p \in Lessons, NEW action \in {"accept", "reject", "promote"},
         NEW t \in Wordings \cup {NoWording}, NEW walled \in BOOLEAN,
         AskReview(q, p, action, t, walled)
  PROVE  LearnInv'
<1> DEFINE r == [lesson |-> p, action |-> action, text |-> t, walled |-> walled, by |-> q,
                 time |-> learnOps']
           s == [at |-> "asked", review |-> r]
<1>1. LearnTypeOK /\ learnOps' \in 1 .. MaxLearning
  BY WordingsAssumption DEF LearnInv, LearnTypeOK, AskReview, LearnSpend
<1>2. r \in Reviews
  BY <1>1 DEF Reviews
<1>3. reviewing' = [reviewing EXCEPT ![q] = s]
  BY DEF AskReview
<1> HIDE DEF r
<1>4. s \in [at: {"asked", "publish", "log", "contribute"}, review: Reviews]
  BY <1>2
<1>5. /\ reviewing'[q].at = "asked"
      /\ \A o \in People : o # q => reviewing'[o] = reviewing[o]
      /\ LearnTypeOK'
  BY <1>1, <1>3, <1>4, OneMoves DEF AskReview, LearnTypeOK
<1>6. OneFinal' /\ FirmAccepted' /\ LessonsAccepted'
  BY SameLog DEF LearnInv, FirmAccepted, LessonsAccepted, AskReview
<1>7. OneInside'
  BY <1>5 DEF LearnInv, OneInside, Inside
<1>8. InsideInOrder'
  BY <1>5, SameLog DEF LearnInv, InsideInOrder, AskReview
<1> QED BY <1>5, <1>6, <1>7, <1>8 DEF LearnInv

LEMMA EnterKeeps ==
  ASSUME LearnInv, NEW q \in People, EnterReview(q)
  PROVE  LearnInv'
<1> DEFINE r == reviewing[q].review
           n == SettledAs(r)
           s == [at |-> IF r.action = "promote" THEN "publish" ELSE "log", review |-> n]
<1>1. LearnTypeOK /\ r \in Reviews /\ OneFinal
  BY ReviewingFields DEF LearnInv, EnterReview
<1>2. reviewing' = [reviewing EXCEPT ![q] = s]
  BY DEF EnterReview
<1>3. r.action = "promote" => n = r /\ WasAccepted(r.lesson)
  <2> SUFFICES ASSUME r.action = "promote"
               PROVE  n = r /\ WasAccepted(r.lesson)
    OBVIOUS
  <2>1. Outcome(r.lesson) = "accept"
    BY DEF EnterReview, MayEnter
  <2>2. PICK i \in Final(r.lesson) : TRUE
    BY <2>1 DEF Outcome
  <2>3. reviewLog[i].action = "accept"
    BY <1>1, <2>1, FinalIs, ReviewFields
  <2> QED BY <2>3 DEF WasAccepted, SettledAs
<1>4. r.action # "promote" =>
        n \in Reviews /\ n.action # "promote" /\ (Final(n.lesson) = {} \/ Logged(n))
  <2> SUFFICES ASSUME r.action # "promote"
               PROVE  n \in Reviews /\ n.action # "promote" /\ (Final(n.lesson) = {} \/ Logged(n))
    OBVIOUS
  <2>1. CASE Final(r.lesson) = {}
    BY <1>1, <2>1 DEF SettledAs
  <2>2. CASE Final(r.lesson) # {}
    <3>1. PICK i \in Final(r.lesson) : TRUE
      BY <2>2
    <3>2. n = reviewLog[i] /\ n \in Reviews
      BY <1>1, <2>2, FinalIs, ReviewFields DEF SettledAs, EnterReview, MayEnter
    <3> QED BY <3>1, <3>2 DEF Final, Logged
  <2> QED BY <2>1, <2>2
<1>5. n \in Reviews
  BY <1>1, <1>3, <1>4
<1> HIDE DEF r, n
<1>6. s \in [at: {"asked", "publish", "log", "contribute"}, review: Reviews] /\ s.review = n
  BY <1>5
<1>7. /\ reviewing'[q] = s
      /\ \A o \in People : o # q => reviewing'[o] = reviewing[o]
      /\ LearnTypeOK'
  BY <1>1, <1>2, <1>6, OneMoves DEF EnterReview, LearnTypeOK
<1>8. OneFinal' /\ FirmAccepted' /\ LessonsAccepted'
  BY SameLog DEF LearnInv, FirmAccepted, LessonsAccepted, EnterReview
<1>9. OneInside'
  BY <1>7 DEF OneInside, Inside, EnterReview, RunLockFree
<1>10. InsideInOrder'
  <2> SUFFICES ASSUME NEW o \in People
               PROVE  LET x == reviewing'[o].review IN
                      /\ reviewing'[o].at = "publish" => x.action = "promote" /\ WasAccepted(x.lesson)
                      /\ reviewing'[o].at = "log" /\ x.action # "promote" =>
                           Final(x.lesson) = {} \/ Logged(x)
                      /\ reviewing'[o].at = "contribute" => Accepted(x.lesson, x.text)
    BY SameLog DEF InsideInOrder, EnterReview
  <2>1. CASE o = q
    BY <1>3, <1>4, <1>7, <2>1
  <2>2. CASE o # q
    BY <1>7, <2>2 DEF LearnInv, InsideInOrder
  <2> QED BY <2>1, <2>2
<1> QED BY <1>7, <1>8, <1>9, <1>10 DEF LearnInv

LEMMA PublishKeeps ==
  ASSUME LearnInv, NEW q \in People, PublishFirm(q)
  PROVE  LearnInv'
<1> DEFINE r == reviewing[q].review
           s == [reviewing[q] EXCEPT !.at = "log"]
<1>1. /\ LearnTypeOK /\ r \in Reviews /\ WasAccepted(r.lesson) /\ r.action = "promote"
      /\ reviewing[q] \in [at: {"asked", "publish", "log", "contribute"}, review: Reviews]
  BY ReviewingFields DEF LearnInv, InsideInOrder, PublishFirm
<1>2. /\ reviewing' = [reviewing EXCEPT ![q] = s]
      /\ firm' = [firm EXCEPT ![r.lesson] = r]
      /\ reviewing[q].at = "publish"
      /\ UNCHANGED <<imported, reviewLog, lessons, learnOps>>
  BY DEF PublishFirm, Goes
<1>3. /\ s \in [at: {"asked", "publish", "log", "contribute"}, review: Reviews]
      /\ s.at = "log" /\ s.review = r
  BY <1>1
<1> HIDE DEF r, s
<1>4. /\ reviewing'[q] = s
      /\ \A o \in People : o # q => reviewing'[o] = reviewing[o]
      /\ reviewing' \in
           [People -> {Resting} \cup [at: {"asked", "publish", "log", "contribute"}, review: Reviews]]
  BY <1>1, <1>2, <1>3, OneMoves
<1>5. LearnTypeOK'
  BY <1>1, <1>2, <1>4, ReviewFields DEF LearnTypeOK
<1>6. FirmAccepted'
  <2>1. \A p \in Lessons : p # r.lesson => firm'[p] = firm[p]
    BY <1>1, <1>2 DEF LearnTypeOK
  <2> QED BY <1>1, <1>2, <2>1, SameLog DEF LearnInv, FirmAccepted
<1>7. OneFinal' /\ LessonsAccepted'
  BY <1>2, SameLog DEF LearnInv, LessonsAccepted
<1>8. OneInside'
  BY <1>2, <1>3, <1>4 DEF LearnInv, OneInside, Inside
<1>9. InsideInOrder'
  BY <1>1, <1>2, <1>3, <1>4, SameLog DEF LearnInv, InsideInOrder
<1> QED BY <1>5, <1>6, <1>7, <1>8, <1>9 DEF LearnInv


LEMMA FinalGrows ==
  ASSUME LearnTypeOK, NEW r \in Reviews, reviewLog' = Append(reviewLog, r)
  PROVE  /\ \A p \in Lessons : Final(p)' = Final(p) \cup
                {i \in {Len(reviewLog) + 1} : r.lesson = p /\ r.action # "promote"}
         /\ reviewLog'[Len(reviewLog) + 1] = r
         /\ \A i \in DOMAIN reviewLog : reviewLog'[i] = reviewLog[i]
         /\ reviewLog' \in Seq(Reviews) /\ Len(reviewLog) + 1 \in DOMAIN reviewLog'
<1>1. reviewLog \in Seq(Reviews)
  BY DEF LearnTypeOK
<1>2. /\ DOMAIN reviewLog' = DOMAIN reviewLog \cup {Len(reviewLog) + 1}
      /\ reviewLog'[Len(reviewLog) + 1] = r
      /\ \A i \in DOMAIN reviewLog : reviewLog'[i] = reviewLog[i]
      /\ reviewLog' \in Seq(Reviews)
  BY <1>1
<1>3. ASSUME NEW p \in Lessons
      PROVE  Final(p)' = Final(p) \cup
                {i \in {Len(reviewLog) + 1} : r.lesson = p /\ r.action # "promote"}
  BY <1>2 DEF Final
<1> QED BY <1>2, <1>3

\* What the log says once of a proposal it says for good.
LEMMA RecordsStand ==
  ASSUME LearnTypeOK, reviewLog' = reviewLog \/ \E r \in Reviews : reviewLog' = Append(reviewLog, r)
  PROVE  /\ \A p \in Lessons : WasAccepted(p) => WasAccepted(p)'
         /\ \A p \in Lessons : \A t : Accepted(p, t) => Accepted(p, t)'
<1>1. CASE reviewLog' = reviewLog
  BY <1>1, SameLog
<1>2. ASSUME NEW r \in Reviews, reviewLog' = Append(reviewLog, r)
      PROVE  /\ \A p \in Lessons : WasAccepted(p) => WasAccepted(p)'
             /\ \A p \in Lessons : \A t : Accepted(p, t) => Accepted(p, t)'
  <2>1. \A p \in Lessons : \A i \in Final(p) : i \in Final(p)' /\ reviewLog'[i] = reviewLog[i]
    BY <1>2, FinalGrows DEF Final
  <2> QED BY <2>1 DEF WasAccepted, Accepted
<1> QED BY <1>1, <1>2

LEMMA LogKeeps ==
  ASSUME LearnInv, NEW q \in People, LogReview(q)
  PROVE  LearnInv'
<1> DEFINE r == reviewing[q].review
           s == IF r.action = "accept" THEN [reviewing[q] EXCEPT !.at = "contribute"] ELSE Resting
           new == Len(reviewLog) + 1
<1>1. /\ LearnTypeOK /\ r \in Reviews /\ OneFinal
      /\ reviewing[q] \in [at: {"asked", "publish", "log", "contribute"}, review: Reviews]
      /\ r.action # "promote" => Final(r.lesson) = {} \/ Logged(r)
  BY ReviewingFields DEF LearnInv, InsideInOrder, LogReview
<1>2. /\ reviewing' = [reviewing EXCEPT ![q] = s]
      /\ reviewLog' = IF Logged(r) THEN reviewLog ELSE Append(reviewLog, r)
      /\ reviewing[q].at = "log"
      /\ UNCHANGED <<imported, firm, lessons, learnOps>>
  BY DEF LogReview, Goes, Leaves
<1>3. /\ s \in {Resting} \cup [at: {"asked", "publish", "log", "contribute"}, review: Reviews]
      /\ s.at \in {"idle", "contribute"}
      /\ s.at = "contribute" => r.action = "accept" /\ s.review = r
  BY <1>1 DEF Resting
<1> HIDE DEF r, s
<1>4. /\ reviewing'[q] = s
      /\ \A o \in People : o # q => reviewing'[o] = reviewing[o]
      /\ reviewing' \in
           [People -> {Resting} \cup [at: {"asked", "publish", "log", "contribute"}, review: Reviews]]
  BY <1>1, <1>2, <1>3, OneMoves
<1>5. LearnTypeOK'
  BY <1>1, <1>2, <1>4, FinalGrows DEF LearnTypeOK
<1>6. \A o \in People : o # q => ~Inside(o)
  BY <1>2 DEF LearnInv, OneInside, Inside
<1>7. FirmAccepted' /\ LessonsAccepted'
  BY <1>1, <1>2, RecordsStand DEF LearnInv, FirmAccepted, LessonsAccepted
<1>8. OneInside'
  BY <1>4, <1>6 DEF OneInside, Inside
<1>9. OneFinal'
  <2>1. CASE Logged(r)
    BY <1>1, <1>2, <2>1, SameLog
  <2>2. CASE ~Logged(r)
    <3> SUFFICES ASSUME NEW p \in Lessons, NEW i \in Final(p)', NEW j \in Final(p)'
                 PROVE  i = j
      BY DEF OneFinal
    <3>1. Final(p)' = Final(p) \cup {k \in {new} : r.lesson = p /\ r.action # "promote"}
      BY <1>1, <1>2, <2>2, FinalGrows
    <3>2. r.lesson = p /\ r.action # "promote" => Final(p) = {}
      BY <1>1, <2>2
    <3> QED BY <1>1, <3>1, <3>2 DEF OneFinal
  <2> QED BY <2>1, <2>2
<1>10. ASSUME NEW x \in Reviews, x = r, x.action = "accept"
       PROVE  Accepted(x.lesson, x.text)'
  <2> SUFFICES \E i \in Final(x.lesson)' : reviewLog'[i] = x
    BY <1>10 DEF Accepted
  <2>1. CASE Logged(r)
    <3>1. PICK i \in DOMAIN reviewLog : reviewLog[i] = x
      BY <1>10, <2>1 DEF Logged
    <3>2. i \in Final(x.lesson) /\ reviewLog' = reviewLog
      BY <1>2, <1>10, <2>1, <3>1 DEF Final
    <3> QED BY <3>1, <3>2 DEF Final
  <2>2. CASE ~Logged(r)
    <3>1. reviewLog' = Append(reviewLog, x) /\ x.lesson \in Lessons
      BY <1>2, <1>10, <2>2, ReviewFields
    <3>2. new \in Final(x.lesson)' /\ reviewLog'[new] = x
      BY <1>1, <1>10, <3>1, FinalGrows
    <3> QED BY <3>2
  <2> QED BY <2>1, <2>2
<1>11. InsideInOrder'
  <2> SUFFICES ASSUME NEW o \in People, NEW x, x = reviewing'[o].review
               PROVE  /\ reviewing'[o].at = "publish" => x.action = "promote" /\ WasAccepted(x.lesson)'
                      /\ reviewing'[o].at = "log" /\ x.action # "promote" =>
                           Final(x.lesson)' = {} \/ Logged(x)'
                      /\ reviewing'[o].at = "contribute" => Accepted(x.lesson, x.text)'
    BY DEF InsideInOrder, WasAccepted, Accepted, Logged, Final
  <2>1. ASSUME o = q, s.at = "contribute"
        PROVE  Accepted(x.lesson, x.text)'
    <3>1. x = r /\ r.action = "accept" /\ x \in Reviews
      BY <1>1, <1>3, <1>4, <2>1
    <3> QED BY <1>10, <3>1
  <2>2. CASE o = q
    BY <1>3, <1>4, <2>1, <2>2
  <2>3. CASE o # q
    BY <1>4, <1>6, <2>3 DEF Inside
  <2> QED BY <2>2, <2>3
<1> QED BY <1>5, <1>7, <1>8, <1>9, <1>11 DEF LearnInv

LEMMA ContributeKeeps ==
  ASSUME LearnInv, NEW q \in People, Contribute(q)
  PROVE  LearnInv'
<1> DEFINE r == reviewing[q].review
<1>1. /\ LearnTypeOK /\ r \in Reviews /\ Accepted(r.lesson, r.text)
  BY ReviewingFields DEF LearnInv, InsideInOrder, Contribute
<1>2. /\ Leaves(q) /\ UNCHANGED <<imported, reviewLog, firm, learnOps>>
      /\ lessons' = [lessons EXCEPT ![r.lesson] = r.text]
  BY DEF Contribute
<1> HIDE DEF r
<1>3. \A p \in Lessons : lessons'[p] = IF p = r.lesson THEN r.text ELSE lessons[p]
  BY <1>1, <1>2 DEF LearnTypeOK
<1>4. LessonsAccepted'
  BY <1>1, <1>2, <1>3, SameLog DEF LearnInv, LessonsAccepted
<1>5. lessons' \in [Lessons -> Wordings \cup {NoWording}]
  BY <1>1, <1>2, ReviewFields DEF LearnTypeOK
<1> QED BY <1>2, <1>4, <1>5, LeavesKeeps

LEMMA LearnKept ==
  ASSUME LearnInv, [LearnNext]_learnVars
  PROVE  LearnInv'
<1>1. ASSUME NEW p \in Lessons, ImportSource(p) \/ ImportBundle(p)
      PROVE  LearnInv'
  <2>1. /\ UNCHANGED <<reviewLog, lessons, firm, reviewing>>
        /\ imported' \in [Lessons -> {"none", "source", "bundle"}]
        /\ learnOps' \in 0 .. MaxLearning
    BY <1>1, WordingsAssumption
       DEF ImportSource, ImportBundle, LearnInv, LearnTypeOK, LearnSpend
  <2>2. LearnTypeOK' /\ OneInside'
    BY <2>1 DEF LearnInv, LearnTypeOK, OneInside, Inside
  <2>3. OneFinal' /\ FirmAccepted' /\ LessonsAccepted' /\ InsideInOrder'
    BY <2>1, SameLog DEF LearnInv, FirmAccepted, LessonsAccepted, InsideInOrder
  <2> QED BY <2>2, <2>3 DEF LearnInv
<1>2. ASSUME NEW q \in People, ReviewEnds(q)
      PROVE  LearnInv'
  <2>1. LessonsAccepted' /\ lessons' \in [Lessons -> Wordings \cup {NoWording}]
    BY <1>2, SameLog DEF ReviewEnds, LearnInv, LearnTypeOK, LessonsAccepted
  <2> QED BY <1>2, <2>1, LeavesKeeps DEF ReviewEnds
<1>3. CASE UNCHANGED learnVars
  BY <1>3, SameLog
     DEF learnVars, LearnInv, LearnTypeOK, OneInside, Inside, FirmAccepted, LessonsAccepted,
         InsideInOrder
<1> QED BY <1>1, <1>2, <1>3, AskKeeps, EnterKeeps, PublishKeeps, LogKeeps, ContributeKeeps
        DEF LearnNext

LEMMA LearnSays ==
  ASSUME LearnInv
  PROVE  ContextIsReviewed /\ FirmIsAccepted
<1>1. ASSUME NEW p \in Lessons, lessons[p] # NoWording
      PROVE  Outcome(p) = "accept" /\ Latest(p).text = lessons[p]
  BY <1>1, FinalIs DEF LearnInv, LessonsAccepted, Accepted
<1>2. ASSUME NEW p \in Lessons, firm[p] # NoReview
      PROVE  Outcome(p) = "accept"
  BY <1>2, FinalIs DEF LearnInv, FirmAccepted, WasAccepted
<1> QED BY <1>1, <1>2 DEF ContextIsReviewed, FirmIsAccepted

\* What later runs are told for a proposal is the text its one final review accepted
\* (review_learning_proposal, its second look under the run's lock).
THEOREM ContextsAreReviewed == Spec => []ContextIsReviewed
<1>1. Init => LearnInv
  BY LearnStarts DEF Init
<1>2. LearnInv /\ [Next]_vars => LearnInv'
  BY LearnKept, Parts
<1> QED BY <1>1, <1>2, LearnSays, PTL DEF Spec

\* What every matter of the firm is told was accepted where it comes from
\* (review_learning_proposal, when it promotes).
THEOREM FirmsAreAccepted == Spec => []FirmIsAccepted
<1>1. Init => LearnInv
  BY LearnStarts DEF Init
<1>2. LearnInv /\ [Next]_vars => LearnInv'
  BY LearnKept, Parts
<1> QED BY <1>1, <1>2, LearnSays, PTL DEF Spec


(***************************************************************************)
(* The profile of the judge: the pointer is taken from the archive, which  *)
(* only grows.                                                             *)
(***************************************************************************)

BuiltIsArchived == \A b \in Builders : builder[b].at = "archived" => builder[b].body \in archive

ProfileInv == ProfileTypeOK /\ BuiltIsArchived /\ PointerArchived

LEMMA ProfileStarts == ProfileInit => ProfileInv
BY MaxProfilesAssumption
   DEF ProfileInit, ProfileInv, ProfileTypeOK, BuiltIsArchived, PointerArchived, Loads, AtRest

LEMMA ProfileKept ==
  ASSUME ProfileInv, [ProfileNext]_profileVars
  PROVE  ProfileInv'
<1> USE DEF ProfileInv
<1>1. ASSUME NEW j \in Judges, EditCaption(j)
      PROVE  ProfileInv'
  BY <1>1, MaxProfilesAssumption
     DEF EditCaption, ProfileSpend, ProfileTypeOK, BuiltIsArchived, PointerArchived, Loads
<1>2. ASSUME NEW b \in Builders, BeginBuild(b)
      PROVE  ProfileInv'
  <2>1. profileOps' \in 1 .. MaxProfiles
    BY <1>2, MaxProfilesAssumption DEF BeginBuild, ProfileSpend, ProfileTypeOK
  <2> QED BY <1>2, <2>1
          DEF BeginBuild, ProfileTypeOK, BuiltIsArchived, PointerArchived, Loads
<1>3. ASSUME NEW b \in Builders, NEW e \in Evidence, Fetched(b, e)
      PROVE  ProfileInv'
  <2> DEFINE body == [judge |-> builder[b].judge, evidence |-> e, built |-> builder[b].built]
  <2>1. body \in Profiles
    BY <1>3 DEF Fetched, ProfileTypeOK, AtRest, Profiles
  <2>2. builder' = [builder EXCEPT ![b] = [at |-> "built", body |-> body]]
    BY <1>3 DEF Fetched
  <2> HIDE DEF body
  <2> QED BY <1>3, <2>1, <2>2
          DEF Fetched, ProfileTypeOK, BuiltIsArchived, PointerArchived, Loads
<1>4. ASSUME NEW b \in Builders, ArchiveProfile(b)
      PROVE  ProfileInv'
  <2> DEFINE body == builder[b].body
             kept == CHOOSE a \in archive' : Identity(a) = Identity(body)
  <2>1. body \in Profiles
    BY <1>4 DEF ArchiveProfile, ProfileTypeOK, AtRest
  <2>2. archive' \subseteq Profiles /\ archive \subseteq archive'
    BY <1>4, <2>1 DEF ArchiveProfile, ProfileTypeOK
  <2>3. \E a \in archive' : Identity(a) = Identity(body)
    BY <1>4 DEF ArchiveProfile, Archived
  <2>4. kept \in archive'
    BY <2>3
  <2>5. builder' = [builder EXCEPT ![b] = [at |-> "archived", body |-> kept]]
    BY <1>4 DEF ArchiveProfile
  <2> HIDE DEF kept
  <2>6. ProfileTypeOK'
    <3>1. [at |-> "archived", body |-> kept] \in [at: {"built", "archived"}, body: Profiles]
      BY <2>2, <2>4
    <3> QED BY <1>4, <2>2, <2>5, <3>1 DEF ArchiveProfile, ProfileTypeOK
  <2>7. BuiltIsArchived'
    BY <2>2, <2>4, <2>5 DEF ProfileTypeOK, BuiltIsArchived
  <2>8. PointerArchived'
    BY <1>4, <2>2 DEF ArchiveProfile, PointerArchived, Loads
  <2> QED BY <2>6, <2>7, <2>8
<1>5. ASSUME NEW b \in Builders, PointAt(b)
      PROVE  ProfileInv'
  BY <1>5 DEF PointAt, ProfileTypeOK, BuiltIsArchived, PointerArchived, Loads, AtRest
<1>6. ASSUME NEW b \in Builders, BuildEnds(b)
      PROVE  ProfileInv'
  BY <1>6 DEF BuildEnds, ProfileTypeOK, BuiltIsArchived, PointerArchived, Loads, AtRest
<1>7. CASE UNCHANGED profileVars
  BY <1>7 DEF profileVars, ProfileTypeOK, BuiltIsArchived, PointerArchived, Loads
<1> QED BY <1>1, <1>2, <1>3, <1>4, <1>5, <1>6, <1>7 DEF ProfileNext

\* No interleaving of builders and no crash leaves a pointer that its archive
\* contradicts (JudgeProfileStore.publish).
THEOREM PointersAreArchived == Spec => []PointerArchived
<1>1. Init => ProfileInv
  BY ProfileStarts DEF Init
<1>2. ProfileInv /\ [Next]_vars => ProfileInv'
  BY ProfileKept, Parts
<1>3. ProfileInv => PointerArchived
  BY DEF ProfileInv
<1> QED BY <1>1, <1>2, <1>3, PTL DEF Spec

(***************************************************************************)
(* The launch.  What it takes of the locks, of the note and of its two     *)
(* files stays true while it goes on: the locks and the approvals only     *)
(* grow, a specification stays what it is, and one launch is under way.    *)
(***************************************************************************)

LocksAreOfSpec ==
  /\ \A i \in DOMAIN locks : locks[i].spec = spec
  /\ locks # <<>> \/ approval # Unheld => spec # NoSpec

TaskInv == TaskTypeOK /\ LocksAreOfSpec

LEMMA MaterialTyped == TaskTypeOK => MaterialOf(source) \in [Material -> Editions]
BY DEF TaskTypeOK, MaterialOf, Material, Files

LEMMA TaskStarts == TaskInit => TaskInv
<1> SUFFICES ASSUME TaskInit
             PROVE  TaskInv
  OBVIOUS
<1>1. source \in [Files -> Editions]
  BY DEF TaskInit
<1>2. locks = <<>> /\ approval = Unheld
  BY DEF TaskInit
<1>3. /\ locks \in Seq([by: Reviewers, seen: [Material -> Editions],
                      spec: Editions \cup {NoDocument}])
      /\ DOMAIN locks = {}
  BY <1>2
<1>4. approvals \in 0 .. MaxApprovals
  BY MaxApprovalsAssumption DEF TaskInit
<1>5. TaskTypeOK
  BY <1>1, <1>3, <1>4 DEF TaskInit, TaskTypeOK
<1> QED BY <1>2, <1>3, <1>5 DEF TaskInv, LocksAreOfSpec

\* Besides the invariant: locks are only appended, and the specification is made once.
LEMMA TaskKept ==
  ASSUME TaskInv, [TaskNext]_taskVars
  PROVE  /\ TaskInv'
         /\ DOMAIN locks \subseteq DOMAIN locks'
         /\ \A i \in DOMAIN locks : locks'[i] = locks[i]
         /\ spec # NoSpec => spec' = spec
<1> USE DEF TaskInv
<1>1. ASSUME NEW f \in Files, NEW e \in Editions, EditSource(f, e)
      PROVE  TaskInv' /\ UNCHANGED <<locks, spec>>
  BY <1>1, MaxApprovalsAssumption DEF EditSource, ApprovalSpend, TaskTypeOK, LocksAreOfSpec
<1>2. ASSUME NEW document \in BOOLEAN, CreateSpec(document)
      PROVE  TaskInv' /\ spec = NoSpec /\ locks' = locks
  <2>1. source.document \in Editions
    BY DEF TaskTypeOK, Files
  <2>2. spec' \in Editions \cup {NoDocument} /\ locks = <<>> /\ approval = Unheld
    BY <1>2, <2>1 DEF CreateSpec, LocksAreOfSpec
  <2>3. TaskTypeOK'
    BY <1>2, <2>2, MaxApprovalsAssumption DEF CreateSpec, ApprovalSpend, TaskTypeOK
  <2> QED BY <1>2, <2>2, <2>3 DEF CreateSpec, LocksAreOfSpec
<1>3. ASSUME NEW r \in Reviewers, BeginLock(r)
      PROVE  TaskInv' /\ UNCHANGED <<locks, spec>>
  BY <1>3, MaterialTyped, MaxApprovalsAssumption
     DEF BeginLock, ApprovalSpend, TaskTypeOK, LocksAreOfSpec
<1>4. CASE ConfirmLock
  <2>1. TaskInv' /\ UNCHANGED <<locks, spec>>
    BY <1>4 DEF ConfirmLock, TaskTypeOK, LocksAreOfSpec, Unheld
  <2> QED BY <2>1
<1>5. CASE RecordLock
  <2> DEFINE lock == LockOf(approval)
  <2>1. /\ approval \in [at: {"read", "confirmed"}, by: Reviewers, seen: [Material -> Editions]]
        /\ approval # Unheld
    BY <1>5 DEF RecordLock, TaskTypeOK, Unheld
  <2>2. /\ lock \in [by: Reviewers, seen: [Material -> Editions], spec: Editions \cup {NoDocument}]
        /\ lock.spec = spec
    BY <2>1 DEF LockOf, TaskTypeOK, LocksAreOfSpec
  <2>3. /\ locks' = locks \/ locks' = Append(locks, lock)
        /\ approval' = Unheld /\ UNCHANGED <<source, spec, locksTorn, approvals>>
    BY <1>5 DEF RecordLock
  <2> HIDE DEF lock
  <2>4. /\ TaskTypeOK'
        /\ DOMAIN locks \subseteq DOMAIN locks'
        /\ \A i \in DOMAIN locks : locks'[i] = locks[i]
        /\ \A i \in DOMAIN locks' : locks'[i].spec = spec
    <3> DEFINE Lock == [by: Reviewers, seen: [Material -> Editions], spec: Editions \cup {NoDocument}]
    <3>1. locks \in Seq(Lock) /\ lock \in Lock
      BY <2>2 DEF TaskTypeOK
    <3> HIDE DEF Lock
    <3>2. /\ locks' \in Seq(Lock)
          /\ DOMAIN locks \subseteq DOMAIN locks'
          /\ \A i \in DOMAIN locks : locks'[i] = locks[i]
          /\ \A i \in DOMAIN locks' : locks'[i] = lock \/ (i \in DOMAIN locks /\ locks'[i] = locks[i])
      BY <2>3, <3>1
    <3>3. TaskTypeOK'
      BY <2>3, <3>2 DEF TaskTypeOK, Lock
    <3> QED BY <2>2, <3>2, <3>3 DEF LocksAreOfSpec
  <2>5. LocksAreOfSpec'
    BY <2>1, <2>3, <2>4 DEF LocksAreOfSpec
  <2> QED BY <2>3, <2>4, <2>5
<1>6. CASE LockingEnds
  <2>1. TaskInv' /\ UNCHANGED <<locks, spec>>
    BY <1>6 DEF LockingEnds, TaskTypeOK, LocksAreOfSpec
  <2> QED BY <2>1
<1>7. CASE UNCHANGED taskVars
  BY <1>7 DEF taskVars, TaskTypeOK, LocksAreOfSpec
<1> QED BY <1>1, <1>2, <1>3, <1>4, <1>5, <1>6, <1>7 DEF TaskNext

\* An approval of a note follows it, and what was approved stays so.
NotesApproved ==
  /\ sidecar \in approved \cup {NoNote}
  /\ \A c \in Setters : setting[c] \in approved \cup {NoNote}

MemoryInv == MemoryTypeOK /\ NotesApproved

LEMMA MemoryStarts == MemoryInit => MemoryInv
BY NotesAssumption DEF MemoryInit, MemoryInv, MemoryTypeOK, NotesApproved

LEMMA MemoryKept ==
  ASSUME MemoryInv, [MemoryNext]_memoryVars
  PROVE  MemoryInv' /\ approved \subseteq approved'
BY NotesAssumption
   DEF MemoryInv, MemoryTypeOK, NotesApproved, MemoryNext, memoryVars, NoteSpend, WriteNote,
       ApproveNote, SetterDies, EditNote


Told(c)        == c.note \in approved \cup {NoNote}
LockVouches(c) == c.bySpec => /\ c.lock \in DOMAIN locks
                              /\ locks[c.lock].seen = c.material
                              /\ locks[c.lock].spec = c.document

\* What a context took of the records is on record still.
KeptFacts(log) ==
  /\ LogInOrder(log) /\ Len(log) <= Len(factLog)
  /\ \A i \in DOMAIN log : i \in DOMAIN factLog /\ factLog[i] = log[i]

CalledDocs(corpus) ==
  \A d \in VisibleDocs(corpus) :
    manifest[d] # NoEntry /\ manifest[d].role /\ manifest[d].privileged # Unknown

KeptLessons(texts) == \A p \in Lessons : texts[p] # NoWording => lessons[p] = texts[p]

KeptOffers(offers) ==
  \A p \in Lessons : offers[p] # NoOffer => firm[p] # NoReview /\ Offer(p) = offers[p]

KeptProfile(q) == q # NoProfile => q \in archive /\ q.evidence \in Calibrated

OnRecord(c) ==
  /\ KeptFacts(c.facts) /\ CalledDocs(c.corpus) /\ KeptLessons(c.lessons)
  /\ KeptOffers(c.firm) /\ KeptProfile(c.profile)

\* The texts are those of the documents a run may read, ...
TextsMatch(c) == {d \in Docs : c.texts[d] # Absent} = VisibleDocs(c.corpus)

\* ... and a whole context has a lock if it needs one, and can be shown.
Sealed(c) == (c.bySpec <=> c.lock # 0) /\ WithinLimit(c)

\* What holds of a context that was captured up to a step.
OnTheWay(at, c) ==
  /\ OnRecord(c)
  /\ at \in {"material", "lock", "corpus", "publish", "commit"} => TextsMatch(c)
  /\ at \in {"corpus", "publish", "commit"} => Sealed(c)
  /\ at # "note" => Told(c)
  /\ at \in {"facts", "manifest", "texts", "material", "lock"} /\ c.bySpec => spec = c.document
  /\ at \in {"corpus", "publish", "commit"} => LockVouches(c)
  /\ at \in {"publish", "commit"} => corpusFile = c.texts
  /\ at = "commit" => manifestFile = c

LaunchInOrder ==
  /\ launch # NotLaunching => started = NoFile /\ OnTheWay(launch.at, Context)
  /\ started # NoFile => /\ OnRecord(started) /\ TextsMatch(started) /\ Sealed(started)
                         /\ Told(started) /\ LockVouches(started)
                         /\ manifestFile = started /\ corpusFile = started.texts

LaunchInv == LaunchTypeOK /\ LaunchInOrder

Inv == CorpusInv /\ FactInv /\ TaskInv /\ MemoryInv /\ LearnInv /\ ProfileInv /\ LaunchInv

Steps == {"note", "shared", "open", "spec", "facts", "manifest", "texts", "material", "lock",
          "corpus", "publish", "commit"}

LEMMA LaunchStarts == LaunchInit => LaunchInv
BY MaxLaunchesAssumption DEF LaunchInit, LaunchInv, LaunchTypeOK, LaunchInOrder

LEMMA BlankTyped ==
  ASSUME Inv
  PROVE  Blank \in Contexts
<1>1. MaterialOf(source) \in [Material -> Editions] /\ judge \in Judges
  BY MaterialTyped DEF Inv, TaskInv, ProfileInv, ProfileTypeOK
<1>2. /\ [p \in Lessons |-> NoWording] \in [Lessons -> Wordings \cup {NoWording}]
      /\ [p \in Lessons |-> NoOffer] \in [Lessons -> Offers] /\ "discovery" \in Tasks
      /\ NoCorpus \in [Docs -> Entries \cup {NoEntry}]
      /\ NoTexts \in [Docs -> AnyText \cup {Absent}]
      /\ <<>> \in Seq(Lines) /\ 0 \in Nat
  BY DEF NoCorpus, NoTexts, NoOffer, Offers, Tasks
<1> QED BY <1>1, <1>2 DEF Blank, Contexts

LEMMA BlankRecorded ==
  ASSUME Inv
  PROVE  /\ KeptFacts(<<>>) /\ CalledDocs(NoCorpus) /\ KeptLessons(lessons)
         /\ KeptOffers([p \in Lessons |-> NoOffer]) /\ KeptProfile(NoProfile)
<1>1. LogInOrder(<<>>)
  BY DEF LogInOrder, LastsExist, FirstsExist, HeirsAgree, PointersStand, PredecessorsKnown,
         Written, Successions
<1>2. factLog \in Seq(Lines)
  BY DEF Inv, FactInv, FactTypeOK
<1>3. KeptFacts(<<>>)
  BY <1>1, <1>2 DEF KeptFacts
<1>4. CalledDocs(NoCorpus)
  BY DEF CalledDocs, VisibleDocs, NoCorpus, RunVisible
<1> QED BY <1>3, <1>4 DEF KeptLessons, KeptOffers, KeptProfile

(***************************************************************************)
(* The records grow: nothing that a context took from them goes away.      *)
(***************************************************************************)

LEMMA FactsGrow ==
  ASSUME FactInv, [FactNext]_factVars, NEW log, KeptFacts(log)
  PROVE  KeptFacts(log)'
<1>1. factLog \in Seq(Lines)
  BY DEF FactInv, FactTypeOK
<1>2. factLog' = factLog \/ \E line : factLog' = Append(factLog, line)
  BY DEF FactNext, factVars, AddFact, ProposeFact, ProposeRevision, BeginAccept, BeginReject,
         RecordReview, CloseBefore, ReviewDies
<1>3. /\ Len(factLog) <= Len(factLog') /\ Len(factLog') \in Nat
      /\ \A i \in DOMAIN factLog : i \in DOMAIN factLog' /\ factLog'[i] = factLog[i]
  BY <1>1, <1>2
<1>4. Len(log) \in Nat /\ Len(factLog) \in Nat
  BY <1>1 DEF KeptFacts, LogInOrder
<1> QED BY <1>3, <1>4 DEF KeptFacts

LEMMA CallsStand ==
  ASSUME CorpusInv, [CorpusNext]_corpusVars, NEW corpus, CalledDocs(corpus)
  PROVE  CalledDocs(corpus)'
<1> SUFFICES ASSUME NEW d \in VisibleDocs(corpus)
             PROVE  manifest'[d] # NoEntry /\ manifest'[d].role /\ manifest'[d].privileged # Unknown
  BY DEF CalledDocs, VisibleDocs
<1>1. d \in Docs /\ manifest[d] # NoEntry /\ manifest[d].role /\ manifest[d].privileged # Unknown
  BY DEF CalledDocs, VisibleDocs
<1> QED BY <1>1, CallsKept

\* A text, in this matter or in the firm's, is written once.
LEMMA LessonsStand ==
  ASSUME LearnInv, [LearnNext]_learnVars, NEW p \in Lessons
  PROVE  /\ lessons[p] # NoWording => lessons'[p] = lessons[p]
         /\ firm[p] # NoReview => firm'[p] = firm[p]
<1>1. LearnTypeOK
  BY DEF LearnInv
<1>2. ASSUME NEW q \in People, PublishFirm(q)
      PROVE  firm[p] # NoReview => firm'[p] = firm[p]
  <2>1. reviewing[q].review.lesson \in Lessons
    BY <1>1, <1>2, ReviewingFields, ReviewFields DEF PublishFirm
  <2> QED BY <1>1, <1>2, <2>1 DEF PublishFirm, LearnTypeOK
<1>3. ASSUME NEW q \in People, Contribute(q)
      PROVE  lessons[p] # NoWording => lessons'[p] = lessons[p]
  <2>1. reviewing[q].review.lesson \in Lessons
    BY <1>1, <1>3, ReviewingFields, ReviewFields DEF Contribute
  <2> QED BY <1>1, <1>3, <2>1 DEF Contribute, LearnTypeOK
<1> QED
  BY <1>2, <1>3
     DEF LearnNext, learnVars, ImportSource, ImportBundle, AskReview, EnterReview, PublishFirm,
         LogReview, Contribute, ReviewEnds

LEMMA OffersStand ==
  ASSUME LearnInv, [LearnNext]_learnVars, NEW texts, KeptLessons(texts), NEW offers, KeptOffers(offers)
  PROVE  KeptLessons(texts)' /\ KeptOffers(offers)'
<1>1. ASSUME NEW p \in Lessons
      PROVE  /\ lessons[p] # NoWording => lessons'[p] = lessons[p]
             /\ firm[p] # NoReview => firm'[p] = firm[p]
  BY LessonsStand
<1>2. KeptLessons(texts)'
  BY <1>1 DEF KeptLessons
<1>3. KeptOffers(offers)'
  BY <1>1 DEF KeptOffers, Offer
<1> QED BY <1>2, <1>3

LEMMA ArchiveGrows ==
  ASSUME [ProfileNext]_profileVars
  PROVE  archive \subseteq archive'
BY DEF ProfileNext, profileVars, EditCaption, BeginBuild, Fetched, ArchiveProfile, PointAt, BuildEnds

LEMMA RecordsGrow ==
  ASSUME Inv, [Next]_vars, NEW c, OnRecord(c)
  PROVE  OnRecord(c)'
<1>1. archive \subseteq archive'
  BY Parts, ArchiveGrows
<1>2. KeptProfile(c.profile)'
  BY <1>1 DEF OnRecord, KeptProfile
<1>3. KeptFacts(c.facts)' /\ CalledDocs(c.corpus)' /\ KeptLessons(c.lessons)' /\ KeptOffers(c.firm)'
  BY Parts, FactsGrow, CallsStand, OffersStand DEF OnRecord, Inv
<1> QED BY <1>2, <1>3 DEF OnRecord

\* While the sources change the launch stands still, and what it took stays true.
LEMMA SourcesMove ==
  ASSUME Inv, [Next]_vars, UNCHANGED launchVars
  PROVE  LaunchInv'
<1>1. /\ DOMAIN locks \subseteq DOMAIN locks'
      /\ \A i \in DOMAIN locks : locks'[i] = locks[i]
      /\ spec # NoSpec => spec' = spec
      /\ approved \subseteq approved'
  BY Parts, TaskKept, MemoryKept DEF Inv
<1>2. \A c \in Contexts : c.document # NoSpec
  BY EditionsAssumption DEF Contexts, NoDocument, NoSpec
<1>3. UNCHANGED <<launch, corpusFile, manifestFile, started, launches>> /\ LaunchTypeOK
  BY DEF launchVars, Inv, LaunchInv
<1>4. launch # NotLaunching => Context \in Contexts
  BY <1>3 DEF LaunchTypeOK, Context
<1>5. LaunchTypeOK'
  BY <1>3 DEF LaunchTypeOK
<1>6. \A c : OnRecord(c) => OnRecord(c)'
  BY RecordsGrow
<1>7. \A c : (TextsMatch(c)' <=> TextsMatch(c)) /\ (Sealed(c)' <=> Sealed(c))
  BY DEF TextsMatch, Sealed, WithinLimit, Assembled, FactItems, CorpusItems, ContributionItems,
         DocumentItems, LessonsFor, OffersFor, VisibleDocs
<1>8. LaunchInOrder'
  BY <1>1, <1>2, <1>3, <1>4, <1>6, <1>7
     DEF Inv, LaunchInv, LaunchInOrder, OnTheWay, Told, LockVouches, Context
<1> QED BY <1>5, <1>8 DEF LaunchInv

LEMMA AsRecorded ==
  ASSUME UNCHANGED sourceVars, NEW c
  PROVE  /\ OnRecord(c)' <=> OnRecord(c)
         /\ TextsMatch(c)' <=> TextsMatch(c)
         /\ Sealed(c)' <=> Sealed(c)
<1>1. UNCHANGED <<factLog, manifest, lessons, firm, archive>>
  BY DEF sourceVars, factVars, corpusVars, learnVars, profileVars
<1>2. OnRecord(c)' <=> OnRecord(c)
  BY <1>1 DEF OnRecord, KeptFacts, CalledDocs, KeptLessons, KeptOffers, KeptProfile, Offer,
              VisibleDocs
<1>3. (TextsMatch(c)' <=> TextsMatch(c)) /\ (Sealed(c)' <=> Sealed(c))
  BY DEF TextsMatch, Sealed, WithinLimit, Assembled, FactItems, CorpusItems, ContributionItems,
         DocumentItems, LessonsFor, OffersFor, VisibleDocs
<1> QED BY <1>2, <1>3

\* A step that captures: what it must establish.
LEMMA CapturesKeeps ==
  ASSUME Inv, UNCHANGED sourceVars, started = NoFile, started' = NoFile,
         NEW at \in Steps, NEW n \in Contexts, Captures(at, n),
         launches' \in 0 .. MaxLaunches,
         corpusFile' = NoFile \/ corpusFile' \in [Docs -> AnyText \cup {Absent}],
         manifestFile' \in {NoFile} \cup Contexts,
         OnRecord(n), at # "note" => Told(n),
         at \in {"material", "lock", "corpus", "publish", "commit"} => TextsMatch(n),
         at \in {"corpus", "publish", "commit"} => Sealed(n),
         at \in {"facts", "manifest", "texts", "material", "lock"} /\ n.bySpec => spec = n.document,
         at \in {"corpus", "publish", "commit"} => LockVouches(n),
         at \in {"publish", "commit"} => corpusFile' = n.texts,
         at = "commit" => manifestFile' = n
  PROVE  LaunchInv'
<1>1. launch' = [at |-> at, context |-> n]
  BY DEF Captures
<1>2. LaunchTypeOK'
  BY <1>1 DEF LaunchTypeOK, Steps
<1>3. UNCHANGED <<approved, locks, spec>>
  BY DEF sourceVars, memoryVars, taskVars
<1>4. OnRecord(n)' /\ (TextsMatch(n)' <=> TextsMatch(n)) /\ (Sealed(n)' <=> Sealed(n))
  BY AsRecorded
<1>5. LaunchInOrder'
  BY <1>1, <1>3, <1>4 DEF LaunchInOrder, OnTheWay, Told, LockVouches, Context
<1> QED BY <1>2, <1>5 DEF LaunchInv


\* Two contexts that took the same of the records.
Alike(n, c) ==
  /\ n.facts = c.facts /\ n.corpus = c.corpus /\ n.lessons = c.lessons
  /\ n.firm = c.firm /\ n.profile = c.profile

LEMMA AlikeRecorded ==
  ASSUME NEW n, NEW c, Alike(n, c), OnRecord(c)
  PROVE  OnRecord(n)
BY DEF Alike, OnRecord

LEMMA UnderWay ==
  ASSUME Inv, launch.at # "idle"
  PROVE  /\ Context \in Contexts /\ launch.at \in Steps /\ OnTheWay(launch.at, Context)
         /\ started = NoFile /\ launch # NotLaunching
         /\ launches \in 0 .. MaxLaunches
         /\ corpusFile = NoFile \/ corpusFile \in [Docs -> AnyText \cup {Absent}]
         /\ manifestFile \in {NoFile} \cup Contexts
<1>1. launch # NotLaunching /\ LaunchTypeOK
  BY DEF Inv, LaunchInv, NotLaunching
<1> QED BY <1>1 DEF Inv, LaunchInv, LaunchInOrder, LaunchTypeOK, Context, Steps

LEMMA GatherKeeps ==
  ASSUME Inv, UNCHANGED sourceVars, NEW task \in Tasks, NEW bySpec \in BOOLEAN,
         Gather(task, bySpec)
  PROVE  LaunchInv'
<1> DEFINE n == [Blank EXCEPT !.task = task, !.bySpec = bySpec, !.lessons = lessons, !.note = markdown]
<1>1. /\ lessons \in [Lessons -> Wordings \cup {NoWording}] /\ markdown \in Notes \cup {NoNote}
      /\ Blank \in Contexts /\ LaunchTypeOK
  BY BlankTyped DEF Inv, LearnInv, LearnTypeOK, MemoryInv, MemoryTypeOK, LaunchInv
<1>0. /\ n.facts = <<>> /\ n.corpus = NoCorpus /\ n.lessons = lessons
      /\ n.firm = [p \in Lessons |-> NoOffer] /\ n.profile = NoProfile
  BY DEF Blank
<1> HIDE DEF Blank
<1>2. n \in Contexts /\ OnRecord(n)
  <2>1. n \in Contexts
    BY <1>1 DEF Contexts
  <2> HIDE DEF n
  <2> QED BY <1>0, <2>1, BlankRecorded DEF OnRecord
<1> HIDE DEF n
<1>3. Captures("note", n) /\ started = NoFile /\ UNCHANGED <<corpusFile, manifestFile, started>>
  BY DEF Gather, n
<1>4. launches' \in 0 .. MaxLaunches
  BY <1>1, MaxLaunchesAssumption DEF Gather, LaunchTypeOK
<1>5. "note" \in Steps
  BY DEF Steps
<1> QED BY <1>1, <1>2, <1>3, <1>4, <1>5, CapturesKeeps DEF LaunchTypeOK

LEMMA GatherNoteKeeps ==
  ASSUME Inv, UNCHANGED sourceVars, GatherNote
  PROVE  LaunchInv'
<1>1. Context \in Contexts /\ started = NoFile /\ "shared" \in Steps /\ OnRecord(Context)
  BY UnderWay DEF GatherNote, Steps, OnTheWay
<1>2. Told(Context)
  BY DEF GatherNote, NoteStands, Told, Inv, MemoryInv, NotesApproved
<1> QED BY <1>1, <1>2, UnderWay, CapturesKeeps DEF GatherNote

LEMMA GatherSharedKeeps ==
  ASSUME Inv, UNCHANGED sourceVars, GatherShared
  PROVE  LaunchInv'
<1> DEFINE offers  == [p \in Lessons |-> Offer(p)]
           profile == ProfileFor(Context.caption)
           n == [Context EXCEPT !.firm = offers, !.profile = profile]
<1>1. /\ Context \in Contexts /\ started = NoFile /\ "open" \in Steps
      /\ Told(Context) /\ OnRecord(Context)
  BY UnderWay DEF GatherShared, Steps, OnTheWay
<1>2. offers \in [Lessons -> Offers] /\ KeptOffers(offers)
  <2>1. \A p \in Lessons : Offer(p) \in Offers
    BY ReviewFields DEF Offer, NoOffer, Offers, Inv, LearnInv, LearnTypeOK
  <2> QED BY <2>1 DEF KeptOffers, Offer
<1>3. profile \in Profiles \cup {NoProfile} /\ KeptProfile(profile)
  BY DEF ProfileFor, KeptProfile, GatherShared, Loads, Inv, ProfileInv, ProfileTypeOK
<1> HIDE DEF offers, profile
<1>4. /\ n \in Contexts /\ n.note = Context.note /\ n.firm = offers /\ n.profile = profile
      /\ n.facts = Context.facts /\ n.corpus = Context.corpus /\ n.lessons = Context.lessons
  BY <1>1, <1>2, <1>3 DEF Contexts
<1>5. Captures("open", n)
  BY DEF GatherShared, offers, profile
<1> HIDE DEF n
<1>6. OnRecord(n)
  BY <1>1, <1>2, <1>3, <1>4 DEF OnRecord
<1> QED BY <1>1, <1>4, <1>5, <1>6, UnderWay, CapturesKeeps DEF GatherShared, Told

LEMMA OpenKeeps ==
  ASSUME Inv, UNCHANGED sourceVars, OpenRun
  PROVE  LaunchInv'
<1> DEFINE n == [Context EXCEPT !.material = MaterialOf(source), !.caption = judge]
<1>1. /\ Context \in Contexts /\ started = NoFile /\ "spec" \in Steps
      /\ Told(Context) /\ OnRecord(Context)
  BY UnderWay DEF OpenRun, Steps, OnTheWay
<1>2. MaterialOf(source) \in [Material -> Editions] /\ judge \in Judges
  BY MaterialTyped DEF Inv, TaskInv, ProfileInv, ProfileTypeOK
<1>3. n \in Contexts /\ n.note = Context.note /\ Alike(n, Context)
  BY <1>1, <1>2 DEF Contexts, Alike
<1>4. Captures("spec", n)
  BY DEF OpenRun
<1> HIDE DEF n
<1>5. OnRecord(n)
  BY <1>1, <1>3, <1>4, AlikeRecorded
<1> QED BY <1>1, <1>3, <1>4, <1>5, UnderWay, CapturesKeeps DEF OpenRun, Told

LEMMA SpecKeeps ==
  ASSUME Inv, UNCHANGED sourceVars, TakeSpec
  PROVE  LaunchInv'
<1> DEFINE document == IF Context.task = "document" THEN source.document ELSE NoDocument
           n == [Context EXCEPT !.document = document]
<1>1. /\ Context \in Contexts /\ started = NoFile /\ "facts" \in Steps
      /\ Told(Context) /\ OnRecord(Context)
  BY UnderWay DEF TakeSpec, Steps, OnTheWay
<1>2. document \in Editions \cup {NoDocument}
  BY DEF Inv, TaskInv, TaskTypeOK, Files
<1>3. Captures("facts", n) /\ (Context.bySpec => spec = document)
  BY DEF TakeSpec
<1> HIDE DEF document
<1>4. /\ n \in Contexts /\ n.note = Context.note /\ Alike(n, Context)
      /\ n.bySpec = Context.bySpec /\ n.document = document
  BY <1>1, <1>2 DEF Contexts, Alike
<1> HIDE DEF n
<1>5. OnRecord(n)
  BY <1>1, <1>3, <1>4, AlikeRecorded
<1> QED BY <1>1, <1>3, <1>4, <1>5, UnderWay, CapturesKeeps DEF TakeSpec, Told

LEMMA FactsKeeps ==
  ASSUME Inv, UNCHANGED sourceVars, TakeFacts
  PROVE  LaunchInv'
<1> DEFINE facts == OfDiscovery(factLog, <<>>)
           n == [Context EXCEPT !.facts = facts]
<1>1. /\ Context \in Contexts /\ started = NoFile /\ "manifest" \in Steps
      /\ Told(Context) /\ OnRecord(Context) /\ (Context.bySpec => spec = Context.document)
  BY UnderWay DEF TakeFacts, Steps, OnTheWay
<1>2. facts \in Seq(Lines)
  BY DEF OfDiscovery, Inv, FactInv, FactTypeOK
<1>3. Captures("manifest", n)
  BY DEF TakeFacts
<1> HIDE DEF facts
<1>4. /\ n \in Contexts /\ n.note = Context.note
      /\ n.facts = facts /\ n.corpus = Context.corpus /\ n.lessons = Context.lessons
      /\ n.firm = Context.firm /\ n.profile = Context.profile
      /\ n.bySpec = Context.bySpec /\ n.document = Context.document
  BY <1>1, <1>2 DEF Contexts
<1> HIDE DEF n
<1>5. KeptFacts(facts)
  <2>1. KeptFacts(factLog)
    BY DEF KeptFacts, Inv, FactInv, FactTypeOK
  <2> QED BY <2>1, BlankRecorded DEF OfDiscovery, facts
<1>6. OnRecord(n)
  BY <1>1, <1>4, <1>5 DEF OnRecord
<1> QED BY <1>1, <1>3, <1>4, <1>6, UnderWay, CapturesKeeps DEF TakeFacts, Told

LEMMA ManifestKeeps ==
  ASSUME Inv, UNCHANGED sourceVars, TakeManifest
  PROVE  LaunchInv'
<1> DEFINE n == [Context EXCEPT !.corpus = manifest]
<1>1. /\ Context \in Contexts /\ started = NoFile /\ "texts" \in Steps
      /\ Told(Context) /\ OnRecord(Context) /\ (Context.bySpec => spec = Context.document)
  BY UnderWay DEF TakeManifest, Steps, OnTheWay
<1>2. manifest \in [Docs -> Entries \cup {NoEntry}]
  BY DEF Inv, CorpusInv, CorpusTypeOK
<1>3. Captures("texts", n)
  BY DEF TakeManifest
<1>4. /\ n \in Contexts /\ n.note = Context.note
      /\ n.corpus = manifest /\ n.facts = Context.facts /\ n.lessons = Context.lessons
      /\ n.firm = Context.firm /\ n.profile = Context.profile
      /\ n.bySpec = Context.bySpec /\ n.document = Context.document
  BY <1>1, <1>2 DEF Contexts
<1> HIDE DEF n
<1>5. CalledDocs(manifest)
  BY EntryFields DEF CalledDocs, VisibleDocs, RunVisible, Inv, CorpusInv, CorpusTypeOK
<1>6. OnRecord(n)
  BY <1>1, <1>4, <1>5 DEF OnRecord
<1> QED BY <1>1, <1>3, <1>4, <1>6, UnderWay, CapturesKeeps DEF TakeManifest, Told

LEMMA TextsKeeps ==
  ASSUME Inv, UNCHANGED sourceVars, TakeTexts
  PROVE  LaunchInv'
<1> DEFINE visible == VisibleDocs(Context.corpus)
           corpus == OfDiscovery(Context.corpus, NoCorpus)
           texts  == OfDiscovery([d \in Docs |-> IF d \in visible THEN text[d] ELSE Absent], NoTexts)
           n == [Context EXCEPT !.corpus = corpus, !.texts = texts]
<1>1. /\ Context \in Contexts /\ started = NoFile /\ "material" \in Steps
      /\ Told(Context) /\ OnRecord(Context) /\ (Context.bySpec => spec = Context.document)
  BY UnderWay DEF TakeTexts, Steps, OnTheWay
<1>2. text \in [Docs -> AnyText \cup {Absent}]
  BY DEF Inv, CorpusInv, CorpusTypeOK
<1>3. corpus \in [Docs -> Entries \cup {NoEntry}]
  BY <1>1 DEF OfDiscovery, NoCorpus, Contexts
<1>4. texts \in [Docs -> AnyText \cup {Absent}]
  <2> HIDE DEF visible
  <2> QED BY <1>2 DEF OfDiscovery, NoTexts
<1>5. Captures("material", n)
  BY DEF TakeTexts
<1>6. CalledDocs(corpus) /\ {d \in Docs : texts[d] # Absent} = VisibleDocs(corpus)
  <2>1. CASE Context.task = "discovery"
    <3>1. /\ corpus = Context.corpus /\ visible \subseteq Docs
          /\ texts = [d \in Docs |-> IF d \in visible THEN text[d] ELSE Absent]
      BY <2>1 DEF OfDiscovery, VisibleDocs
    <3>2. \A d \in visible : text[d] # Absent
      BY DEF TakeTexts
    <3>3. CalledDocs(corpus)
      BY <1>1, <3>1 DEF OnRecord
    <3> HIDE DEF corpus, texts
    <3> QED BY <3>1, <3>2, <3>3
  <2>2. CASE Context.task # "discovery"
    <3>1. corpus = NoCorpus /\ texts = NoTexts
      BY <2>2 DEF OfDiscovery
    <3> HIDE DEF corpus, texts
    <3> QED BY <3>1, BlankRecorded DEF VisibleDocs, NoCorpus, NoTexts, RunVisible
  <2> QED BY <2>1, <2>2
<1> HIDE DEF corpus, texts
<1>7. /\ n \in Contexts /\ n.note = Context.note
      /\ n.corpus = corpus /\ n.texts = texts /\ n.facts = Context.facts
      /\ n.lessons = Context.lessons /\ n.firm = Context.firm /\ n.profile = Context.profile
      /\ n.bySpec = Context.bySpec /\ n.document = Context.document
  BY <1>1, <1>3, <1>4 DEF Contexts
<1> HIDE DEF n
<1>8. OnRecord(n) /\ TextsMatch(n)
  BY <1>1, <1>7, <1>6 DEF OnRecord, TextsMatch
<1> QED BY <1>1, <1>5, <1>7, <1>8, UnderWay, CapturesKeeps DEF TakeTexts, Told

LEMMA MaterialKeeps ==
  ASSUME Inv, UNCHANGED sourceVars, TakeMaterial
  PROVE  LaunchInv'
<1>1. /\ Context \in Contexts /\ started = NoFile /\ "lock" \in Steps
      /\ Told(Context) /\ OnRecord(Context) /\ TextsMatch(Context) /\ (Context.bySpec => spec = Context.document)
  BY UnderWay DEF TakeMaterial, Steps, OnTheWay
<1> QED BY <1>1, UnderWay, CapturesKeeps DEF TakeMaterial

LEMMA LockKeeps ==
  ASSUME Inv, UNCHANGED sourceVars, RequireLock
  PROVE  LaunchInv'
<1> DEFINE lock == IF Context.bySpec THEN Len(locks) ELSE 0
           n == [Context EXCEPT !.lock = lock]
<1>1. /\ Context \in Contexts /\ started = NoFile /\ "corpus" \in Steps
      /\ Told(Context) /\ OnRecord(Context) /\ TextsMatch(Context) /\ (Context.bySpec => spec = Context.document)
  BY UnderWay DEF RequireLock, Steps, OnTheWay
<1>2. /\ locks \in Seq([by: Reviewers, seen: [Material -> Editions], spec: Editions \cup {NoDocument}])
      /\ \A i \in DOMAIN locks : locks[i].spec = spec
  BY DEF Inv, TaskInv, TaskTypeOK, LocksAreOfSpec
<1>3. /\ lock \in Nat /\ Captures("corpus", n) /\ WithinLimit(Context)
      /\ Context.bySpec <=> lock # 0
  <2>1. Context.bySpec => locks # <<>>
    BY DEF RequireLock, CurrentLock
  <2>2. locks # <<>> => Len(locks) # 0
    BY <1>2
  <2> QED BY <1>2, <2>1, <2>2 DEF RequireLock
<1>4. Context.bySpec => /\ lock \in DOMAIN locks /\ locks[lock].seen = Context.material
                        /\ locks[lock].spec = Context.document
  <2> SUFFICES ASSUME Context.bySpec
               PROVE  /\ lock \in DOMAIN locks /\ locks[lock].seen = Context.material
                      /\ locks[lock].spec = Context.document
    OBVIOUS
  <2>1. lock = Len(locks) /\ locks # <<>> /\ locks[Len(locks)].seen = Context.material
    BY DEF RequireLock, CurrentLock
  <2>2. Len(locks) \in DOMAIN locks
    BY <1>2, <2>1
  <2> QED BY <1>1, <1>2, <2>1, <2>2
<1> HIDE DEF lock
<1>5. /\ n \in Contexts /\ n.note = Context.note /\ n.lock = lock /\ n.bySpec = Context.bySpec
      /\ n.document = Context.document /\ n.material = Context.material /\ Alike(n, Context)
      /\ n.texts = Context.texts /\ n.task = Context.task
  BY <1>1, <1>3 DEF Contexts, Alike
<1> HIDE DEF n
<1>6. OnRecord(n) /\ TextsMatch(n)
  BY <1>1, <1>5, AlikeRecorded DEF TextsMatch, Alike
<1>7. Sealed(n)
  <2>1. Assembled(n) = Assembled(Context)
    BY <1>5 DEF Assembled, FactItems, CorpusItems, ContributionItems, DocumentItems, LessonsFor,
                OffersFor, Alike
  <2> QED BY <1>3, <1>5, <2>1 DEF Sealed, WithinLimit
<1> QED BY <1>1, <1>3, <1>4, <1>5, <1>6, <1>7, UnderWay, CapturesKeeps DEF RequireLock, Told, LockVouches


LEMMA CorpusFileKeeps ==
  ASSUME Inv, UNCHANGED sourceVars, PublishCorpus
  PROVE  LaunchInv'
<1>1. /\ Context \in Contexts /\ started = NoFile /\ "publish" \in Steps
      /\ Told(Context) /\ LockVouches(Context)
      /\ OnRecord(Context) /\ TextsMatch(Context) /\ Sealed(Context)
  BY UnderWay DEF PublishCorpus, Steps, OnTheWay
<1>2. Context.texts \in [Docs -> AnyText \cup {Absent}]
  BY <1>1 DEF Contexts
<1> QED BY <1>1, <1>2, UnderWay, CapturesKeeps DEF PublishCorpus

LEMMA ManifestFileKeeps ==
  ASSUME Inv, UNCHANGED sourceVars, PublishManifest
  PROVE  LaunchInv'
<1>1. /\ Context \in Contexts /\ started = NoFile /\ "commit" \in Steps
      /\ Told(Context) /\ LockVouches(Context)
      /\ OnRecord(Context) /\ TextsMatch(Context) /\ Sealed(Context) /\ corpusFile = Context.texts
  BY UnderWay DEF PublishManifest, Steps, OnTheWay
<1> QED BY <1>1, UnderWay, CapturesKeeps DEF PublishManifest

LEMMA CommitKeeps ==
  ASSUME Inv, UNCHANGED sourceVars, CommitStart
  PROVE  LaunchInv'
<1>1. /\ Context \in Contexts /\ started = NoFile /\ Told(Context) /\ LockVouches(Context)
      /\ OnRecord(Context) /\ TextsMatch(Context) /\ Sealed(Context)
      /\ corpusFile = Context.texts /\ manifestFile = Context /\ LaunchTypeOK
  BY UnderWay DEF CommitStart, Steps, OnTheWay, Inv, LaunchInv
<1>2. /\ started' = Context /\ launch' = NotLaunching
      /\ UNCHANGED <<corpusFile, manifestFile, launches>>
  BY DEF CommitStart
<1>3. LaunchTypeOK'
  BY <1>1, <1>2 DEF LaunchTypeOK
<1>4. UNCHANGED <<approved, locks>>
  BY DEF sourceVars, memoryVars, taskVars
<1>5. \A c : /\ OnRecord(c)' <=> OnRecord(c)
            /\ (TextsMatch(c)' <=> TextsMatch(c)) /\ (Sealed(c)' <=> Sealed(c))
  BY AsRecorded
<1>6. LaunchInOrder'
  BY <1>1, <1>2, <1>4, <1>5 DEF LaunchInOrder, Told, LockVouches
<1> QED BY <1>3, <1>6 DEF LaunchInv

LEMMA EndKeeps ==
  ASSUME Inv, UNCHANGED sourceVars, LaunchEnds
  PROVE  LaunchInv'
<1>1. UNCHANGED <<approved, locks>>
  BY DEF sourceVars, memoryVars, taskVars
<1>2. LaunchTypeOK' /\ started = NoFile /\ started' = started
  BY DEF LaunchEnds, Inv, LaunchInv, LaunchTypeOK, LaunchInOrder
<1>3. UNCHANGED <<launches, corpusFile, manifestFile>> /\ launch' = NotLaunching
  BY DEF LaunchEnds
<1> QED BY <1>1, <1>2, <1>3 DEF LaunchEnds, LaunchInv, LaunchInOrder

LEMMA LaunchKept ==
  ASSUME Inv, [Next]_vars
  PROVE  LaunchInv'
<1>1. CASE LaunchStep /\ UNCHANGED sourceVars
  BY <1>1, GatherKeeps, GatherNoteKeeps, GatherSharedKeeps, OpenKeeps, SpecKeeps, FactsKeeps,
     ManifestKeeps, TextsKeeps, MaterialKeeps, LockKeeps, CorpusFileKeeps, ManifestFileKeeps,
     CommitKeeps, EndKeeps
     DEF LaunchStep
<1>2. CASE UNCHANGED launchVars
  BY <1>2, Parts, SourcesMove
<1> QED BY <1>1, <1>2, Parts

LEMMA InvStarts == Init => Inv
BY CorpusStarts, FactStarts, TaskStarts, MemoryStarts, LearnStarts, ProfileStarts, LaunchStarts
   DEF Init, Inv

LEMMA InvKept == Inv /\ [Next]_vars => Inv'
BY Parts, CorpusKept, FactKept, TaskKept, MemoryKept, LearnKept, ProfileKept, LaunchKept DEF Inv

THEOREM Invariance == Spec => []Inv
BY InvStarts, InvKept, PTL DEF Spec

\* Every part and the launch keep their types, the captured contexts among them.
THEOREM TypeCorrect == Spec => []TypeOK
<1>1. Inv => TypeOK
  BY DEF Inv, TypeOK, CorpusInv, FactInv, TaskInv, MemoryInv, LearnInv, ProfileInv, LaunchInv
<1> QED BY <1>1, Invariance, PTL

\* A run that started can be loaded again for good: its files are those it committed to,
\* they agree with each other, and its context can be shown (write_run_context,
\* load_run_context, load_run_corpus).
THEOREM StartsAreWhole == Spec => []StartedIsWhole
<1>1. Inv => StartedIsWhole
  <2> SUFFICES ASSUME Inv, started # NoFile
               PROVE  LoadsContext /\ LoadsCorpus
    BY DEF StartedIsWhole
  <2>1. /\ TextsMatch(started) /\ Sealed(started)
        /\ manifestFile = started /\ corpusFile = started.texts
    BY DEF Inv, LaunchInv, LaunchInOrder
  <2> QED BY <2>1 DEF LoadsContext, LoadsCorpus, TextsMatch, Sealed
<1> QED BY <1>1, Invariance, PTL

\* The material a run was started with is the one that a lock on record approved, however
\* often it was edited and locked meanwhile (require_current_lock, build_run_context).
THEOREM LaunchesAreApproved == Spec => []LaunchedAsApproved
<1>1. Inv => LaunchedAsApproved
  BY DEF Inv, LaunchInv, LaunchInOrder, LockVouches, LaunchedAsApproved
<1> QED BY <1>1, Invariance, PTL

\* A run is told no standing note that nobody approved (load_context_memory).
THEOREM MemoriesAreApproved == Spec => []MemoryApproved
<1>1. Inv => MemoryApproved
  BY DEF Inv, LaunchInv, LaunchInOrder, Told, MemoryApproved
<1> QED BY <1>1, Invariance, PTL

(***************************************************************************)
(* What a persona is shown: each kind of item is on record, and only our   *)
(* side is shown what names no persona.                                    *)
(***************************************************************************)

LEMMA ItemFields ==
  \A kind, of, body, personas :
    LET item == Item(kind, of, body, personas) IN
    item.kind = kind /\ item.of = of /\ item.text = body /\ item.personas = personas
BY DEF Item

LEMMA FactsVouched ==
  ASSUME NEW c, KeptFacts(c.facts), NEW item \in FactItems(c)
  PROVE  item.kind = "fact" /\ item.personas = Everyone /\ Vouched(item)
<1>1. PICK f \in VisibleFacts(c.facts) : item = Item("fact", f, f, Everyone)
  BY DEF FactItems
<1>2. f \in Facts /\ Known(c.facts, f) /\ Folded(c.facts, f).status = "accepted"
  BY DEF VisibleFacts
<1>3. PICK i \in Written(c.facts, f) : c.facts[i].status = Folded(c.facts, f).status
  BY <1>2, FoldIs DEF KeptFacts
<1>4. i \in DOMAIN factLog /\ factLog[i].fact = f /\ factLog[i].status = "accepted"
  BY <1>2, <1>3 DEF Written, KeptFacts
<1> QED BY <1>1, <1>4, ItemFields DEF Vouched

LEMMA PassagesVouched ==
  ASSUME NEW c, CalledDocs(c.corpus), NEW item \in CorpusItems(c)
  PROVE  item.kind = "passage" /\ item.personas = Everyone /\ Vouched(item)
<1>1. PICK d \in VisibleDocs(c.corpus) : item = Item("passage", d, c.texts[d], Everyone)
  BY DEF CorpusItems
<1> QED BY <1>1, ItemFields DEF Vouched, CalledDocs

LEMMA ContributionsVouched ==
  ASSUME Inv, NEW c, OnRecord(c), Told(c), NEW item \in ContributionItems(c)
  PROVE  /\ Vouched(item)
         /\ \/ item.kind \in {"lesson", "offer", "note"} /\ item.personas = Everyone
            \/ item.kind = "profile" /\ item.personas = {"judge"}
<1>1. ContextIsReviewed /\ FirmIsAccepted
  BY LearnSays DEF Inv
<1>2. ASSUME NEW p \in LessonsFor(c), item = Item("lesson", p, c.lessons[p], Everyone)
      PROVE  Vouched(item) /\ item.kind = "lesson" /\ item.personas = Everyone
  <2>1. p \in Lessons /\ lessons[p] = c.lessons[p] /\ lessons[p] # NoWording
    BY DEF LessonsFor, OnRecord, KeptLessons
  <2> QED BY <1>1, <1>2, <2>1, ItemFields DEF Vouched, ContextIsReviewed
<1>3. ASSUME NEW p \in OffersFor(c), item = Item("offer", p, c.firm[p].text, Everyone)
      PROVE  Vouched(item) /\ item.kind = "offer" /\ item.personas = Everyone
  <2>1. p \in Lessons /\ c.firm[p] # NoOffer /\ ~c.firm[p].walled
    BY DEF OffersFor, NoOffer
  <2>2. firm[p] # NoReview /\ Offer(p) = c.firm[p]
    BY <2>1 DEF OnRecord, KeptOffers
  <2>3. firm[p].text = c.firm[p].text /\ firm[p].walled = c.firm[p].walled
    <3>1. c.firm[p] = [text |-> firm[p].text, walled |-> firm[p].walled]
      BY <2>2 DEF Offer
    <3> QED BY <3>1
  <2> QED BY <1>1, <1>3, <2>1, <2>2, <2>3, ItemFields DEF Vouched, FirmIsAccepted
<1>4. ASSUME NEW n \in {c.note} \ {NoNote}, item = Item("note", n, n, Everyone)
      PROVE  Vouched(item) /\ item.kind = "note" /\ item.personas = Everyone
  BY <1>4, ItemFields DEF Vouched, Told
<1>5. ASSUME NEW q \in {c.profile} \ {NoProfile}, item = Item("profile", q, q, {"judge"})
      PROVE  Vouched(item) /\ item.kind = "profile" /\ item.personas = {"judge"}
  BY <1>5, ItemFields DEF Vouched, OnRecord, KeptProfile
<1> QED BY <1>2, <1>3, <1>4, <1>5 DEF ContributionItems

LEMMA DocumentsVouched ==
  ASSUME started # NoFile, LockVouches(started), NEW item \in DocumentItems(started)
  PROVE  /\ Vouched(item)
         /\ \/ item.kind = "brief"
            \/ item.kind = "exhibit" /\ (item.of \in Public \/ item.personas = Everyone)
<1>1. \/ item = Item("brief", started.document, started.document, Briefed)
      \/ \E x \in Exhibits :
           item = Item("exhibit", x, started.document, IF x \in Public THEN Briefed ELSE Everyone)
  BY DEF DocumentItems
<1>2. /\ item.kind = "brief" \/ item.kind = "exhibit"
      /\ item.text = started.document
      /\ item.kind = "exhibit" => item.of \in Public \/ item.personas = Everyone
  BY <1>1, ItemFields
<1>3. started.bySpec => locks[started.lock].spec = item.text
  BY <1>2 DEF LockVouches
<1> QED BY <1>2, <1>3 DEF Vouched

\* Whatever a persona of a started run is shown, a person let in; and the other side and
\* the bench are shown nothing of ours but the profile of the judge, the document and
\* what is public of its evidence (select_launch_contributions, items_for_turn).
THEOREM PromptsVouched == Spec => []PromptsAreVouched
<1>1. Inv => PromptsAreVouched
  <2> SUFFICES ASSUME Inv, started # NoFile,
                      NEW persona \in Personas, NEW item \in Shown(started, persona)
               PROVE  /\ Vouched(item)
                      /\ persona \notin Internal =>
                           \/ item.kind \in {"profile", "brief"}
                           \/ item.kind = "exhibit" /\ item.of \in Public
    BY DEF PromptsAreVouched
  <2>1. OnRecord(started) /\ Told(started) /\ LockVouches(started)
    BY DEF Inv, LaunchInv, LaunchInOrder
  <2>2. /\ item \in Assembled(started)
        /\ persona \in item.personas \/ (item.personas = Everyone /\ persona \in Internal)
    BY DEF Shown
  <2>3. item.personas = Everyone => persona \in Internal
    BY <2>2 DEF Everyone
  <2>4. CASE item \in FactItems(started)
    BY <2>1, <2>3, <2>4, FactsVouched DEF OnRecord
  <2>5. CASE item \in CorpusItems(started)
    BY <2>1, <2>3, <2>5, PassagesVouched DEF OnRecord
  <2>6. CASE item \in ContributionItems(started)
    BY <2>1, <2>3, <2>6, ContributionsVouched
  <2>7. CASE item \in DocumentItems(started)
    BY <2>1, <2>3, <2>7, DocumentsVouched
  <2> QED BY <2>2, <2>4, <2>5, <2>6, <2>7 DEF Assembled
<1> QED BY <1>1, Invariance, PTL

================================================================================
