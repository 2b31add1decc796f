-------------------------------- MODULE RunLaunch --------------------------------
(***************************************************************************)
(* The launch of a run: what it captures of the evidence, of what people   *)
(* approved and of the profile of the judge, in the order it reads them,   *)
(* while each of them may change between two reads; the two write-once     *)
(* files it publishes; and the event that commits it.  One run, tried      *)
(* again after errors and crashes.  A launch of a run that has started     *)
(* only compares, and is not modelled.                                     *)
(***************************************************************************)
EXTENDS ContextAssembly

CONSTANT MaxLaunches   \* bound: attempts
ASSUME MaxLaunchesAssumption == MaxLaunches \in Nat

VARIABLES
  launch,        \* the attempt under way
  corpusFile,    \* runs/<id>/context/corpus.json: the texts it holds
  manifestFile,  \* runs/<id>/context/manifest.json
  started,       \* what the RunStarted event commits to by digest
  launches

launchVars == <<launch, corpusFile, manifestFile, started, launches>>
sourceVars == <<corpusVars, factVars, taskVars, memoryVars, learnVars, profileVars>>
vars       == <<sourceVars, launchVars>>

NotLaunching == [at |-> "idle"]
NoFile       == [nothing |-> TRUE]

NoTexts  == [d \in Docs |-> Absent]
NoCorpus == [d \in Docs |-> NoEntry]

\* A context before anything is captured.
Blank == [note |-> NoNote, lessons |-> [p \in Lessons |-> NoWording],
          firm |-> [p \in Lessons |-> NoOffer], profile |-> NoProfile, caption |-> judge,
          material |-> MaterialOf(source), document |-> NoDocument, facts |-> <<>>,
          corpus |-> NoCorpus, texts |-> NoTexts, lock |-> 0, bySpec |-> FALSE,
          task |-> "discovery"]

Context == launch.context

Captures(at, context) == launch' = [at |-> at, context |-> context]

-----------------------------------------------------------------------------
LaunchInit ==
  /\ launch = NotLaunching
  /\ corpusFile = NoFile /\ manifestFile = NoFile /\ started = NoFile
  /\ launches = 0

\* Before the run's lock: the caption, the contributions, the note, ...
Gather(task, bySpec) ==
  /\ launch = NotLaunching /\ started = NoFile
  /\ launches < MaxLaunches /\ launches' = launches + 1
  /\ Captures("note", [Blank EXCEPT !.task = task, !.bySpec = bySpec,
                                    !.lessons = lessons, !.note = markdown])
  /\ UNCHANGED <<corpusFile, manifestFile, started>>

\* ... its approval, ...
GatherNote ==
  /\ launch.at = "note"
  /\ NoteStands(Context.note)
  /\ Captures("shared", Context)
  /\ UNCHANGED <<corpusFile, manifestFile, started, launches>>

\* ... the firm's learnings and the profile of the judge of that caption.
GatherShared ==
  /\ launch.at = "shared"
  /\ Loads
  /\ Captures("open", [Context EXCEPT
       !.firm = [p \in Lessons |-> Offer(p)],
       !.profile = ProfileFor(Context.caption)])
  /\ UNCHANGED <<corpusFile, manifestFile, started, launches>>

\* Under the run's lock: the task's binding and the matter, read again.
OpenRun ==
  /\ launch.at = "open"
  /\ Binding(source)
  /\ Captures("spec", [Context EXCEPT !.material = MaterialOf(source), !.caption = judge])
  /\ UNCHANGED <<corpusFile, manifestFile, started, launches>>

\* The specification is of this task, and its document is the one it names.
TakeSpec ==
  LET document == IF Context.task = "document" THEN source.document ELSE NoDocument IN
  /\ launch.at = "spec"
  /\ Context.bySpec => spec = document
  /\ Captures("facts", [Context EXCEPT !.document = document])
  /\ UNCHANGED <<corpusFile, manifestFile, started, launches>>

\* A task about a document takes neither facts nor corpus, but reads both.
OfDiscovery(captured, nothing) == IF Context.task = "discovery" THEN captured ELSE nothing

\* The log as it is: with the facts that are visible goes the digest of all of it.
TakeFacts ==
  /\ launch.at = "facts"
  /\ Captures("manifest", [Context EXCEPT !.facts = OfDiscovery(factLog, <<>>)])
  /\ UNCHANGED <<corpusFile, manifestFile, started, launches>>

\* A corpus in which nothing is reviewed stops the launch; no corpus does not.
TakeManifest ==
  /\ launch.at = "manifest"
  /\ VisibleDocs(manifest) # {} \/ manifest = NoCorpus
  /\ Captures("texts", [Context EXCEPT !.corpus = manifest])
  /\ UNCHANGED <<corpusFile, manifestFile, started, launches>>

TakeTexts ==
  LET visible == VisibleDocs(Context.corpus) IN
  /\ launch.at = "texts"
  /\ \A d \in visible : text[d] # Absent
  /\ Captures("material", [Context EXCEPT
       !.corpus = OfDiscovery(@, NoCorpus),
       !.texts = OfDiscovery([d \in Docs |-> IF d \in visible THEN text[d] ELSE Absent], NoTexts)])
  /\ UNCHANGED <<corpusFile, manifestFile, started, launches>>

\* The sources of the binding and the matter are captured byte for byte and must
\* still be what was bound.
TakeMaterial ==
  /\ launch.at = "material"
  /\ MaterialOf(source) = Context.material
  /\ judge = Context.caption
  /\ Captures("lock", Context)
  /\ UNCHANGED <<corpusFile, manifestFile, started, launches>>

\* The lock of the specification, and a context that can be shown to a persona.
RequireLock ==
  /\ launch.at = "lock"
  /\ Context.bySpec => CurrentLock(Context.material)
  /\ WithinLimit(Context)
  /\ Captures("corpus", [Context EXCEPT !.lock = IF Context.bySpec THEN Len(locks) ELSE 0])
  /\ UNCHANGED <<corpusFile, manifestFile, started, launches>>

\* Mutant: a corpus an earlier attempt left is kept, whatever it holds.
PublishKept ==
  /\ launch.at = "corpus"
  /\ corpusFile' = IF corpusFile = NoFile THEN Context.texts ELSE corpusFile
  /\ Captures("publish", Context)
  /\ UNCHANGED <<manifestFile, started, launches>>

\* Written once; what an earlier attempt left must be the same.
PublishCorpus ==
  /\ launch.at = "corpus"
  /\ corpusFile # NoFile => corpusFile = Context.texts
  /\ corpusFile' = Context.texts
  /\ Captures("publish", Context)
  /\ UNCHANGED <<manifestFile, started, launches>>

PublishManifest ==
  /\ launch.at = "publish"
  /\ manifestFile # NoFile => manifestFile = Context
  /\ manifestFile' = Context
  /\ Captures("commit", Context)
  /\ UNCHANGED <<corpusFile, started, launches>>

CommitStart ==
  /\ launch.at = "commit"
  /\ started' = Context
  /\ launch' = NotLaunching
  /\ UNCHANGED <<corpusFile, manifestFile, launches>>

\* An error of any step, or a crash.
LaunchEnds ==
  /\ launch # NotLaunching
  /\ launch' = NotLaunching
  /\ UNCHANGED <<corpusFile, manifestFile, started, launches>>

LaunchStep ==
  \/ \E task \in Tasks, bySpec \in BOOLEAN : Gather(task, bySpec)
  \/ GatherNote \/ GatherShared \/ OpenRun \/ TakeSpec \/ TakeFacts \/ TakeManifest
  \/ TakeTexts \/ TakeMaterial \/ RequireLock \/ PublishCorpus \/ PublishManifest
  \/ CommitStart \/ LaunchEnds

-----------------------------------------------------------------------------
Init ==
  /\ CorpusInit /\ FactInit /\ TaskInit /\ MemoryInit /\ LearnInit /\ ProfileInit
  /\ LaunchInit

Next ==
  \/ CorpusNext  /\ UNCHANGED <<factVars, taskVars, memoryVars, learnVars, profileVars, launchVars>>
  \/ FactNext    /\ UNCHANGED <<corpusVars, taskVars, memoryVars, learnVars, profileVars, launchVars>>
  \/ TaskNext    /\ UNCHANGED <<corpusVars, factVars, memoryVars, learnVars, profileVars, launchVars>>
  \/ MemoryNext  /\ UNCHANGED <<corpusVars, factVars, taskVars, learnVars, profileVars, launchVars>>
  \/ LearnNext   /\ UNCHANGED <<corpusVars, factVars, taskVars, memoryVars, profileVars, launchVars>>
  \/ ProfileNext /\ UNCHANGED <<corpusVars, factVars, taskVars, memoryVars, learnVars, launchVars>>
  \/ LaunchStep  /\ UNCHANGED sourceVars

Spec == Init /\ [][Next]_vars

-----------------------------------------------------------------------------
Offers == [text: Wordings \cup {NoWording}, walled: BOOLEAN]

Contexts ==
  [note: Notes \cup {NoNote}, lessons: [Lessons -> Wordings \cup {NoWording}],
   firm: [Lessons -> Offers], profile: Profiles \cup {NoProfile},
   caption: Judges, material: [Material -> Editions], document: Editions \cup {NoDocument},
   facts: Seq(Lines), corpus: [Docs -> Entries \cup {NoEntry}],
   texts: [Docs -> AnyText \cup {Absent}], lock: Nat, bySpec: BOOLEAN,
   task: Tasks]

LaunchTypeOK ==
  /\ launch \in {NotLaunching} \cup
       [at: {"note", "shared", "open", "spec", "facts", "manifest", "texts", "material", "lock",
             "corpus", "publish", "commit"}, context: Contexts]
  /\ corpusFile = NoFile \/ corpusFile \in [Docs -> AnyText \cup {Absent}]
  /\ manifestFile \in {NoFile} \cup Contexts
  /\ started \in {NoFile} \cup Contexts
  /\ launches \in 0 .. MaxLaunches

TypeOK ==
  /\ CorpusTypeOK /\ FactTypeOK /\ TaskTypeOK /\ MemoryTypeOK /\ LearnTypeOK /\ ProfileTypeOK
  /\ LaunchTypeOK

\* What every later step of the run asks: the files have the digests that were
\* committed, a specification comes with its lock, the texts are those of the
\* documents the manifest offers, and the context can be assembled again.
LoadsContext ==
  /\ manifestFile = started /\ corpusFile = started.texts
  /\ started.bySpec <=> started.lock # 0

LoadsCorpus ==
  /\ {d \in Docs : corpusFile[d] # Absent} = VisibleDocs(manifestFile.corpus)
  /\ WithinLimit(manifestFile)

\* A run that started can be loaded for good: whichever attempt wrote which of the
\* two files and wherever the others died (write_run_context, load_run_context).
StartedIsWhole == started # NoFile => LoadsContext /\ LoadsCorpus

\* A run that names a specification runs on the very adapter, rubric and document
\* that a person locked, under a lock that was the latest when it was read, though
\* every one of them may be edited, and locked again, while the run is launched
\* (require_current_lock, build_run_context).
LaunchedAsApproved ==
  started # NoFile /\ started.bySpec =>
    /\ started.lock \in DOMAIN locks
    /\ locks[started.lock].seen = started.material
    /\ locks[started.lock].spec = started.document

\* A run is told no standing note that nobody approved (load_context_memory).
MemoryApproved == started # NoFile => started.note \in approved \cup {NoNote}

\* How a person let an item in, as the records show it now; the profile of the judge
\* comes in by its archive and its calibration.
Vouched(item) ==
  /\ item.kind = "fact" =>
       \E i \in DOMAIN factLog : factLog[i].fact = item.of /\ factLog[i].status = "accepted"
  /\ item.kind = "passage" => manifest[item.of].role /\ manifest[item.of].privileged # Unknown
  /\ item.kind = "lesson" => Outcome(item.of) = "accept" /\ Latest(item.of).text = item.text
  /\ item.kind = "offer" => /\ Outcome(item.of) = "accept" /\ firm[item.of].text = item.text
                            /\ ~firm[item.of].walled
  /\ item.kind = "note" => item.text \in approved
  /\ item.kind = "profile" => item.of \in archive /\ item.of.evidence \in Calibrated
  /\ item.kind \in {"brief", "exhibit"} /\ started.bySpec =>
       locks[started.lock].spec = item.text

\* Nothing but a calibrated profile enters a prompt of a run that a person has not let
\* in, however the records moved while it was launched and since; and the other side and the
\* bench see nothing of ours but the profile of the judge, the document and what
\* is public of its evidence (select_launch_contributions, items_for_turn).
PromptsAreVouched ==
  started # NoFile =>
    \A persona \in Personas : \A item \in Shown(started, persona) :
      /\ Vouched(item)
      /\ persona \notin Internal =>
           \/ item.kind \in {"profile", "brief"}
           \/ item.kind = "exhibit" /\ item.of \in Public
=============================================================================
