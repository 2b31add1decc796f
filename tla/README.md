# Formal model of mootloop

mootloop drives a matter (a litigation research assignment) through a chain of
language-model turns. A run is launched with a budget, a queue delivers it to a
worker, the worker asks the orchestrator which turn is next, pays a provider for
it, and records the outcome in an append-only journal. Everything that steers a
run is on disk (the journal, the turn bodies, the decision store, the queue file),
and every process that touches it can die or stall at any point. Around it stand
what a run is launched from (documents, facts, notes, lessons, approvals), what
it leaves behind (attested drafts, sealed documents, an audit), and the vault that
holds it all until the matter is closed. This directory models them in TLA+, checks
them with TLC, and proves nearly every safety property of them with TLAPS.

Paths below are relative to `src/src/mootloop/`; those of documents, tests and the
frontend to `src/`.

## 1. The system

| Component | State it keeps | Operations | Hard part |
|---|---|---|---|
| Driver queue, `engine/queue.py` | `queue.jsonl`: items with `claimed_by`, `visible_at`, `attempts`; a heartbeat file per worker | ensure_enqueued, claim, heartbeat, complete, release, release_all_claimed_by | leases that lapse under a live worker, stale-worker reclaim, attempts that must count |
| Driver worker, `engine/worker.py` | the item it drains, in memory | run_once, _drain, _run_turn_with_lease, the failure routes, shutdown | the lease is lost while the provider answers; a time read at the start of the tick and used at its end |
| Launch outbox, `engine/outbox.py`, `engine/launch.py` | RunStarted and RunEnqueued in the journal | deliver, acknowledge, repair scan | a crash between the queue write and the acknowledgment; a running run whose item is gone |
| Run journal, `journal.py`, `models/events.py` | `events.jsonl`, one write-once body file per turn | append, fold, write_turn_body, tail | torn tails, replays, the projection of money not settled yet |
| Orchestrator, `orchestrator.py` | nothing of its own: it folds the journal at every call, under RunLock | plan_next, record_turn_intent, record_turn, _discard, _finalize, _maybe_checkpoint, pause, resume, continue, raise cap, reopen | each verb appends several events, and may die between two of them; verbs of several actors interleave between a plan and its record |
| Attorney decisions, `decisions.py` | the decision store | derive_and_store, resolve | derived again on replay, resolved while turns are in flight |
| Settings and pipeline, `config.py`, `models/task.py`, `pipeline.py`, `budget.py` | the commitment of the run, fixed at launch | merge the layers, compile, validate, estimate | who may shape what; a count told before the run and kept during it |
| Stages, `stages.py`, `convergence.py`, `panels.py` | none | what a request needs next | loops, panels, convergence, discards |
| Turn gates, `gates/`, `gate_ledger.py` | GateEvaluated events in the journal, written before the turn is completed or discarded | select and order, evaluate, weigh the results of a request | results of an attempt that was lost stay under the id of the turn |
| Run lock, `vault.py`, `provider_driver.py` | the lock file with its token and heartbeat | acquire, beat, take over, release | a live holder taken for dead; nothing checks the token at the append |
| Attestation and export, `attest.py`, `export/`, `gate_ledger.py` | the attestation, the master, the seal | attest, verify, export | what was committed to changes afterwards |
| Citations, `citations/` | append-only verdicts, the research queue, the token bucket | verify, expire, enqueue | a verdict that expires before it is relied on |
| Matter close and backup, `close.py`, `engine/backup.py` | the close intent, quarantine, tombstone | close, recover, snapshot | a crash between any two steps |
| Audit and streams, `web/audit.py`, `persistence.py`, `web/api/sse.py` | hash-chained log | append, repair, tail | repair under one lock, append under another |
| Launch, `engine/launch.py`, `context.py`, `taskspec.py` | the snapshot and manifest of a run, task files and their locks, the standing note | launch, lock, set and approve the note | everything the launch reads may change between two of its reads |
| Evidence, `ingest.py`, `conversion.py`, `facts.py` | the corpus manifest, texts, receipts; the fact log | ingest, tag, convert, promote; add, propose, review | a conversion or a review that dies between two of its files |
| Learning, `learn/` | imports, reviews, contributions, the firm profile | import, review, promote | two people review one proposal |
| Judge profiles, `judge_profiles.py` | archived profiles and the pointer to the current one | build, publish, load | two builders, a crash between archive and pointer |
| Providers, CLI, web shell | none of their own | one-shot | data, I/O and rendering |

How they meet: the launch writes `RunStarted` and the outbox puts an item
`run:<matter>:<run>` on the queue. A worker claims the item under the queue's
flock, then alternates between the orchestrator (each call takes RunLock, folds
the journal, appends, releases) and the provider (no lock held, the lease renewed
before and after). The operator's verbs come from the web API under RunLock, at
any moment. Decisions are derived inside `record_turn` and resolved by the
attorney, which tries the end of the run again. The outbox repairs the queue from
the journal, never the other way round. The launch copies what it read of the
corpus, the facts, the notes, the lessons and the judge's profile into the run, so
that nothing later changes what the run is told. When the run is over, attestation
commits to its drafts, the citation ledger decides whether they may be served
clean, and the export seals them. Backup, restore and close take the same RunLock
as the run itself; the browser watches the journal file without any lock.

The complete list of parts, modelled or not, is in `PROJECT.json` under
`components`; the hazards, each at its line, under `hazards`.

## 2. The modules

    LeaseQueue <--implements-- DriverQueue                 MCDriverQueue, DriverQueueProofs
        ^
        | EXTENDS
    RunEngine --EXTENDS--> Orchestrator --EXTENDS--> RunJournal
        |                                                  MCRunEngine, RunEngineProofs
        +--implements--> RunLifecycle

    StagePipeline --> Pipelines --> TurnSlots, RunConfig,  MCStagePipeline, StagePipelineProofs,
                                    TurnGates              PipelineProofs
                  --> PanelFold

    MatterVault --> VaultBackup, MatterClose               MCMatterVault, MatterVaultProofs
                    --> LockedSessions --> VaultStore

    AttestExport --> ReviewedRun, CitationLedger           MCAttestExport, AttestExportProofs

    JournalStream --> AuditTrail, JournalFile              MCJournalStream, JournalStreamProofs

    RunLaunch --> ContextAssembly                          MCRunLaunch, RunLaunchProofs
                  --> CorpusIntake, FactRepository,
                      TaskApprovals, ContextMemory,
                      LearningReviews, JudgeProfiles

A module to the left composes those to the right of the arrow. The six systems meet
in the files they share, not in their steps, so they are separate specifications:
a run of RunEngine starts where RunLaunch ends, its turns come from StagePipeline,
its journal file is that of JournalStream, its drafts are what AttestExport seals, and
its vault is one of MatterVault's.

### The run

**LeaseQueue** is what a client of the queue may rely on: a live item is free or
owned, claimable or hidden; a claim hides it, and it surfaces at a time the client
does not choose. One operator per method of `Queue`.

**DriverQueue** is the file queue with its clock. `hidden` counts an item's
`visible_at - now` down, `hbAge` counts a heartbeat file's age up, `stamp` and
`Lane` give the claim order. `Claimable` is the sort of `claim` (lane, then
`enqueued_at`), `Released` the rewrite of `release`. The worker appears as far as it
uses the queue: it boots and reclaims once, polls, renews, hands back, backs off,
dead-letters, finishes, crashes. The reclaim is the code's own sequence: `Boot` stamps
and lists the heartbeat files, `ReadFile` reads one under no lock, `ReleaseFound` frees
what that worker owns by then. That DriverQueue implements LeaseQueue is both model-checked and proved;
RunEngine builds on LeaseQueue because of it.

**RunJournal** is the journal as the state its events fold to, one operator per
event (`models/events.py`, `fold`). Money is counted in units; a write-ahead
intent stands for `MaxPlausible` units of the turn it names, so `pending` is a set
of turns, exactly as the code keys `pending_intents` by turn id.

**Orchestrator** gives each orchestrator verb as a function on the vault: the
folded journal, the turn bodies and the gates. Verbs that append several records
also have the set of states a crash between two of them leaves (`RecordTorn`,
`DiscardTorn`), in the code's order of writes: body, gates one by one, spend,
`TurnCompleted`, rubric gate, then the cap, or finalisation and the checkpoint.

**RunEngine** composes them: workers with a program counter that follows
`_drain`, the launch outbox, and the operator. One action per orchestrator call or
provider call; `Record` is the whole of `record_turn`.

| `pc` | code (`engine/worker.py`) | action |
|---|---|---|
| `idle` | `run_once`, claim | `Take` |
| `start`, `resume` | `_drain`, resume of a capacity pause | `Start`, `Reawaken` |
| `plan` | `plan_next`, and SIGTERM at a turn boundary | `PlanNext`, `Shutdown` |
| `intent`, `prompt` | `record_turn_intent`, `assemble_prompt` (which plans again) | `Intend`, `Prompt` |
| `call`, `calling` | renew, call, renew | `CallProvider`, `GoodAnswer`, `BadAnswer`, `ProviderError` |
| `record` | `record_turn` | `Record`, `RecordCrash` |
| `beat` | renewal between turns | `Beat` |
| `seat`, `handback` | seat limit: `pause_run`, then release | `PauseForCapacity`, `HandBack` |
| `fatal` | authentication or permission failure | `Fail` |
| `poison` | `_on_turn_error`, `_on_poison` | `BackOff`, `DeadLetter` |
| `closing`, `complete` | `finalize_if_ready`, `complete` | `Close`, `Drop` |

RunLock makes each orchestrator call that appends one step, since it holds the lock
from its fold to its last append; a call that finds it held raises, which is
`Contend`. `plan_next` and `find_spec` fold under no lock, and append nothing unless the
cap is met: what they see may be out of date when the next call starts, which is why the
plan and the intent are two steps. A crash may come between any two steps (`Crash`) and inside
`record_turn` (`RecordCrash`).

**RunLifecycle** is the abstract promise: what a watcher of the run's status may
rely on.

### What a run asks next

**TurnSlots** is the layout of turn ids: which block of a stage, which ordinal.
**RunConfig** is `resolve_run_config`: five layers of settings (defaults, adapter, firm,
matter, flags), `Over` for `_deep_merge` with what a null does to a whole group,
`Permits` for the policy that leaves the shape of a task to its adapter, `Fallback` for
the matter's own mode and budget.
**Pipelines** is `pipeline.py` with the shipped graphs: the stages a launch compiles
to, from family, strategy, personas and settings; `Precedes` is their order in the
graph, `Owned` and `Selectable` are the validators, `Ceiling` is
`pipeline_turn_ceiling`, `EstimatedLeast` and `EstimatedMost` are `estimate_run`.
**TurnGates** is the catalog with its dependencies, the gates a turn is subject to, the
verdict of each on a text, and the weights of the gate ledger.
**PanelFold** pairs rulings with objections and folds the panel (`panels.py`): `Passes`
is the two loops of `_align_rulings`, as a function of the number of objections seen.
**StagePipeline** has one operator per stage for `is_complete` and for `plan`, the
draft each stage works on (`partner_draft`, `judged_draft`, `operative_draft`), and
workers that ask for a planned turn and answer it, in any order. The jury is the one
stage whose plan may raise (`OverLimit`); `_plan` goes over all requests, so the whole
run then has no plan (`PlanFails`).

| action | code |
|---|---|
| `Ask` | `plan_next`, and the prompt with the draft the plan names |
| `Answer` | `record_turn` with the gates of the turn, and with the panel's verdict when it is the last seat |
| `AnswerTwice` | `record_turn` on a turn another worker has completed |
| `Refuse` | `record_turn` whose plan raises |
| `RejectInvalid` | an answer that is no valid output |
| `RejectDegenerate` | `_discard` after the gates have said so |
| `LoseEvaluated` | the gates are on the journal, `TurnCompleted` is not |

`latest` is the last result of each gate of each turn, `ever` every result the journal
has had; `Standing` and `TurnBlockers` read them as `gate_ledger.py` does.

### The vault

**VaultStore** is the vault as a directory: its inode, its journal, its lock file with
token and heartbeat. **LockedSessions** are the processes that hold RunLock: short
commands, and the local driver with its keeper thread and the fence after a paid
call. **VaultBackup** is backup and restore, **MatterClose** the close protocol
(intent, quarantine, marker, purge, tombstone, record) with its recovery.
**MatterVault** composes them with crashes of any process, containers made anew and
stalls that outlast a lock.

### What leaves the run

**ReviewedRun** is the run as the attorney sees it: drafts, gates, decisions.
**CitationLedger** has the verdicts with their expiry, the passes of the verifier, the
research queue and its fulfilment. **AttestExport** is `attest` and its validity, and
an export under RunLock, one action per file it writes, which may die before
each; then the download gate.

### The journal file and those who watch it

**JournalFile** is `events.jsonl` below the fold: an append as lock, seek, repair and
write, unlocked reads of several system calls, the parse cache. **AuditTrail** is the
hash-chained audit, whose repair is under a lock of its own; a line may come to hold two
entries. **JournalStream** is `tail_events`, the stream's loop, and the page that takes
the frames (`Frame`, with or without a line in its timeline) and asks again.

### The launch

**CorpusIntake** (`ingest.py`, `conversion.py`), **FactRepository** (`facts.py`),
**TaskApprovals** (`taskspec.py`), **ContextMemory** (`context_memory.py`),
**LearningReviews** (`learn/`) and **JudgeProfiles** (`judge_profiles.py`) are the
sources of a run, one action per file written, each command with a program counter
that shows where it may die. In CorpusIntake a document is its bytes; what becomes of it
is a function of the bytes and the extension (`Triage`), as in `_ingest_one`.
**RunLaunch** reads the sources one by one, as `build_run_context` does, writes the two
files of the run, and appends `RunStarted`; a launch that fails or dies at any of these
may be tried again, one attempt at a time. **ContextAssembly** (`context_assembly.py`) is what is made
of the captured context: which lessons may enter this matter and task, the items of a
prompt with the personas they are for, the limit, and `Shown`, what a persona is given.

**The MC modules** hold the values of the runs.

## 3. What is checked

| Run | Question | Distinct states | Result |
|---|---|---|---|
| `queue` | does the file queue keep its promises? | 876 thousand | holds |
| `engine_faults` | ledger, retries, overrun, progress of an autonomous run | 252 thousand | holds |
| `engine_gated` | checkpoints, decisions, the end of a gated run, the lifecycle | 1.11 million | holds |
| `engine_ledger` | is every billed unit on the ledger or reserved? (`models/events.py:284`) | | violated |
| `engine_checkpoint` | does a gated run stop at every stage boundary? (`orchestrator.py:1182`) | | violated |
| `stages` | do reviews match drafts, do stages end and stay over? | 375 thousand | holds |
| `vault` | one writer at a time, whole backups, a truthful close | 1.95 million | holds |
| `export` | is what is signed, sealed and served what it says it is? | 2.89 million | holds |
| `export_cites` | is every cited authority of a clean document verified? (`README.md:165`) | | violated |
| `stream` | is the log whole, are reads and pages true, does the audit never fork? | 1.05 million | holds |
| `audit_lines` | is the audit what `verify_chain` accepts? (`tests/unit/test_web_audit.py:89`) | | violated |
| `launch` | do texts keep their receipts, facts their successor, and is what a run started from whole, approved, and shown to the right side? | 369 thousand | holds |

**Queue.** `ClaimsAreCounted`: an owned item has counted its claim, so refunds,
reclaims and dead letters can never let an item run for ever. `TakeoverJustified`: a
worker loses its claim only by its own step, after the lease lapsed, when its
heartbeat file is old, or to a booting worker that read the file as old before the
stamp that came with this claim. `StaleHolderHarmless`: whatever a worker that lost its claim
does next, the item stays as it is. `ImplementsLeaseQueue`: refinement.

**Engine.** `CompletedSettled`: a completed turn has its body, its gates and its money
on the record. `RecordWriteOnce`: bodies, completions and resolutions are never
undone. `RetryCeiling`: no turn is tried beyond its attempts, plus one for each crash
that separated the last discard from the `needs_attention` it should have caused.
`LedgerNeverOverstates`: no unit is booked that was not billed. `OverrunBounded`: the
cap is passed by less than one call per *other* worker. `FinishedComplete`: `finished`
and `needs_decisions` mean what they say. `RunningIsDriven` (liveness): a running run
is always driven to a stop. `ImplementsLifecycle`: refinement.

**Stages.** `ReviewsMatchDrafts`: a critique, a score, a ruling and the last gate are
of the draft the run holds them to be of. `RulingsCountOnce`: a ruling counts for one
objection, and no objection on its basis goes without. `StagesStayComplete`: no later
turn reopens a stage that is over, although that is recomputed at every plan.
`RequestsComplete` (liveness): every request is complete in the end, or the run is
stopped for good by a draft that is over the 32 KiB of a jury.

**Vault.** `SerialAppends`: a record is appended only to the journal its writer folded.
`CallFenced`: a paid result passes the fence only if nobody took the lock meanwhile.
`SnapshotsWhole`: an accepted archive is of one moment. These three hold as long as no
live lock runs out and no restore replaces a vault in use (`disturbed`; the fence, even
then). `LossAccounted`: no vault disappears unaccounted for. `DestroyedIsBackedUp`,
`RecordTruthful`, `HoldHonoured`: what a close destroys is what its intent names, is in
the backup, is recorded once, and was not on hold when the attempt read the retention.

**Export.** `ValidMeansUnchanged`: a valid attestation covers the drafts, decisions and
ledger as they are. `CleanIsFinal`: a clean document renders the operative drafts and
no later turn can change them. `ResearchIsQueued`: an authority sent to research has a
request somebody can fulfil. `SealedNeverRewritten`: nothing rewrites a sealed set.

**Stream.** `ReadsAreTrue`, `PageShowsLog`: a cached read returns what the file said, a
page is sent the journal in order and without a gap, whatever a repair cuts off, and has
a line for each event but those of the kinds it has no schema for. `ChainNeverForks`,
`ViewsAreRecorded`: in the order of the file each audit entry names the one before, and no
page is served that is not among them. `TrailVerifies` (violated): every line is one entry.

**Launch.** `ReceiptVouches`, `TextStable`: a document offered to runs has the receipt
of its very text, which is not rewritten meanwhile, if it only ever came under one
extension (`OnlyAs`). `OneSuccessor`, `EdgeStands`: two
facts never replace the same one, and a replaced one stays replaced. `ContextIsReviewed`,
`PointerArchived`: lessons are what a review accepted, the current profile loads.
`StartedIsWhole`, `LaunchedAsApproved`: a started run can be loaded for good, and runs on
the material a person locked. `PromptsAreVouched`: nothing enters a prompt that a person
(for a judge's profile: its archive and its calibration) has not let in, however the
records moved since, and the other side and the bench see
nothing of ours but the profile, the document and its public evidence.

### Bounds

*Queue, engine.* Two workers are what the takeover of a lease needs; a third adds no new
pair. `MaxScan` is how far a heartbeat file's age is still told apart while a boot's sweep
goes on. Three turns are a draft, the attack on it and the final rubric seat, so a run
crosses a stage boundary; the draft implies one gate of each taxonomy.
`engine_checkpoint` has two requests of two turns. `MaxFaults` bounds the misfortunes
of a behaviour, `MaxOps` the operator's verbs; two faults are enough for a lost lease
followed by a crash. In `engine_faults` a call costs 2, its ceiling, against a cap of 5,
so the third reservation meets it; in `engine_gated` it costs 1 of a ceiling of 2
against a cap of 3. `Caps = {9}` raises it out of the way. `MaxTurnAttempts = 1`,
`Grants = {1}`, `MaxExecutions = 2` make the retry budget and the dead letter bite.

*Stages.* Every set of personas but one opponent under two strategies, two sets under
deep-core, a document, three rounds with juries, and two requests side by side
(`MCLaunches`). The settings come from all five layers, and three launches are refused
for what a layer gives. `MaxAsked = 2` turns may be in flight; one answer is discarded or
lost (`MaxRejects = 1`), of a bolster or of a last seat (`Losable`), which revise a draft
and close a request. A draft is one of two texts, which assert the same basis twice or
two bases; one is complete and asserts what nothing supports, the other lacks a section,
names candidate citations and is over the jury's limit (`TooLong`). At most
`MaxSetbacks = 3` answers cost a run another round or another draft.
`AnswersAreWanted`, `NeverStuck`, `CallsWithinEstimate`,
`LedgerSpeaksOfServed` and `OnlyTheServedBlocks` are proved and in no run.

*Vault.* A driver, a clerk and an operator who gives one command at a time. Two vaults
(the second is restored), two tokens, two records, one stall, two crashes. Chains of
three holders are beyond the two tokens; the proof covers them.

*Export.* Two drafts, two authorities of which the second draft cites the other, two
attestations, three exports, two commands, one blocker; verdicts that expire at once
(`MaxAge = 0`), or never during the run in `export_cites`.

*Stream.* Two writers and two pages (interchangeable), one reading thread, two events, of
which the page has no schema for the second (`Silent`), three visits, one fault.

*Launch.* Two documents under two extensions, one of the two convertible; two converter
releases, a fact with two corrections, two attempts to launch one run, two editions, one
lesson with two wordings and two reviewers, two judges, two builders, one exhibit that is
not public, and at most two items in a context, so that a launch may be refused for its
size. Everything moves together for `MaxTotal = 3` operations and a launch; documents and
facts go on by themselves, a converted document for seven operations, the corrections of a
fact for five, both together for `MaxMixed = 4` (`Budget` in MCRunLaunch). In the proofs
there is no such bound.

### Fairness

`engine_faults` checks `FairSpec`: each worker keeps stepping (`WF` of its `Drive`: the
worker is a loop that polls), the outbox is scanned on idle ticks (`WF` of `Deliver`),
and time passes (`WF` of `ComeDue`). Nothing makes the operator act, and no misfortune
is fair. `RunningIsDriven` holds although faults interrupt it because the faults of a
behaviour are finitely many; a worker that crashes for ever makes no progress in the
code either. StagePipeline has `WF` of its next step: a worker that drains asks and
answers; refusals are bounded by the retry budget. The other runs check safety only
and assume no fairness. Deadlock checking is off: a run that has ended, with its
bounds used up, has nothing left to do.

### Disagreements between the code and its documentation

1. *A billed call with no reservation* (`engine_ledger`). A pause that lands while
   the provider answers makes `record_turn` refuse the paid result before anything
   is booked. The retry's intent has the same turn id and replaces the reservation, so
   the projection counts one call where two were billed.
2. *A checkpoint stage entered without a stop* (`engine_checkpoint`). The checkpoint
   test looks for a plan that is entirely in one stage. With two requests at
   different stages it is not, and the run enters the stage.
3. *A clean document with an unverified authority* (`export_cites`). The citation
   gate that export reads is the last one recorded, for the drafts as they were then.
4. *Two audit entries on one line* (`audit_lines`). An append repairs the file under one
   lock and writes under another. If another request dies in between, all of its entry
   written but the newline, the head is read from that fragment and the new entry goes on
   the same line. The chain has not forked, but `verify_chain` calls the file corrupt, and
   whatever reads the head fails from then on (`web/audit.py:5-6`).

Reproduced by the models, with no run of their own:

- The delay of a back-off is added to the time the tick started. A drain lasts a
  whole run, so after a long one the item is claimable at once (`worker.py:534`,
  against `worker.py:28`).
- After a crash between a turn's body and `TurnCompleted` the turn is asked again, and
  a different valid answer is refused by the write-once rule, on every retry
  (`journal.py:113`, against `journal.py:89`).
- A stream may end without its last event, since it reads the status after the tail
  (`web/api/sse.py:75`).
- Accepting a correction of a fact that is itself pending or corrected can leave two
  versions visible (`facts.py:10-15`, `docs/quickstart-live-matter.md:127`).
- A launch reads the manifest before the texts: an ingest of the same file and the
  conversion by another release in between leave it a text whose receipt is not written
  yet, and may never be (`docs/protected-conversion.md:67`).
- A document is named by its bytes, but normalized by its extension. When the same bytes
  come under another one (`.html`, then `.txt`), the text of a document that runs may read
  is replaced, no receipt vouches for it, and accepted facts quote what is gone
  (`ingest.py:420-440`, against `models/corpus.py:4`: "so provenance never dangles across
  re-ingest or re-normalization").
- A draft over 32 KiB stops the run where its jury is to read it: every plan raises,
  `record_turn` of any other request too (its paid answer is lost), the worker backs off,
  and after its attempts the dead letter ends the run (`stages.py:721`).
- The page has no schema for `run_enqueued` and `run_reopened` and drops their frames, so
  every hosted run misses a line (`frontend/lib/api/runStream.ts:6`: "each event appends
  exactly one inked ledger line").
- A firm promotion that crashes between its two files conflicts with its own retry
  (`docs/ethics.md:11`).
- A caption edited between the launch's two reads gives a run another judge's profile.
- Raising the cap accepts a lower one, and a launch a cap of 0, which means none
  (`orchestrator.py:1086`, `config.py:65`).
- A loop stops at the partner's approval too, which the README and the task file do not
  say (`README.md:188`).
- A forced draft after an attestation seals a set without a clean document
  (`export/service.py:219`).
- A draft with candidate citations gets `pending` from the fabrication gate, which the
  citation gate is said to clear later (`gates/fabrication.py:14-16`); nothing does, so
  the ledger keeps the document from export (`OnlyTheServedBlocks` says exactly so).
- The estimate charges a judge for each objection of a request, three unless told
  otherwise, while a judge rules on all of them in one turn: `CallsWithinEstimate` holds
  with one objection.
- A layer that gives a whole group as null escapes the policy on single settings. It
  cannot change the shape of a run, whose settings then have to be there
  (`ShapeIsTheAdapters`).

Three facts no document contradicts: a reclaim frees a *live* claim when a drain
outlasts the stale threshold, since the heartbeat file is stamped once a tick, or when its
worker stamps and claims between a booting worker's read of the old file and its release;
a seat
limit during an operator's pause turns it into a capacity pause the worker later lifts
by itself; a reopen that races the worker's last `complete` loses its item, and the
outbox scan puts it back.

## 4. What is proved

Every safety and action property of a passing run is a theorem, for every value of the constants: any number of workers, items, turns, sessions,
writers, pages, documents, facts and people, any plan, budget, timer and launch, and any
number of crashes. So are both refinements. Some theorems state more than the runs
check.

| Module | Theorems |
|---|---|
| `DriverQueueProofs` | `TypeCorrect`, `CountedClaims`, `Takeover`, `StaleHolder`, `FileQueueImplementsLease` |
| `RunEngineProofs` | `TypeCorrect`, `CompletionSettled`, `RetriesBounded`, `WriteOnce`, `FinishedIsComplete`, `EngineImplementsLifecycle`, `LedgerIsBilled`, `OverrunIsBounded` |
| `StagePipelineProofs` | `ReviewsMatch`, `StagesStayOver`, `PaidAnswersAreWanted`*, `PlansNeverRunDry`*, `CallsAreEstimated`*, `RunsComeToAnEnd`*, `TurnsWorkOnTheirOwn`*, `RulingsAreCountedOnce`, `LedgerIsOfServed`*, `TheServedBlocks`* |
| `PipelineProofs` | `SlotsApart`*, `ShapeIsTheAdapters`*, `CompiledIsOwned`*, and the lemmas on graphs, compiled pipelines and aligned rulings that the stages use |
| `MatterVaultProofs` | `TypeCorrect`, `AppendsAreSerial`, `FenceHolds`, `ArchivesAreWhole`, `NothingIsLost`, `DestroyedWasBackedUp`, `RecordIsTrue`, `HoldIsHonoured` |
| `AttestExportProofs` | `TypeCorrect`, `AttestedIsUnchanged`, `CleanStaysFinal`, `ResearchHasRequest`, `SealedStays` |
| `JournalStreamProofs` | `LinesStayWhole`*, `LinesStay`*, `EventsStayOnce`*, `EventsAreShownOnce`*, `ReadsStayTrue`, `PagesShowLog`, `AuditNeverForks`, `ViewsStayRecorded` |
| `RunLaunchProofs` | `TypeCorrect`, `ReceiptsVouch`, `TextsAreStable`, `CallsAreKept`*, `SuccessorsAreUnique`, `EdgesStand`, `ContextsAreReviewed`, `PointersAreArchived`, `StartsAreWhole`, `LaunchesAreApproved`, `PromptsVouched`, and the lemmas on files and approvals they use |

(* not a property of a run.)

**Queue.** `TypeOK` is inductive by itself; the others follow by an analysis of every
action. `Takeover` needs `SweepInv`: a file found stale still is, unless its worker has
stamped it since. `FileQueueImplementsLease` shows that each step of DriverQueue is a step of
LeaseQueue or a stutter, `visible` being `hidden = 0`.

**Engine.** The properties are not inductive: `CompletedSettled` needs to know that a
worker about to record has the money of its turn reserved or booked, and `RetryCeiling`
that a turn still to run has an attempt left. The invariant is

    IInv == LQTypeOK /\ vault \in Vault /\ Counters /\ WorkersReady
            /\ Settled(vault) /\ Within(vault, torn)

`WorkersReady` carries the reservation from `Intend` to `Record`, whatever happens to the
lease in between; `Within` says that every turn has at most its ceiling of discards, and
*fewer* while it is not done and the run is not at `needs_attention`, up to one per crash
in `record_turn`. Three layers: every event follows the folded state (`Follows`), so
every verb grows the vault (`Extends`, `Grows`, `Keeps`), so every step is good
(`GoodStep`). `FinishedIsComplete` adds that a status of the end comes from
`_finalize` alone, which looked at every turn, and that the last draft cannot return;
`EngineImplementsLifecycle` then maps each verb to its lifecycle step.

The two statements on money speak of all calls in flight, a sum over workers. An
induction over the set of workers is out of reach, so the sum is carried as data:
`Ledger` is the existence of a numbering of the workers and of prefix sums along it,
of what each has paid and still has to book, that end below `paid - spend`; a worker's
step shifts the sums from its number on. `Headroom` does the same by counting the
workers in flight. `OverrunIsBounded` is for a run with a budget (`HardCap # 0`) whose cap is not
lowered: the code accepts a lower cap, and one call may then be any distance above it.

**Stages.** The invariant is that the pipeline was compiled from a launch, that a
completed turn belongs to a stage whose predecessors are over (`WellOrdered`), that
what was asked for is still planned (`AnswersAreWanted`), and `ReviewsMatchDrafts`
itself. From the order of the stages in every shipped graph (`GraphOrder`) it follows
that no draft is written once a review of it is in (`NoLateDraft`), so a stage that is
over stays over (`StagesStay`), which keeps the order of the completed turns.
`PlansNeverRunDry` finds the turn to plan by the least stage that is not complete, from
the well-foundedness of strict inclusion. Together these justify what the engine takes
as given, a static order of turns in which a completed turn stays completed and a plan
that is never empty before the end.

`RunsComeToAnEnd` is the half of `RequestsComplete` that needs no fairness. `Ahead` is a
natural number that every step brings down: the answers still to come (the calls within
`Ceiling`, and the refusals left) weigh `3 * MaxAsked + 1` each, more than all that can
be in flight; a call in flight stands for one step more if a late answer is all it can
get, and for two less while it may still pay for its turn. It needs `CallsInv`, that the
calls in flight are finitely many, and `RunWithinCeiling`, which adds the requests up.
The other half is `PlansNeverRunDry`: until a request is over, there is a turn to ask
for. `TurnsWorkOnTheirOwn` says that the draft a turn works on is a completed one of the
same request.

`RulingsAreCountedOnce` is about two loops over lists of any length. The fold is a
function on `0..2n`, so that what holds after k passes follows for each k from the least
k where it would fail (`UpTo`), a fact about a set of numbers and not an induction
principle over an operator. After the first loop a basis has as many objections with a
ruling on it as it can have (`BasisTaken`: another is left without only when none of its
rulings is free), the second neither takes one away nor adds one (`PlaceTaken`), and no
ruling is ever given twice. `SaidAsAsked` supplies that what judges and drafts say in a
run are lists the fold is defined on.

`CallsAreEstimated` counts the completed turns kind by kind (`KindCounted`): those of one
kind are at most its cap, and a stage that is over has its least. `ShapeIsTheAdapters`
follows a structural setting through the chain of layers; the number of jurors, which
has a default, stays only where the judges are not listed either. `LedgerIsOfServed` and `TheServedBlocks` rest on `JournalInv`: the results of a completed
draft are the verdicts on it, because an attempt is lost or discarded only while its turn
is not done, and the answer that completes it renews them; there is a rubric result for a
request exactly when its panel is complete.

**Vault.** `Inv == TypeInv /\ TokenInv /\ CloseInv /\ LockInv`. Tokens of the run lock are
never handed out twice; `CloseInv` says where path, quarantine, intent and tombstones
stand at each step of a close or of its recovery; `LockInv` that as long as nothing
disturbed a session, who works under the lock still owns it, so what it folded or copied is
current.

**Export.** `Inv == RunInv /\ CiteInv /\ ExportInv`: which files an export under way has
built and from what, that its inputs cannot move until it lets the run lock go, and that
a verdict of research follows its request.

**Stream.** `Inv == WriterInv /\ ReaderInv /\ PageInv`: the lock admits one writer, so
the end it seeked to is still the end when it writes and a fragment there is its own;
the cache holds what its bytes say; what a page shows is as long as its offset.
`OrderInv` adds the order: whoever holds the lock writes the event that was begun last,
and every line before it is of an earlier one. So the journal only grows, by one event
that is on no line yet, and a page, which shows a prefix, shows each event once.
`TrailInv`, for the audit, says where the head stands that an append read.

**Launch.** Each source changes its own variables only (`Parts`), so each invariant is
proved against its own steps: the entry of a document has the extension of one of its
originals (`FormsHeld`), so a document with one original is of one kind, and while its
text is being replaced it is not offered; what is about to be promoted has its receipt (`ConversionsInOrder`); the log and the
review in progress are in order (`LogInOrder`, `ReviewInOrder`); a proposal has one final
review, and one person inside it (`OneFinal`, `OneInside`); what a builder is about to
point to is archived (`BuiltIsArchived`); a lock names a specification that was stored
(`LocksAreOfSpec`). `OnTheWay` says, read by read, what a launch holds and where it came
from. `PromptsVouched` rests on what each source never takes back: lines of the fact log
(`KeptFacts`), what a person said of a document (`CalledDocs`), an accepted lesson and
its offer (`KeptLessons`, `KeptOffers`), an archived profile (`KeptProfile`).

**Assumptions.** The named ASSUMEs of the modules, which TLC evaluates in the runs: that
a plan is a finite set of numbered turns, that a call costs at most its reservation, the
ranges of the settings that `config.py` enforces (`LaunchesAreKnown`), that what drafts
assert and judges answer are lists (`PanelsAreLists`), and that model values are not
confused with data.

**Only model-checked.** Liveness (`RunningIsDriven`, `RequestsComplete`) is out of the
prover's reach, as are ENABLED and fairness: for the second, the two theorems above are
what can be said without them.
The four violated properties are refuted by TLC's traces.

## 5. What is abstracted

- *Data.* A prompt, an answer, a gate's question, a fact, a lesson are model values.
  In the engine, whether an answer passes the schema and the turn gates is a choice
  between a member of `Outputs` and `Invalid`; StagePipeline has the gates themselves.
  A score is whether it moved; a text is the list of bases it asserts and what its gates
  say of it. The floors of convergence and the thresholds of the panel are choices.
  Digests are compared as what they are digests of.
- *Settings.* A layer is a function of the settings the pipeline depends on. Files that do
  not parse are left out; the adapter file, which is read twice, does not change between.
- *Order of turns.* The engine takes it as static (`Before`); StagePipeline shows why.
  There, the attempts of a turn are a number of refusals, and the last seat brings the
  panel's verdict in its own step: the crash between the two, and `_finalize` that makes
  up for it (`orchestrator.py:1152`), are RunEngine's.
- *Cap.* `Caps` of the engine runs are above the launch cap; the proofs allow any.
- *Files.* Replaced atomically, and appends durable when they return, in every module but
  JournalFile and AuditTrail, where a write may die half way. A read of the journal is
  several system calls, at the granularity of lines. Power loss after fsync is out of
  scope.
- *Money.* Each provider call has an id of its own and is recorded once, so the search of
  `_book_spend` for an equal booking finds none and is left out (`Booked`).
- *Vault.* Sessions append under RunLock. Facts, ingest and the citation commands write
  into the vault without it, so a backup or a purge may miss their last lines: the
  properties of the vault speak of the journal. A backup copies in two steps (first and
  last file). The archive contains the
  lock file, and a restore brings it back (`kind = "restored"`). A container made anew has
  a new host name. Encryption and the destruction inventory are data. Left out: an audit
  entry appended between the reading of its head and the move; a directory made
  anew at the path after the move.
- *Export.* What an attestation commits to is compared by flags that attesting resets, one
  each for the journal and the ledger; commands do not cross midnight; a
  proposition check is one turn; at most one blocker that no one can lift. A download
  reads its file and its permission in one step.
- *Stream.* The client does not connect again after a normal end.
- *Launch.* Launching a run that has started only compares and is left out. An
  unlocked `add_fact` runs beside a review. `revise_fact` has no caller. The parser of
  requests, the interview and the preferences file are data. Of a captured document a
  prompt holds the passages with the best score; here a document is one passage.
- *Runs.* One run per model. Runs share the queue and the vault's lock; DriverQueue has
  several items, MatterVault several sessions.
- *Not modelled at all:* providers (an answer is valid, invalid, or an error),
  production suggestions (one more queue item), the command line and the web shell
  (wrappers over the verbs above), schema upgrades.

## 6. Plan

Done: all six systems, their runs, and the theorems of section 4.

Next:

1. The one hazard no property covers, which of two pauses wins (`worker.py:393`): the
   code's intention has to be found first. A stream that ends without its last event
   (`web/api/sse.py:75`) would need a property of its own, too.
2. A refinement of the engine's static order by StagePipeline, should the two be
   composed: `PaidAnswersAreWanted` and `StagesStayOver` are its two halves.
3. The replies of a provider, which classify into the failures the worker routes.
