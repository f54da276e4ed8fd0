# Milton: TLA+ models, model checks and proofs

Milton reads what agent harnesses and tools leave behind (transcripts, ledgers,
databases, git history), normalizes it into an SQLite index of events and
links, projects reports from that index, and keeps findings in an append-only
JSONL ledger. This directory holds TLA+ models of the parts of `src/milton`
where state changes, what TLC checks about them on small instances, and what
TLAPS proves about them for every instance.

Paths below are relative to the implementation, `src/src/milton/`.

## The system

| Component | State it keeps | Operations | Hard behaviour |
| --- | --- | --- | --- |
| Finding ledger (`findings.py`) | `findings.jsonl` | `append` under a flock; `records`, `current`, `history` without one | stale reads, short writes, failed flushes, kills, power loss |
| Relation store (`store.py`, `relations.py`) | table `relation_records` | `append_relation`, `relation_history`, `current_relations`, traversal | check-then-insert between processes, corroboration, terminal refutation |
| Crosswalk store (`store.py`, `crosswalk.py`) | table `crosswalk_records` | `append_crosswalk`, `crosswalk_history`, `current_crosswalks`, `connected_identities` | check-then-insert, linear history that adapters do not know of |
| Ingestion (`ingest.py`, `store.py`) | tables `events`, `adapter_sources`, `adapter_runs` | `Ingestor.run`, `append_event`, `record_source`, `record_adapter_run` | sources that grow while they are read, crashes half-way, two scans, failing sources, windows and content policies |
| Store opening (`store.py`) | `schema_meta`, the private copy of a read-only store | `_initialize`, `_open_read_snapshot` | two first openers, a copy of files that are being written |
| Event model (`model.py`) | none | `stable_id`, `canonical_json`, payload validation | identities that do not cover the content |
| Adapters (`adapters/`, thirteen of them) | none (what they read is another program's) | `discover`, `fingerprint`, `read` | pairing of calls and results, forks and answers of several lines, sources that name each other, content that changes under one identity |
| Accounting (`accounting.py`) | none | `build_accounting` | precedence, exact duplicates, conservation of amounts |
| Outcome attribution (`outcomes.py`) | none | `build_outcome_attribution` | closure over links, competing outcomes, window boundaries |
| Finding activity, exports (`findings.py`, `exports.py`) | none | `build_finding_activity`, exports | ledger and store read one query after the other |
| Generators (`generators/`) | none; append to the ledger | gate, motif and memory rules, `append_*_findings` | batches that fail half-way, findings a reviewer has regraded |
| Evaluation, promotion (`evaluation.py`, `promotion.py`, `tuple_evidence.py`) | two JSONL calibration ledgers | `CalibrationLedger.append`, `build_procedure_calibration`, `ProcedureCalibrationLedger.append`, projections | queries of several moments, no lock, short writes |
| Effectiveness (`barnowl_effectiveness.py`) | none | `build_barnowl_effectiveness` | joins of several sources with missing parts |
| Activity, report (`activity.py`, `report.py`) | none | read-only projections | depth-bounded traversal |
| Command line (`cli.py`) | none | `scan`, `ingest`, `findings ...`, `memory audit`, ... | reads and appends in separate steps |

Processes interact only through files. Every `milton` command is one
single-threaded process; any number of them can run at the same time on the same
`.milton/` directory. The ledger is protected by `flock`, the index by SQLite
(one implicit transaction per INSERT: Python's `sqlite3` begins a transaction
at the first INSERT, not at `with self._connection`, so a SELECT before it is
outside). Native sources are written by other programs at any time.

What should hold of each component:

- ledger: one linear history per finding, graded forwards; what was acknowledged
  stays; damage is refused and not buried; the lock is given back;
- links: a refuted relation or join stays refuted; a refutation answers what was
  asserted before it; corroboration brings something new;
- adapters: what is told of a record does not depend on when, or from which time
  on, its source was read;
- ingestion: skipping an unchanged source loses nothing; what is stored is never
  replaced; one source cannot stop another for ever; coverage tells failures;
- projections: amounts are conserved, nothing is counted twice, a bound on depth
  or time changes what is reported only in the direction it says;
- generators: a finding is made only of what the index bears out, and a batch
  says what it has found once;
- finding activity: what was told of a finding's actions stays told;
- calibration: a procedure is never said to be both better and worse.

`PROJECT.json` lists the components with what is modelled of each, and the
hazards at their lines with the properties that watch them.

## The modules

### FindingLedger, FindingHistory, MCFindingLedger

`FindingLedger` models `FindingLedger.append` and the commands around it. The
file is `lines` (a line is a revision, or `Torn`: bytes that do not parse) and
`tail`, which says how the file ends. Per process, `pc` walks through a command:

| Action | Code |
| --- | --- |
| `Create`, `Revise` | `findings create`; `findings revise/refute`, which read the ledger without the lock and build a revision superseding what they saw |
| `Admit` | flock, `_read_handle`, all checks pass, the line goes to the write buffer |
| `Refuse` | the same, but the file is unreadable, the revision is a replay or a check raises; the lock is released |
| `WritePart`, `Flush` | `handle.flush()`: a write(2) that takes part of the line, the one that takes the rest |
| `Sync` | `os.fsync`, return True, unlock, close |
| `Fail`, `Close` | flush or fsync raises: `_exclusive_lock` unlocks, then the file is closed, which flushes a non-empty buffer again |
| `Crash`, `PowerLoss` | the process is killed (the kernel releases its lock); the machine stops, and lines after the last fsync may be gone or cut |

A revision is `[finding, at, grade, supersedes]`; its id is `<<finding, at>>`
because `FindingRevision.create` hashes only these. Summary, evidence and
manifest are `says`, one of `Contents`: `append` looks at them only to tell a
replay from a conflict, and neither writes. `Splits` says where a short write may end:
`"partial"` leaves half a line, `"noeol"` leaves the line without its newline
(it parses, and the next append is glued to it). `Faults` switches crashes,
power loss, I/O errors, and `"retry"`: that `close()` succeeds in flushing what
the failed flush left.

`FindingHistory` is the abstract specification: one sequence of `[at, grade]` per
finding, extended only at its end and upwards on the ladder, from whose end an
entry may be lost until it is promised. `MCFindingLedger` instantiates it with
the refinement mapping (the readable revisions of each finding in file order;
those among the fsynced lines are promised), `ImplementsHistory`.

### GeneratorBatch, MCGeneratorBatch

`append_gate_findings`, `append_memory_findings` and `append_motif_findings` are
one loop, and `GeneratorBatch` is that loop on top of `FindingLedger`: a process is
at a `batch`, with the candidates, the position in them and what the ledger was
`seen` to have. `StartBatch` reads the ledger once, without the lock; `PassOver` is
the candidate that the ledger has already; `Offer` hands one to `append`, whose steps
are `FindingLedger`'s; `Advance` is what the loop does when `append` returns (also
for a replay) and `Abandon` what an exception does to the rest. Reviewers create
and revise beside batches. `Projections` is what generators find: sequences of
candidates, which the rule modules below compute from an index.

### RelationStore, CrosswalkStore, MCLinks

One relation's rows in `relation_records` and one join's rows in
`crosswalk_records`. All statements but the lookup by `record_id` filter on the
relation or link, and the id includes it, so one is enough. Every SQL statement
is an action (`Lookup`, `ReadCurrent`, `ReadHistory`, `Insert`), because each
reads what is committed when it runs. A relation's `record_id` hashes its whole
content, so a record is its own identity; a join's hashes only link, state and
time. `Relate` stands for adapters and for `findings relate`; `Unrelate` builds
its refutation from the last row of the history it has read; `Assert` is what
adapters emit (never superseding), `Refute` is `CrosswalkRecord.refute` on the
last record.

### FindingActivity, ProcedureCalibration, MCLinks

`FindingActivity` is `build_finding_activity` query by query. `ReadLedger` takes the
history of the finding, `ReadRelations` the relations of one revision,
`ReadContests`, `ReadEvent` and `ReadCoverage` who contests the receipt of one
relation, whether its event is there and how its adapter ran last; then `Judge`
decides, and `Tell` returns `Projection`. Between any two of them the finding is
revised, relations are asserted and refuted, receipts are stored and adapter runs
recorded, each in one step: what happens inside these is `FindingLedger`'s,
`RelationStore`'s and `Ingest`'s business.

`ProcedureCalibration` is `findings calibrate-promotion`, a command of any number of
processes: `AskRelation`, `AskFab` and `AskSomm` are the queries of
`build_procedure_calibration`, each of what is stored when it runs (`Arrive` is a scan
that appends an outcome, `Promote` one that asserts the relation of the finding to the
promotion, or a command that refutes it); `Repeat`, `Load` and `Write` are
`ProcedureCalibrationLedger.append`, which reads its file and then opens it to write,
without a lock. A write that stops half-way leaves a `CutLine`: no later command can
read the file, and a command that has read it already writes on into that line. The
id of a result is what it hashes. The store holds the promotion, without which the
command ends at once, and the relation's evidence is the promotion's receipt, as the
Spindle adapter states it.

`MCLinks` puts the relation table, the crosswalk table, the activity reader and the
calibration into one specification. No statement of one reads what another writes (the
relations of `FindingActivity` and `ProcedureCalibration` are asserted and then refuted
for good, which is what `ClosedHistory` says), so a behaviour is about one `part`,
chosen at the start.

### Ingest, MCIngest

`Ingestor.run` over `Sources` of several adapters. Native state: `content` (the
records of a source, as the number of times each was edited), `version` (what
fingerprints tell of it) and `health`. Store: `events`, `registry`
(`adapter_sources`) and `coverage` (the status of the latest `adapter_runs` row).
A scan is at an adapter, a source, its check against the registry, a record, or
between the SELECT and the INSERT of an event; each commits on its own, so each
is a step. `Grow`, `Edit` and `Ail` are the environment. `Live` adapters read a
growing file as they go (JSONL transcripts), the others what their query or
subprocess returned. `Edit` leaves `Live` sources alone: transcripts are only
appended to. `Ailments` says what can be wrong with a source:

- `"fingerprint"`, `"read"`: an exception, caught by `Ingestor.run`;
- `"unreadable"`: the adapter turns the error into a warning and returns;
- `"discover"`: `adapter.discover` raises, which nothing catches.

A record's position stands for its time, so the bounds of a window are positions, and
the mtime of a transcript is the time of its last record: `PassOver` is a transcript
that `_file_predates` leaves alone (the file only grows, so that what `Fingerprint` meets
later did not predate the window before). An adapter may discover no source.

### Accounting, OutcomeAttribution, WorkGraph, EvidenceIndex, MCEvidenceIndex

The projections only read, so they are operators over sets of current events,
crosswalks and relations, and what changes is the index below them.

| Module | Code |
| --- | --- |
| `Accounting` | `_select_accounting`, `_precedence_key`, `_billable_unit_id`, `build_accounting`; event count and amounts by adapter of `build_report` |
| `OutcomeAttribution` | `build_outcome_attribution`: `Roots`, `Candidates`, `Edges`, `Walks`, `Attribute`, `Rollups`, and the windows of `Attributions` |
| `WorkGraph` | `connected_work_refs`, `traverse_relations`, `event_family` and `build_activity` |
| `EvidenceIndex` | the index: `AppendEvent`, `AppendCrosswalk`, `AppendRelation` in any order, `Refute`, after which a link is never current again |

The appends of `EvidenceIndex` are single steps: what happens inside them is the
business of `Ingest`, `RelationStore` and `CrosswalkStore`. An `archive` is an
installation: the records that come in one by one, or the history of its sources
(next section); `Init` chooses one. Bounded closures are
functions of the number of steps, which is what the code's queues compute: these
are in the order of distance, so the first visit of a reference is by a shortest
way. A walk of `_walk_graph` is reduced to its end and whether a relation that
supports attribution is on it, which is all `_attribute_cost` decides by.

Attribution, accounting and activity are checked against definitions written
another way: `AttributionIsExact` against a way in, a supporting edge and a way
out (`IsSupported`), `SuppressedByBetter` against what a duplicate is, `TraversalIsClosed`
against what a reader of the answer can follow.
`MCEvidenceIndex` has three installations, whose records come in one by one:

- `Workday`: a Codex session that Fab ran as an attempt of a job, the George
  entry and the commit of the job, joins, and one relation that may be refuted;
- `Calls`: a Somm call and a shadow judge, two competing commits, a Barnowl
  outcome, which ranks last, one `evaluates` relation that may be refuted;
- `Bills`: one provider request seen by three tools with different quality,
  source-local keys that only look alike, a rollup, an amount that is missing.

### Records, the adapters, SourceWriting, LiveSources, MCLiveSources

An adapter is a function from a content and `since` to records, tagged with the
table they go to. `Records` has what they are made of: `NormalizedEvent`, whose
identity is where the event was found and not what it says, crosswalks, relations.

| Module | Code (`adapters/`) | What is hard in it |
| --- | --- | --- |
| `CodexRollout` | `codex.py` | a rollout line by line; a fork repeats its parent's turns, which are skipped up to the first turn of its own; a call is told with its output |
| `ClaudeTranscript` | `claude_code.py` | an answer of the model that takes several lines, tools that wait for a result, sub-agents |
| `FabJobs` | `fab.py` | three kinds of source under one root; what the ledger and the outputs are read into depends on the receipts that were there when they were looked for, which is before |
| `GeorgeInbox` | `george.py` | gates minted, consulted, decided and disposed of; dispositions of findings |
| `SommLedger` | `somm.py` | eight tables that refer to each other; origins, procedures, campaigns |
| `SessionStores` | `hermes.py`, `opencode.py` | databases whose rows are updated |
| `ReceiptSources` | `git.py`, `chip.py`, `spindle.py`, `barnowl_research_outcome.py`, `memory_files.py` | receipts that are refused as a whole, supersession, an inventory |

`LiveSources` lets an installation's sources go through a history of contents
(`Grow`), while `Scan` reads any of them, whole or from some time on, and appends
what its adapter tells; a record that the index has with another content ends the
scan there (`Appended`), as `append_event` raises. When a source is read at all is
`Ingest`'s business. A reading of a Fab root is of two moments: `FabAdapter.read` looks
for receipts when it is called, and the ledger is opened when the records are asked
for. `MayRead` therefore has the readings for any of the receipts that may have been
missed, those that came after some earlier moment (`Late`). What a ledger tells of
the steps of such receipts is kept in a history variable, `overtaken`, for the
properties to speak of. `MCLiveSources` has five such installations: `Transcripts` (a
Codex session that is forked while a turn is going on, beside a Claude session),
`Factory` (a Fab job of two attempts with its George entries, commits and OpenCode
session), `Handover` (a Fab job whose receipts come with its ledger lines, so that a
scan may miss them), `Campaign` (a Somm database with the Barnowl, Chip and Spindle receipts
that refer to it) and `Databases` (Hermes, OpenCode, memory).

`SourceWriting` says how the other programs write, adapter by adapter. `XKept` is what
identifies an entry in the sources of adapter X, `XGoesOn` how a source that held one
thing comes to hold another: files of lines are appended to, in the order of time, and
rows, commits and items stay as they are once they are there. Beyond that, because
the properties do not hold without it:

- a step of a Fab job has its receipt when the ledger tells of it, or never has one
  (`docs/adapters.md:45`: legacy jobs may predate receipts), but both may come while a scan
  is between its look for receipts and the ledger; an attempt ends once;
- rows of Hermes and OpenCode are final when they are read, memory items and the refs of
  a commit are those that were read first;
- a bound for `since` divides neither the lines of an answer of Claude Code nor the calls
  of a Somm session;
- a message, under its uuid, is said in one transcript, and a tool is used once;
- a rollout has the form `RolloutOK`, and the parent of a fork is there.

`WritingAssumption` of `LiveSources` says this of all histories, and that an id, which is a
hash of adapter, kind and native identity, is of one of these; TLC evaluates it on
those of `MCLiveSources`, and the proofs use nothing else of them. The section on
what is not modelled says what happens otherwise.

### GateRules, MemoryAudit, MotifRules, Effectiveness, Projections

The rule cascades of `generators/` and `barnowl_effectiveness.py` as operators over
the index, and, in `Projections`, what their documentation promises, said without
the cascade:

| Module | Code | Checked against |
| --- | --- | --- |
| `GateRules` | `generators/george_gates.py` | `GateVerdicts`: settled, minted again and old are what the evidence says, whichever order it came in |
| `MemoryAudit` | `generators/memory.py` | `GivenUpOnlyUnused`: an item is parked or retired only if every stage was reported unused, last |
| `MotifRules` | `generators/motifs.py` | `MotifsAreBorneOut`: each session failed in that way inside the window |
| `Effectiveness` | `barnowl_effectiveness.py` | `ChainsAreWhole`, `CutsAgree`, `ClaimsAreBacked`: chains divide the receipts, every cut has the same outcomes and amounts, nothing is claimed while something is open |

`archive.asked` has the configurations each is run with. Five more installations
of `MCLiveSources` feed them: `GatesRaised`, `MemoryUsed`, `SessionsFailing`, and
`FollowedUp` twice (research outcomes that follow up on each other in every way,
among them a cycle and two successors of one; and ones that join several calls).
The events of these come in one by one, so that every property is evaluated on every
part of the index. In `GatesRaised` mints name their gates and no two mints of a
gate are at the same time; one mint refers to another.

## What TLC checks

| Run | Configuration | Result |
| --- | --- | --- |
| `ledger_faults` | 2 processes, 1 finding, 3 times, files of up to 3 lines when a command starts, both kinds of short write, crash, power, io | `TypeOK`, `LinearHistory`, `GradeLadder`, `FailsClosed` hold |
| `ledger_durable` | 2 processes, 2 findings, 2 times, 2 lines, a generator and reviewers, the same faults, `"partial"` only | `AckedDurable`, `BatchTold`, `ImplementsHistory` hold |
| `ledger_calm` | as above with two generators and 2 contents, no faults, both short writes, fair | `UnreadableIsTransient`, `LockReleased`, `HistoryOnlyGrows`, `NoIdleRevision` hold |
| `ledger_retry` | io and `"retry"` | `LinearHistory` is violated |
| `links_single` | 1 writer, 2 evidence events, 3 times, 4 rows; 1 reader, 3 action relations of 2 revisions to 1 receipt; 2 calibrations, 3 Fab outcomes, 2 Somm comparisons, 2 results when a command starts | `ClosedHistory`, `RefutationAnswers`, `FreshEvidence`, `LinearJoins`, `EverActedOnStays`, `ClaimsNeverContradict`, `ReplaysNeverConflict` hold |
| `links_revived` | 2 processes, 1 evidence event, 2 times, 2 rows | `ClosedHistory` is violated |
| `ingest_scans` | 2 scans, 1 source read by query, a window for each of 2 records, 1 edit each | `TypeOK`, `SkipLosesNothing`, `NeverReplaces` hold |
| `ingest_converges` | 1 scan at a time from the second record on, 3 adapters (one live, one without a source), 2 records, failures, 1 crash, fair | `CoverageTells`, `Isolated` hold |
| `ingest_unreadable` | 1 live source that can be unreadable | `SkipLosesNothing` is violated |
| `evidence_projections` | 13 installations: 8 whose records come in one by one, 5 whose sources are scanned while they grow through 2 or 3 contents; walks of up to 3 steps | of the index: `SuppressedByBetter`, `AmountsReconcile`, `SuppressionIsFinal`, `EvidenceOnlyAdds`; of links: `AttributionIsExact`, `WindowsAgree`, `TraversalIsClosed`, `ActivityFindsSessions`; of adapters: `ScansAgree`, `ForksAddUp`, `AttemptsOnce`; of rules: `GateVerdicts`, `GivenUpOnlyUnused`, `MotifsAreBorneOut`, `ChainsAreWhole`, `CutsAgree`, `ClaimsAreBacked` hold |
| `fab_overtaken` | the same 13 installations; `Handover` is the one that matters | `ReceiptsFirst` is violated |
| `evidence_association` | `Workday`, `Calls`, `Bills` | `AssociationAbstains` is violated |

Why the bounds are enough. Two processes are the least with a race, and every
step of an append or a scan involves at most one other writer; a third adds
no kind of step, and the proofs below cover any number. Three times and three
lines (more can be appended by commands already under way) give a chain of
revisions with a stale writer and a damaged end. Two findings are needed where
one's lines separate another's (`ImplementsHistory`). Two records in a source
are needed for one to be stored and one not, two windows for a registry row to
be of another window than the next scan. With `--since` at the second record, a transcript
of one record is passed over until it has grown. A third evidence event or row adds no branch to
the conditions of `append_relation`. With `MaxDepth = 3`, the way in `Workday` from
the session by its attempt and job to the commit ends exactly at the bound, and
a supported way that makes a detour (session, job, entry, job, attempt) behind it.
Two generators, one of which finds something else in the other's finding, are what
it takes for a batch to be stale in the middle, at its first candidate or at its
second, and two contents for "says the same" to be false with an equal grade. An
action of the earlier revision and two of the current one that contradict each
other, on one receipt, give a reading every order in which it can be overtaken;
contests and coverage are the receipt's, so a second receipt adds no order.
For a calibration, a job's end and its delivery (which counts for more), a failed job,
and two comparisons that say opposite things, each of one of the first two receipts,
give every verdict, so that a command that takes the wrong one of two outcomes is seen to.
The histories of the five growing installations stop their sources where an adapter
must decide with the rest missing: between a call and its output, inside a turn that
is forked, between the lines of an answer, between an attempt and its ledger line.
In `Handover` a receipt that silences comes with a ledger line in either step, so that it
can be missed at once, and one step later.

`links_single` is about one writer of links because `links_revived` shows that two
refute it: between its SELECTs and its INSERT, an append is not protected.
`CHECK_DEADLOCK FALSE` is given where a bound really stops the system
(`MaxLines`, `MaxRows`, an index that holds all of its archive).

### What the violations show

- `ledger_retry`. `handle.flush()` fails because the disk is full; the lock is
  released before the file is closed; `close()` writes the buffered line after
  space was freed and another process has appended. The history forks although
  the append raised.
- `links_revived`. An assertion passes its checks, a refutation commits, the
  assertion is inserted behind it: a refuted relation is current again.
- `ingest_unreadable`. A transcript that cannot be opened (permissions, a lock)
  gives a warning and the status `"ok"`; permissions do not change size or
  mtime, so later scans skip it.
- `evidence_association`. A session is joined to a George entry by a crosswalk,
  which alone must abstain (`docs/outcome-attribution.md:60`). The entry verifies
  a job; the walk root, entry, job, entry is supported, because `_walk_graph`
  lets a walk return to a reference it comes from. The cost is attributed to the
  entry with the path as its evidence.
- `fab_overtaken`. Receipts are looked for, then a receipt and its ledger line are
  written, then the ledger is read: it tells of the attempt, and once the receipt is
  scanned, the receipt tells of it again. `docs/boundaries.md:189-190` says that
  receipts are read first and the ledger serves legacy jobs only.

Two more behaviours are in the models and not in a run of their own. With
`"discover"` among the ailments `Isolated` fails: an exception in
`adapter.discover` ends the scan of all adapters. With `"noeol"` in
`FindingLedgerDurable.cfg` `AckedDurable` fails: a process killed between a
complete line and its newline leaves a ledger that parses, the next append
passes its checks, is written behind it on the same line, and answers True for a
revision no reader will ever see. `BatchTold` fails there for the same reason.

### Fairness

`FindingLedger`'s `FairSpec`, and `FairBatchSpec` likewise, have weak fairness of
`Flush`, `Sync` and `Close`: a process that holds the lock runs straight through these
and waits for nothing. Starting a command or a batch, going on with one, and faults,
are never obliged. `Ingest`'s `FairSpec` has weak
fairness of a scan's steps (it is a loop without waits) and of `Start`: scans
are repeated, which is how the tool is used (`scan` on a schedule) and without
which nothing would ever be retried. `Isolated` therefore says what repeated
scans achieve, for a source that is usable from some point on.

## What is proved

`FindingLedgerProofs`, for any sets of processes, findings and times and any
bound, assuming `"retry" \notin Faults`:

- `TypeCorrect`, `HistoryIsLinear`, `LadderHolds`, `DamageStaysLast`;
- `AcknowledgedIsDurable`, assuming also `"noeol" \notin Splits`;
- `LedgerImplementsHistory`: the file implements the histories of `FindingHistory`
  (`ImplementsHistory`).

The inductive invariant `IInv` relates the lock to `pc` (`HolderOK`: the holder is
the process between its checks and its fsync), the buffer to `pc` (`BufferOK`),
and, the heart of it, the buffered revision to the file (`AdmissionOK`: the checks
a writer has passed still hold of the file it is about to extend, because
nobody else can write). `GradeLadder` speaks of any two revisions and follows
from linearity by the transitivity of the ladder (`NewLine` and the lemmas
before it); `PrefixLinear` says that losing a tail keeps both. Durability adds
that a flushed line is on file and terminated (`FlushedOK`, `Terminated`), and
`DamageStaysLast` that a writer read an undamaged file (`WriterRead`). For the
refinement, each step maps to an extension of one history or to a stutter because
the mapping picks the n-th line of a finding by counting the lines before it, which
needs no recursion; a power loss cuts no history below what was fsynced, because a
line without a newline is one that was not (`UnfsyncedTail`).

`GeneratorBatchProofs`, for any generators besides, and any sequences of candidates:

- `BatchesKeepHistory`, assuming `"retry" \notin Faults`: a batch's appends are
  commands of `FindingLedger`, whose invariant they keep (`LedgerInv`);
- `BatchesImplementHistory`, the same refinement beside generators;
- `BatchesTell` and `BatchesAddNews`, assuming also `"noeol" \notin Splits`;
- `FileOnlyGrows` (`HistoryOnlyGrows`), assuming no power losses, and no faults at all if
  `"noeol" \in Splits` (`Quiet`): `Finishing` says that a line without a newline is then
  only what a process that still holds the lock is in the middle of.

Their invariant `BInv` adds to that of durability what a batch knows: what it has
seen of the ledger is on a line that parses (`SeenBy`), what it has offered is its
candidate behind what it saw (`OfferedBy`), what it has put behind it is there
(`ToldBy`). All three need that lines under a batch are not lost, which is why the
batch goes when its machine stops, and why an unterminated line must not be one it
has seen. `NoIdleRevision` then follows from the check under the lock: a revision that
passes supersedes the current one, so that is what the batch saw, and the batch
offered because it differs.

`LinkProofs`, for one writer (`OneWriter`), any evidence,
times and number of rows:

- `HistoryCloses`, `RefutationsAnswer`, `EvidenceIsFresh`; `JoinsAreLinear`, assuming
  `None \notin RecordIds`; and the types.

The invariant `CheckedOK` says that what the statements of an append have let
through still holds of the rows when the next one runs. With a second writer it is
false after the first SELECT, and `links_revived` shows that the properties are, too.

Of a reading of a finding's activity, for any relations, receipts and revisions:

- `ActedOnStays`: `EverActedOnStays`, however the queries of a reading are overtaken.

`ReadSound` says that what a reading has read was so when it was read, and that only
a refutation ends an assertion. `ToldStands` names the witness: if a reading told
that the finding was acted on and nothing was taken back, a relation stands that
makes it so, and a reading under way has found it valid or has still to come to it.

And of calibrations, for any processes, outcomes and number of results:

- `ClaimsStand` (`ClaimsNeverContradict`) and `ReplaysAgree` (`ReplaysNeverConflict`).

A result that claims something was made of the only exact comparison in the store, and
events are never removed: `OneComparison` says that this comparison is still there and
that all claims, on file and in hand, are of the same one. What a second comparison adds is
doubt, not another claim. `IdentityTells` says that what is hashed determines the record.

`IngestProofs`, for any numbers of scans, adapters, sources, records, windows
and policies, assuming `"unreadable" \notin Ailments`:

- `TypeCorrect`, `SkippingIsSafe`, `StoredForGood` (`NeverReplaces`);
- `CoverageIsTrue` (`CoverageTells`), for a finite number of processes.

`SkipLosesNothing` is not inductive. `IInv` adds, of each scan at a source, that
its fingerprint is not ahead of the source (`AtSource`), that a reader whose
source still has the fingerprint sees all of it (`SeesAll`: it opened it no
earlier), and that what it has passed inside the window is stored
(`PassedStored`); `PrintsPast` says the same of the registry as `AtSource`. A
source that changes invalidates every claim about it at once, which is why
`Grow` and `Edit` need nothing else. `CovInv` says of the one scan that works on a
store that each source it has dealt with is in order or has been noted as failed or
outside (`Finished`), and of a row that it is right until its sources are read again.

`EvidenceIndexProofs`, for any archives and any sources, however these grow and in
whatever order they are scanned:

- `ReplacedForGood`: an observation that accounting has suppressed is never
  selected again (`SuppressionIsFinal`). What beats an observation is another
  event, events are never removed (`EventsStay`), and whether one observation
  beats another does not depend on the rest (`BeatenStaysBeaten`);
- `BestIsSelected` (`SuppressedByBetter`): what is suppressed is so by something
  selected. That needs the precedence to be a strict total order on the observations
  of a unit and the index to be finite (`IndexOK`): a best one exists;
- `WindowsShowTheSame` (`WindowsAgree`) and `AttributionsAreExact`
  (`AttributionIsExact`): a cost is attributed along a path of asserted links with one
  end, whatever the window, and an ambiguous one has two;
- `EvidenceAdds` (`EvidenceOnlyAdds`): more evidence adds paths and takes none away
  but by a refutation. A relation that was refuted stays out when its source tells it
  again, which the factory's `doubtful` relations exercise in the runs;
- `TraversalsAreClosed` (`TraversalIsClosed`) and `ActivityHasSessions`
  (`ActivityFindsSessions`): what a traversal reaches is closed under the links it
  may take, whatever the graph.

`SourceProofs`, for any sources that are written as `SourceWriting` and `RolloutOK` say:

- `ForksTellTheirOwn` (`ForksAddUp`): of a Codex rollout, forked or not, the costs that
  are told are those of its own lines. `ReaderKnows` is an induction over the lines:
  behind each, the reader is passing over lines if and only if the line was copied, and
  has told the costs of the own lines so far. `RolloutsAssumption` says how rollouts are
  written, as the comments of `codex.py` do: what a fork has of its parent comes first,
  under turns that the parent had begun by then, and behind it a turn of its own. If the
  parent's rollout is missing, what is copied must have no turn;
- `ScansTellTheSame` (`ScansAgree`): however the sources grow, and whatever is scanned of
  them, whole or from some time on, and in whatever order, the index has only what a scan
  of everything would tell now, but for what is `overtaken`, and such a scan tells one
  event under one id;
- `AttemptsAreToldOnce` (`AttemptsOnce`): but for what is `overtaken`, an attempt is not
  told by its ledger line when it has a receipt.

Two facts about each adapter carry the last two, and each adapter has a lemma for each.
`XTells`: two events of one name, told of any two sources of the adapter, are one event
(`SourcesTell`). `XReadsOn`: what was told of a source as it was, from any time on, is
told of it, word for word, when it is read whole later (`SourceReadsOn`). `UpToDate`,
that the index has nothing that a scan of everything would not tell, but for what is
`overtaken`, is then inductive: a
scan adds what `SourceReadsOn` keeps, and so does a step of the sources. For the adapters
that read rows, entries and commits, both facts are about one of these at a time. For
those that read transcripts they are inductions over the lines:

- for Codex, `ReaderRemembers` says what the reader knows behind each line (the calls that
  wait, the model), and `ReaderTells` that this is enough to tell from the lines alone,
  without the reader, what was told: so a longer rollout, which has the same lines, tells
  it too. A call is told with its output, and neither changes when lines are added;
- for Claude Code, a reader that starts late is `Behind` one that starts at the beginning:
  it has told less and waits for fewer results, and the answers that it has not seen
  begin are none of those it tells, because no bound divides one. `Fresh` says that
  what it is about to tell has not been told under that name.

A Fab source is the case where growing takes something back: a receipt that comes later
silences a ledger line that was already told. Between scans `FabGoesOn` excludes this;
within one it does not, and there `ReadOrOvertaken` says what is left: each event of a
reading that missed receipts is either in the reading that would have missed none, or a
ledger's telling of a step whose receipt was missed (`CoverageMissed`), which is what `Scan`
notes as `overtaken`. `AttemptsOnce` follows from this only together with `ScansAgree`:
the ledger line in the index may come from an old scan, and must still be told now.

`ProjectionProofs`, for any archives and any sources, as in `EvidenceIndexProofs`:

- `MoneyIsKept` (`AmountsReconcile`): in the whole index and in every window of it
  (`Windows`), each amount that accounting selects is in one bucket of the attribution, in
  the report of one adapter and, if attributed, in the amount of one outcome, by economic
  kind, and these add up to what was selected;
- `UsedMemoryIsKept` (`GivenUpOnlyUnused`): `StageStatus` is "not_observed" only if the
  last reports of the stage say so and none of them the contrary (`LastSaid`);
- `GatesAreJudged` (`GateVerdicts`): the densest window is as full as any set of mints
  that lie close together, because such a set has a last mint, with which a window ends
  (`DensestCounts`); and a mint names one gate (`CanonicalIs`);
- `MotifsHold` (`MotifsAreBorneOut`): a facet that supports a motif has receipts of its
  own (`SupportsAre`), so nothing from outside the window corroborates it (`ExternalIs`),
  and a session has one facet, so the floors count sessions (`FacetsAreOneEach`);
- `CutsAddUp` (`CutsAgree`): there is one record for each selected cost of the window, an
  attributed one names one receipt of it (`EffectiveAre`), and sums over disjoint
  groups of receipts add up (`CostsAddUp`, `GroupsAddUp`);
- `ChainsDivide` (`ChainsAreWhole`): what is connected to a gap is closed under the
  links (`ReachCloses`), so what is left has at most one predecessor and one successor,
  later and of one domain (`ValidIsLinear`). A walk along such links goes forward in
  time, so it ends (`PathsAreShort`, `WalkIs`), and by induction over time every
  valid receipt is on one (`WalksDivide`). This is the condition `visited != valid` of
  `_build_current_chains`, marked "no cover", which is thus never true;
- `ClaimsHold` (`ClaimsAreBacked`): if there is no reason against a claim there is no
  gap, so the chains are of all receipts, and the end of a chain is the later result.

`FoldProofs` has what these rest on. The model folds over sets; a fold is a function
that the library defines by recursion, and no induction theorem with an operator
parameter can be used here, but the induction over finite sets can be stated of a
set of sets (`SetInduction`). From it follow what a closure reaches, that a sum exists
and is unique (`SumsExist`), does not depend on the order (`SumTake`), and is the sum
of the sums over disjoint parts (`SumUnion`, `SumParts`), and that a closure over a
finite set is complete after as many steps as the set has members (`ReachCloses`).

`IdsOrdered` is a hypothesis of the theorems that need it: that the order of ids is
total, as Python's order of texts is. `ArchivesAssumption` and `LexicalAssumption` say
that an archive's events are well formed, `AskedAssumption` that projections are asked
for with what their commands accept, and that George gives each entry one id;
`ReceiptsAssumption` that research outcomes are told by their adapter, with a reference
and finitely many calls, as `_parse_receipt` requires.

What is assumed of faults and ailments is exactly what `ledger_retry`,
`ingest_unreadable` and the line without a newline show to be necessary. The proofs
rest besides on the named assumptions about constants of each module, which TLC
evaluates in every run, and on the library's facts about sequences.

Only model-checked: the liveness properties (`UnreadableIsTransient`, `LockReleased`,
`Isolated`), which are out of the prover's reach. Every invariant and every other action
property that a passing run checks is a theorem.

## What is not modelled

- *Store opening* (`_initialize`, `_open_read_snapshot`): what two first openers see
  depends on SQLite's locks between `executescript` and the SELECT behind it, and
  what a copy of a database in use holds on the format of its WAL. A model would be
  one of SQLite.
- *Exports* (`exports.py`, `build_finding_export`) and the receipts a reading lists:
  documents, made of reads that are modelled. An export reads the history and the
  relations and then calls `build_finding_activity`, which reads both again, so the
  parts of one export may be of different moments.
- *Evaluation* (`evaluation.py`, `generators/evaluation.py`): measures over a labelled
  corpus, and a `CalibrationLedger` of labels, which no command writes to.
- *Tuple evidence* (`tuple_evidence.py`): a projection of attributions by model.
- *Data*: parsing of native formats, validation of payloads, content policies in
  adapters, attributes no projection reads, layout, argument handling.
- In `Ingest`: SQLite's busy timeouts, and link records, whose appends are the two link modules'.
- In the projections: the evidence ids of a path, field coverage, token sums, outcome
  counts, and the text comparison of window bounds (a time is a number). To the
  effectiveness projection every link is asserted before everything else (`AllRecords`),
  so that its cutoff decides about refutations only.

`WindowsAgree` is about attribution, and `AmountsReconcile` about the commands of one
window. Accounting itself selects within the window it is given, so a billable unit whose duplicates lie on both sides of a boundary
is counted in either window: windows do not add up to the whole, and no
property says that they do.

### Behaviours that are in the models and no property forbids

Each of these is how the code behaves, and was met while stating a property that is
narrower because of it:

- A message of Claude Code that two transcripts have under one uuid is told of both, in two
  sessions, under one id: the second append is refused. So is a Codex message.
- `ScansAgree` holds of final rows. Hermes and OpenCode rows that are still running
  are told with the state they have, and differ under the same id later; a memory file
  that is edited keeps its inventory id; a Somm session is told with the time of its
  first row inside `--since`; an answer of Claude Code whose lines `--since` divides is
  told from its first line inside. Each re-read then raises `RecordConflictError`.
- So does the re-read of a repository whose refs have moved (`git.py:126`): a commit's event
  has the refs that point at it. `git log` prints the newest commit first, so a new head is
  stored and then the old one conflicts; the source is failed on this and every later
  scan, and older commits that come to lie behind it, as those of a branch that is fetched,
  are not stored. OpenCode's rows are read in the order of time, so all newer sessions lie
  behind one whose title has changed. `Isolated` is checked without edits
  (`MaxEdits = 0`), and `GitKept` and `OpenCodeKept` assume that there are none.
- `AttemptsOnce` speaks of receipts that are there when they are looked for. A receipt that
  comes between that look and the reading of the ledger (`fab_overtaken`), or after its line
  was scanned (which `FabGoesOn` excludes), leaves an attempt told by both. The session of a job has
  one id in both tellings: there the receipt conflicts with what the ledger told, and
  its source is failed for good.
- A Codex fork whose parent's rollout is missing cannot tell the copied turns from its
  own.
- A crosswalk that a source states again at a later time is another record of the
  same join; `append_crosswalk` refuses it because it supersedes nothing.
- In `GateRules`, a decision that came before a mint settles it as well, though the finding
  calls it "a later resolution receipt" (`george_gates.py:442`), and a mint that only refers
  to another mint is a gate of its own.
- `append_crosswalk` SELECTs and INSERTs as `append_relation` does; what two writers do to a
  join is not run, and `LinearJoins` is about one.
- The snapshot in a generator's finding names its cutoff, so a finding that is
  otherwise the same is a new revision on every run with another cutoff.
- A reviewer who has regraded a finding upwards makes `append_*_findings` raise when
  the generator offers its own grade; so does a memory item that goes from candidate to
  lead. The candidates behind it are not tried: `BatchTold` says nothing of them.
- `build_finding_activity` looks for a receipt's event before it reads the coverage of
  its adapter. A receipt that is stored, and whose run is recorded, between the two is
  called invalid although at no time it was; the next reading calls it valid.
- A source that failed and then lies outside the window of a scan leaves a coverage row
  that is `"ok"`; that its `sources_outside_window` is not 0 is all that tells.
  `CoverageTells` is about rows where it is.
- Two `calibrate-promotion` commands that have both read the file both write the same
  result: the second is a replay that is not a no-op.
- A claim can be of a Fab outcome that was the only one when it was asked for, and of
  a comparison that came after a second Fab outcome: at no moment did the store hold
  evidence without ambiguity. The next command says "inconclusive"; the claim stays on file.

## Plan

Done: the ledger and its batches, link tables, ingestion, finding activity,
calibration of promotions, the adapters, accounting, attribution, the rules and the
effectiveness projection.

1. Tuple evidence: the snapshots of `tuple_evidence.py` over `OutcomeAttribution`.
