# A TLA+ model of kb-librarian

kb-librarian keeps a personal knowledge base: Markdown notes under `topics/`,
raw documents that a run of `kb ingest` turns into notes with the help of LLM
providers, and a queue of questions that a person settles with `kb review`.
Everything is in files of one *data directory*; there is no server and no
database. What can go wrong is therefore what can go wrong with files: two
processes that read and replace the same one, and a process that stops between
two writes. The modules here model those parts of `src/kb_librarian/` (paths
below are relative to it).

Contents: 1 inventory, 2 modules and how they correspond to the code,
3 runs, 4 fairness and other assumptions, 5 proofs, 6 where the code departs
from what is said of it, 7 what is left out, 8 plan.

## 1. Inventory

### Components

**Ingest lock and operation record** (`ingest_recovery.py`, frame of `ingest()`
in `ingest.py`). State: `.kb/ingest.lock` (pid, operation id, current file) and
the `"ingest"` entry of `.kb/state.json` (operation id, status, pending files,
the file in hand). Operations: `IngestLock.acquire`, `update_current_file`,
`release`; `IngestCheckpoint.start_operation`, `start_file`, `complete_file`,
`finish`, `fail`; `_resume_files`, `_refuse_unresolved_checkpoint`. Hard: the
lock file is made in two steps, and a stale one is read and unlinked in two
steps, both of which another process may cut into; pids are reused; a killed
run leaves both files behind. Correct when: at most one run ingests; the lock
names that run; no run loses its checkpoint to another; an interrupted
operation is not forgotten; a stale lock keeps nobody out for ever.

**Ingest pipeline** (`ingest.py`). State: the source files and where they are
(`raw/`, `raw/processed/`, `raw/duplicates/`), `.kb/ingested.json`, the notes,
the review items, the generated indexes, the checkpoint. Operations: `ingest()`
and `_ingest_one()`: parse, set duplicates aside, extract candidates, ask for
a verdict on each, write or amend notes, queue questions, reindex, archive,
record. Hard: some ten writes for each file with a stop possible between any
two; a file is processed again after an error, with `--resume` and with
`--force`, and providers may then answer differently. Correct when: no note is
created twice for a source; no candidate worth keeping is lost; a file is set
aside as a duplicate only if the content is kept; a complete operation has
left nothing behind; `raw/` is emptied in the end.

**Review queue** (`review.py`). State: `review/review-items.json` and the
Markdown files rendered from it. Operations: `add_review_item` and the upsert
and queue functions that ingest, search, hygiene and compaction call;
`accept_review_item` (which creates or rewrites notes, moves topics, applies a
compaction), `reject_review_item`, `defer_review_item`. Hard: no lock, and an
accept holds its copy of the file while it rewrites notes; an accept that is
stopped halfway is repeated; later scans refresh and reopen items. Correct
when: ids are unique; an accepted item has been applied, entirely and once; no
item is lost.

**Compaction** (`compaction.py`). Scans for clusters of similar notes, has a
provider draft a canonical note, applies an accepted proposal: writes the
canonical note, then marks, archives or deletes each source note. Hard: a stop
in between; note ids generated against part of the notes; proposals refused
for ever once rejected. Correct when: every source note is still there or
superseded by a canonical note that exists; accepting again completes.

**Topic mutations** (`topic_mutations.py`, `mutations.py`). Rename, promote,
split and merge topics: check for conflicts, copy scopes, move note after note
(write the destination, unlink the source), clean up, reindex. Hard: a stop
between the write and the unlink leaves two files with one id, and then every
command that loads notes fails; a destination may be the source of another
move. Correct when: no note is lost, a repeated command completes the moves.

**Provider retry, policy and privacy** (`provider_retry.py`,
`provider_seams.py`, `providers.py`, `privacy.py`). State, during one
operation: the route that is tried and the number of the attempt. Retries with
backoff within a route, fallback to the next route, exclusion of cloud
providers. Hard: whether a failure is passing is read off an exception's type,
its cause or its words, in two nested loops. Correct when: calls are bounded,
a fallback is tried only after passing failures, excluded text never reaches a
cloud provider on any fallback.

**Hygiene** (`hygiene.py`) and **usage** (`usage.py`). State: the append-only
`usage.log` and `search-misses.log`, `stats.json`, and their items in the
review queue. Scans turn stale, orphaned or unused notes into review items, a
flagged note and a repeated search miss become one at once. Hard: log and queue
are written in two steps; a line that is cut short swallows the next. Correct
when: repeating a scan adds nothing, what a person settled is not raised again
unless something changed, and nothing that was reported is lost.

**Indexing and search** (`indexing.py`, `search_index.py`, `retrieval.py`,
`graph.py`). State: the generated pages, `backlinks.json`, `stats.json`,
`fts.sqlite`, `index-manifest.json`. Every one is rebuilt from the notes, one
after the other. Hard: nothing is locked, two rebuilds may interleave, each may
be killed. Correct when: an undisturbed rebuild repairs whatever is left.

**Git auto-commit** (`git_auto.py`). Remembers what was dirty before an
operation, compares and commits after it, in several calls of git. Hard: the
user works in the same repository meanwhile. Correct when: nothing of the
user's is committed, and all of the operation's is.

**Doctor** (`doctor.py`). Compares the configuration and the generated files
with what they should be; writes nothing. Correct when: what it passes works.

**Configuration** (`config.py`). `validate_config` checks a configuration when
it is loaded; providers are built from it later. Correct when: what passes does
not fail later.

**Notes, storage, atomic writes** (`notes.py`, `storage.py`, `atomic.py`,
`paths.py`): formats, note ids, write-then-rename. **Context packets**
(`context.py`): read-only. **Parsers** (`parsers.py`), **initialisation**
(`init.py`), **command line** (`cli.py`, `errors.py`).

### How they interact

The command line calls one component per command, in one process. Ingest
calls parsers, providers, notes, the review queue, indexing and git in turn.
Search logs misses and may add review items. `kb review accept` calls notes,
compaction or topic mutations. Processes meet only in the files: ingest runs
exclude each other by the lock; every other command takes no lock at all, so
`kb review` may overlap `kb ingest` on `review-items.json`.

`PROJECT.json` lists every hazard with its line and the properties that would
catch it going wrong, or why there is none yet.

## 2. Modules

| Module | Models | Kind |
| --- | --- | --- |
| `ExclusiveLock` | what the ingest lock promises | abstract |
| `IngestLock` | the lock and checkpoint protocol, several runs | detailed |
| `IngestLockProofs` | proofs | |
| `SourceLife` | what ingest promises about source files | abstract |
| `IngestRun` | the pipeline, one run after another | detailed |
| `IngestRunProofs` | proofs | |
| `MCIngestLock`, `MCIngestRun`, `MCIngest` | instances | |
| `ReviewLife` | what the queue promises about a question | abstract |
| `ReviewQueue` | the queue, its commands, what accepting does | detailed |
| `MCReviewQueue`, `ReviewQueueProofs` | instances, proofs | |
| `NoteLife` | what reorganising promises about the notes | abstract |
| `NoteMutations` | topic moves, compaction, accepting their proposals | detailed |
| `MCNoteMutations`, `NoteMutationsProofs` | instances, proofs | |
| `ProviderPolicy` | one operation: routes, retries, privacy | detailed |
| `ProviderSetup` | one provider section, and its three readers | detailed |
| `GitAuto` | a command's commit, beside a user | detailed |
| `Reindex` | the generated files, their writers, doctor | detailed |
| `Hygiene` | usage log, suspect flags, hygiene scans | detailed |
| `SearchMisses` | search misses and their items | detailed |
| `GitAutoProofs`, `ReindexProofs`, `HygieneProofs` | proofs | |
| `Parts` | the six modules above side by side | composition |
| `MCParts`, `MCFallback`, `PartsProofs` | instances, proofs | |

A definition whose comment starts with "Faulty" is not used by the
specification. It is a plausible bug in the definition that follows it, and
with it in place TLC finds a property violated (the pairs are in
`PROJECT.json`, "mutants"). Each property has one, so none holds by the shape
of the model alone.

### IngestLock

Variables: `lock` (the file: absent, empty, or owned with an operation and a
pid), `ckpt` (operation and status of the checkpoint), and of each run `pc`,
`mode` (plain, force, resume), `op` (its operation id) and `seen` (the pid it
read from the lock before replacing it). One action for every file-system call:

| Code | Actions |
| --- | --- |
| `ingest()` up to `acquire`, `_operation_id_for_run` | `Start` |
| `acquire`: `os.open(O_CREAT\|O_EXCL)` | `OpenCreates`, `OpenExists` |
| `acquire`: read, `_lock_is_active` | `InspectRefuses`, `InspectDiscards` |
| `acquire`: `unlink`, then the write of the payload | `Unlink`, `WritePayload` |
| `_resume_files`, `_refuse_unresolved_checkpoint` | `CheckPasses`, `CheckFails` |
| `start_operation` | `StartOperation` |
| `update_current_file` | `ReadOwnLock`, then `ReplaceLock` or `SkipClear` |
| the checkpoint's other writes | `SaveProgress` |
| `finish`; what the loop does not catch, `_current` raising included | `Finish`, `Fatal` |
| `release` | `ReleaseReads`, `ReleaseRemoves` |
| a kill | `Crash` |

A run is started once: a second run of a user is another member of `Procs`.
Whether the pid of a dead run looks alive (`os.kill(pid, 0)`) is arbitrary when
`PidReuse` holds. The `os.kill` and the decision are one step. The
read and the write of the checkpoint within `_current` and `_save` are one.

### IngestRun

There is at most one run here (what `IngestLock` is for), and its local
variables are the record `run`; `run.at` is where it is. The other variables
are the files it leaves behind. Each action makes at most one of the writes
that the properties speak of, and `Fault` (a kill, an exception that the
file's `except` catches, one that it does not) can come between any two. The
providers are external: candidates and verdicts are arbitrary and may differ
when a file is processed again.

| Code | Actions |
| --- | --- |
| `_selected_files`, `_resume_files`, `start_operation` | `StartPlain`, `StartForced`, `StartResumed` |
| the loop of `ingest()` | `StartFile`, `QueueUnsupported`, `Finish` |
| duplicates | `IsDuplicate`, `ArchiveDuplicate`, `RecordDuplicate`, `QueueDuplicate` |
| `_ingest_one`: parse, extract, match | `Parse`, `Extract`, `SkipCandidate`, `MatchCandidate` |
| verdicts | `QueueClassification`, `VerdictFails`, `UnrelatedKnown`, `UnrelatedNew`, `Identical`, `AddsNuance`, `Contradicts` |
| writes to notes, reindex | `AppendSource`, `AppendsDone`, `MarkDisputed`, `QueueDispute`, `Reindex` |
| after the candidates | `Archive`, `RecordSuccess`, `CompleteFile` |
| `except` clauses | `CatchError`, `QueueParserFailure`, `RecordError` |

Data is what the properties tell apart. A file of `Files` is a document: a content
(`Hash`, its digest) at a path (`Path`). Another document may come to the path
of one that has been archived, as a later edition of it does, and a note that
has a source at that path is then not cited again (`HasSource`, the guard of
`_append_source_to_note`). A candidate is its title, a review item what its
fingerprint is made of; `due` and `same` are the candidates of the file in hand
that are worth keeping and what each was found identical with.

### ReviewQueue

`items` is `review-items.json`, one record for each fingerprint, the item's
number and day of creation being its id. `made`, `bodies`, `marks`, `acks` and
`cites` are what accepting has done to the notes. `cmd` is the command a
process is running: the copy of the file it has read, the item it will put
into the copy, the notes still to be changed. A command is `Begin` (read,
decide), the steps to the notes, and `WriteState`, which replaces the whole
file by the copy; `Stop` ends it anywhere.

| Code | Actions |
| --- | --- |
| `add_review_item`, `_append_item`, `_allocate_id` | `Add` |
| `upsert_search_miss_review_item` | `UpsertSearchMiss` |
| `upsert_hygiene_review_item` | `UpsertHygiene` |
| `queue_compaction_cluster_review_item` | `QueueCluster` |
| `reject_`, `defer_`, `accept_review_item` | `RejectItem`, `DeferItem`, `AcceptItem` |
| `_create_note_from_classification` | `CreateNote` |
| `_append_source_by_note_id` | `CiteInNote` |
| `_append_merge_body_to_note`, then `_append_source_to_note` | `MergeBody`, `MergeSource` |
| `_acknowledge_dispute_on_note` | `Acknowledge` |
| `_write_state` | `WriteState` |

### NoteMutations

`files` is what is under `topics/`: the note in each `<topic>/<id>.md`, or none.
`scope` is each topic's `scope.txt`: none (no folder), the template, edited by
a person, or cut short by a kill. `pending` is the proposals queued for review,
`cmd` the command that is running: the moves, scopes, folders or source notes it
has left. Ids are a title and a day with a number, as `generate_note_id` makes
them, so that they can collide.

| Code | Actions |
| --- | --- |
| `queue_topic_split_proposal`, `queue_topic_merge_proposal` | `Split`, `Merge` |
| `draft_compaction_proposal` | `Compact` |
| `rename_topic`, `promote_topics` | `Rename`, `Promote` |
| `apply_topic_review_item` | `AcceptMoves` |
| `_copy_topic_scopes` | `CopyScope`, `TearScope` (a kill in it), `LayOut` |
| `_move_one_note` | `MoveNote` (the write), `UnlinkOld` |
| `_cleanup_old_topic_dirs` | `Moved`, `Cleanup`, `CleanedUp` |
| `apply_compaction_review_item` | `AcceptCompaction`, `KeepSource`, `MarkSource`, `Marked` |
| `reindex_data_dir` (scopes) | `Reindex` |
| `accept_review_item`, `reject_review_item` | `Accept`, `Reject` |
| a kill, an exception | `Stop` |

Not the program's: `EditScope` (a person describes a topic) and `Repair` (a
person deletes one of two files with one id, without which every command
refuses to load the notes). `AddNote` stands for the commands that create notes.
`ReviewQueue` says how items come and go, `NoteMutations` what accepting these
two kinds does; a proposal here is only whether it is still open.

### ProviderPolicy

`conf` is the operation's configuration and the topics of the notes it sends;
`at`, `index` and `attempt` say where the two loops are; `tries` and `ended`
remember how often each route was called and what ended it. An exception is
what its class is, whether its cause has one of the types that are looked for,
and whether its text has one of `_TRANSIENT_MESSAGE_TOKENS`; `Failures` lists
which of them each adapter can end with. Words come from providers, from the
configuration and from topic names, so they are arbitrary, but a privacy error
quotes a topic and has words when the topic's name has (`Wordy`).

| Code | Actions |
| --- | --- |
| `call_with_provider_policy`: the routes, the privacy rules | `Begin`, `Block` |
| `provider_from_config` raises, or not | `NotBuilt`, `Build` |
| `call_with_retry` | `Answer`, `Wait`, `Repeat`, `GiveUp` |
| `classify_provider_failure`, the handler of `ProviderError` | `Transient`, `RouteEnds` |
| an exception no adapter turns into a `ProviderError` | `Escape` |

### ProviderSetup

A section of `config.yaml` and the computer it is on are data; the module is
the three computations that read them, one after the other: `Load`
(`validate_config`), `Doctor` (`_check_provider_routes`) and `Build`
(`provider_from_config`), with `Resolve` for `resolve_provider_seam`. Nothing
changes between doctor and the operation.

### GitAuto

A file's content is the set of the numbered writes it holds, in `tree`
(worktree), `index` and `head`; `writer` says who made each write. `Turn` counts
what the user does: `Edit`, `Stage`, `CommitByHand`, `Stash`, at any point.

| Code | Actions |
| --- | --- |
| the commands of `cli.py`: snapshot, then writes | `Begin`, `Work`, `Fail` |
| `maybe_auto_commit`: changed before | `Unrelated`, `MayCommit`, `Refuse` |
| the operation's paths, the log | `OperationPaths`, `Compare`, `NothingNew` |
| `git add`, `git commit`; a call of git that fails | `Add`, `Commit`, `GitFails` |

### Reindex

`notes` and `dirs` are what is under `topics/`; `pages`, `backlinks`, `stats`,
`fts` and `manifest` what was generated. `cmd` is the command of each process:
the notes it has read, what it has left to read or write, its page size.
`alone` is history: the process that listed the notes last and during whose
reindex nobody else has acted.

| Code | Actions |
| --- | --- |
| `kb reindex`; commands that change notes, then reindex | `Maintain`, `ChangeByCommand` |
| `load_note_records` | `List`, `ReadNote` |
| `render_index_pages`, `_paginate` | `Group`, `WritePage` |
| `_stale_generated_index_pages` | `Unlink` |
| the other files | `WriteBacklinks`, `WriteStats`, `WriteFts`, `WriteManifest` |
| `log_retrieval`, `refresh_usage_stats` | `Search`, `LoadStats`, `TruncateStats`, `RefreshStats` |
| a kill, an exception | `Stop` |
| `kb doctor` | `PagesCurrent`, `FtsCurrent`, `DoctorIsSilent` |

### Hygiene, SearchMisses

`use` is what `usage.log` says of each note, `misses` what `search-misses.log`
says of each query; `torn` whether a log's last line was cut short. `items` are
the review items by fingerprint, with what their payload is computed from.
Appending a line and acting on it are two steps, and `Stop` may come between.

| Code | Actions |
| --- | --- |
| `log_retrieval`, `kb log-use` | `Retrieve`, `LogUse` |
| `flag_suspect_note` | `Flag` (the line), `Hear` (the item) |
| `scan_hygiene_queues` | `Scan`, `ScanStops` (killed between two items) |
| `log_search_miss`, `promote_search_misses` | `Miss`, `Promote` |
| `accept_review_item`, `reject_review_item` | `Resolve` |
| a line cut short | `CutShort` |

### Parts

Instantiates the six modules with variables of their own; `which` picks the part
that acts. Where there are theorems about a part, it is their module that is
instantiated (`Git == INSTANCE GitAutoProofs`), so that the composition can cite
them. Parts that share nothing cost one run instead of six.

## 3. Runs

States are distinct states; each run takes less than three minutes on
two cores.

**Ingest** (84 249). Three models that share nothing, side by side; `which`
picks one of them.

- Three runs, all modes, kills, pid reuse, `Serialized`. Three are enough for a
  holder, a dead one's leftovers and a contender; they are alike, so
  `MCIngest` numbers them as they start. Shows `MutualExclusion`;
  `LockNamesHolder`; `CheckpointStaysOwn` (a resuming run takes its operation id
  before it has the lock); `PlainKeepsInterrupted` (a plain run never overwrites
  an interrupted checkpoint, although it checked steps earlier); and that the
  protocol implements `ExclusiveLock`: a live owner keeps the lock until it
  gives it up.
- A pair of runs under fairness, `Serialized` dropped: both end (`PairEnds`:
  `acquire` does not spin), and a recovery run that is alone gets the lock,
  whatever was left behind (`PairEnters`). No pid reuse: when a dead run's pid
  belongs to a live program the code refuses, by design.
- Two documents under fairness, and the user's next runs: `RawIsEmptied`. Each
  file leaves `raw/` if its own processing is not stopped or failing for ever;
  the other may fail each time, which keeps the operation unfinished for ever.

**IngestFiles** (1 588 004, up to symmetry), over runs without bound, stopped,
resumed and forced, on three casts of documents (`scene` of `MCIngestRun`):

- `candidates`: one document with two candidate titles, found identical with
  notes or contradicting them. Two are enough for a candidate that is
  dealt with and one that is not.
- `copies`: two copies of a document and an unreadable file.
- `editions`: a document, a later edition that may come to its path once it is
  archived, and an unsupported file from outside `raw/`.

The last two have one title, since they are about files. Shows `NoDuplicateNotes`,
`ArchivedOnlyWhenDisposed`, `DuplicateHasOriginal`, `CompleteMeansDone`,
`KeepsSources` (the runs implement `SourceLife`), and `RunsDescend`: each step
of a run brings its end nearer. A run is a loop over files, in it one over
candidates, in it one over the notes to amend, and each has error paths that
lead back into the loop around it; the property says which of them gets shorter
with each step.

**ReviewQueue** (519 760). Seven items of every kind, two of which compete for
ids, at most two at a time in the file (`ItemLimit`; the properties relate at
most two items), two target notes, two days (a cooldown and a deferral elapse),
at most two notes from an item (`NoteLimit`). Shows `IdsDistinct`;
`AcceptedMeansApplied`; `MergedOnce`; `SettledIsQuiet`; and that the queue
implements `ReviewLife`. The model may stop, since nobody has to issue another
command: hence `CHECK_DEADLOCK FALSE`.

**NoteMutations** (142 000, up to symmetry). Topics `a`, `b` and `b/a`, so that
moves collide, exchange and go into a topic's own descendant; two notes and a
draft, which is what it takes for a proposal to have a note done and one to do;
ids up to `MaxNumber` 4, one proposal at a time (`MaxPending`: a command handles
one). `MCNoteMutations` keeps a behaviour to one kind of proposal, since the two
share only the notes; and one with compactions to the two root topics, none
described, with notes moved between them only while a proposal is open. Shows `IdsNameOneNote`,
`StaysDescribed`, `AcceptedIsApplied`, and that the commands implement
`NoteLife`. Nobody has to issue another command: `CHECK_DEADLOCK FALSE`.

**Parts** (470 200, up to symmetry). Six modules that share no variable, each
on an instance of its own: `which` picks one, and the others keep their initial
values, so the run is six small checks in one. Since an operation, a commit or
a scan may simply be the last, `CHECK_DEADLOCK FALSE`.

`TypesOK` is the type invariants of all six.

- `ProviderPolicy`: two cloud providers and a local one, three routes, two
  attempts, two topics of which one has a word of a passing failure in its
  name; every order of routes, every privacy setting. Two attempts tell a
  repeated call from a first one, three routes a fallback in the middle from the
  last. All topics are named by the operation (which of them are blocked
  varies). Shows `PrivacyKept`, `FallbackIsEarned` and `RouteByRoute`.
- `ProviderSetup`: all sections of five providers (one of them unknown), on all
  computers. Shows `DoctorPredicts`; of sections whose credential is a token in the
  environment it says less than the docs do (`DoctorToken`).
- `GitAuto`: a note, the log and a file outside, all settings; at most three
  of commands and turns of the user together, since a leftover takes one command
  or turn to make, one to be picked up, and one to interfere. Shows
  `CommitIsOwn`, `OutsideStays`, `CommitIsWhole`.
- `Reindex`: two notes, two topics, two processes that are alike, page sizes 1
  and 2 (a page beyond the first appears and disappears), one change or one
  search, any number of reindexes and kills. Shows `Repairs`, and
  `ReindexQuietsDoctor`: after a `kb reindex` of its own doctor is silent.
- `Hygiene`: two notes, up to two events (`Events`: bursts of searches, uses,
  flags, edits, cuts), a day two weeks later, two reasons to flag; scans, kills
  and decisions without bound. Shows `FlagIsHeard`, `ScanSettles`.
- `SearchMisses`: two queries of up to four misses (three promote one), one line
  cut short. Shows `MissesPromoted`.

**IngestLockRace, IngestStuck, IngestUnindexed, ReviewRace, NoteSameTitle,
Fallback, DoctorToken** each violate one property: section 6.

## 4. Assumptions

`Serialized` in `IngestLock`: no run acquires the lock while a recovery run
(`--force`, `--resume`) acquires it. The code does not enforce it; a person who
starts one recovery run at a time, and nothing else meanwhile, does. In
`ReviewQueue`: one command at a time. Without it the runs `IngestLockRace` and
`ReviewRace` show what breaks, and what still holds is proved without it
(types, `IdsDistinct`) or checked without it (`PairEnds`, `PairEnters`).

Fairness. In `IngestLock`, a run that is not killed goes on
(`WF_vars(Step(p))`): no call of the protocol waits for another process, since
a lock that is held makes `acquire` raise. And its loop over a finite list
of files ends (`SF_vars(Leave(p))`; strong, since the step that replaces the
lock between two files disables leaving for a moment). In `IngestRun`, a run
goes on (`WF_vars(RunStep)`): provider calls have timeouts, and retries
are bounded. `UserReturns` is an assumption about the person, not the code: the
pending files are ingested again and again; an operation that is left unfinished
is resumed, and as long as one is left unfinished it is also started over with
everything in `raw/` (`--force`). Without the last, a file that fails each time
would keep all others out (section 6). `RawIsEmptied` assumes of each file that
faults of its own processing, and stops, come to an end (`Undisturbed`); an
operation may end in error for ever.

`SameTitles` is FALSE in the run `NoteMutations`: no canonical note has the title
and day of an archived note. The code does not see to that; `NoteSameTitle`
shows what happens otherwise. `StaysDescribed` and the types are proved
without it. Commands that change notes run one at a time, as for `ReviewQueue`.

Fairness is assumed nowhere else. That a provider-backed operation ends is the
safety property `RouteByRoute`: a step leads to a later route, or brings the
present one nearer to its end. It assumes of each step what the code has: every
adapter has a timeout, and every wait before a repetition is finite.

`PolicyAssumption` (cloud providers are providers, one route and one attempt at
least, as `validate_config` demands) and `NoneAssumption` of `ProviderPolicy`,
`Layout` of `GitAuto`, `Sizes` of `Reindex` and `SearchMisses`, `Bounds` of
`Hygiene` and `NoneDiffers` of `ProviderSetup` are what the proofs take of the
constants: notes and topics that are finitely many, paths inside the data directory
or outside of it, page sizes that `validate_config` accepts (at least one), bounds that are
numbers, and `None` unlike any value. TLC evaluates each on the instance it checks
(`Parts` assumes them all). `NoneIsNoItem` of `HygieneProofs` says the same of
`None` and items; it ranges over all payloads, so TLC cannot evaluate it, and it is
an explicit hypothesis of the theorems that need it. In every instance `None` is a
model value, which is equal to nothing else. The symmetry of `Procs`
in `Parts` is sound: only safety is checked there, and no definition tells
processes apart.

Named bounds: `ItemLimit`, `LastDay`, `NoteLimit` of `ReviewQueue`, `MaxNumber`
and `MaxPending` of `NoteMutations`, `Commands` and `Turns` of `GitAuto`,
`Changes` and `Searches` of `Reindex`, `LastDay` and `Events` of `Hygiene`,
`Misses` and `Tears` of `SearchMisses`; `GitNext` and `IndexNext` of `MCParts`
bound their sums. The other models are finite without bounds. `LimitAssumption` (`ItemLimit <= IdLimit`)
keeps a queue below its thousandth item of a day, where `_allocate_id` stops
recognising the ids in use.

Every write is one step: `atomic.py` writes a file beside and renames it. A
`scope.txt` is copied in place, which `TearScope` cuts short. `stats.json`
is rewritten in place by a search (`TruncateStats`), and a log line may be cut
short (`CutShort`). The rendered Markdown of the review queue, also written in
place, is not part of any model.

## 5. Proofs

TLAPS checks the following for every value of the constants. Each module has an
inductive invariant (`IInv` or `Inv`), shown to hold initially and to be kept by every
step; the properties follow from it.

`IngestLockProofs`. `IInv` adds to types and properties what they rest on:
a run about to write its payload owns the empty file (`WriterHasFile`), what a
run is about to unlink is still stale (`UnlinksStale`), a written lock is of a
run that holds it or died (`OwnerKnown`), the payload that is edited is one's
own (`SwapsOwn`), what a plain run checked is still so (`PlainChecked`).
`MutualExclusion` alone is not inductive: it says nothing of a run that has
decided to unlink, and that is where the protocol breaks when `AcquireAlone` is
not assumed. Proved: `TypeCorrect` (without `Serialized`),
`MutualExclusionHolds`, `LockNamesHolderHolds`, `CheckpointStaysOwnHolds`,
`PlainKeepsInterruptedHolds`, and `LockRefines`, the refinement of
`ExclusiveLock`.

`IngestRunProofs`. `IInv == TypeOK /\ SourceInv /\ NoteInv`. `SourceInv`
relates what a run has in hand and what the ledger says to where files are: a
success in the ledger is out of `raw/`, and a file that is about to be set
aside is of known content. `NoteInv` says that the notes a run goes by are the
notes there are, unless it has just rewritten one (`SnapshotFresh`): without it,
a note for the same source could be created twice. And it says which candidates
have been disposed of at each point of a file's turn (`DueDisposed`), each by
its own title, and that the notes a candidate was found identical with have the
document's digest or path among their sources unless they are still to be
amended (`SameCited`). Proved:
types, `NoDuplicateNotes`, `ArchivedOnlyWhenDisposed`, `DuplicateHasOriginal`,
and the refinement of `SourceLife`. `CompleteMeansDone` has an invariant of its
own, `PendingInv`: as long as a run has counted no error, every file of the
operation that is still in `raw/` is queued, or in hand and not archived yet.
An operation is recorded as complete only without an error and with the queue
empty, so then nothing is left. `RunsDescend` needs no more than types: each
action is shown to lengthen the stage or the phase, or to take an element from the
queue, the candidates or the targets, in this order of precedence
(`TurnDescends`, `CandidateDescends`, `FaultDescends`).

`ReviewQueueProofs`. Types and `IdsDistinct` hold for any number of overlapping
commands, by `IdInv`: the copy a command holds stays numbered without
duplicates, with its new item in it, whatever happens to the file meanwhile.
The rest needs one command at a time, and `IInv`: the copy is the file
(`SerialInv`), how far an acceptance has come at each label (`WorkInv`),
that a note has an item's marker exactly when it has its body (`MarkInv`, which
needs distinct ids: a marker is looked for by id), and that only items there
are have been acknowledged (`AckInv`). Proved: `AcceptedMeansApplied`,
`MergedOnce`, `SettledIsQuiet`, `Remembered`, and `QueueRefines`, the
refinement of `ReviewLife`. (`Remembered` is the property that `ReviewRace`
violates: it is only the overlap of commands that breaks it.)

`NoteMutationsProofs`. `IInv` says of a running command that each note it has
left to move is in one file, where the move takes it from, and the note in hand
in two (`MoveInv`); that each note of an accepted topic proposal is where it
should be or has a move left that takes it there (`DueInv`); that a source that
is not left names the canonical note, which is there (`MarkInv`); and that a
topic some moves lead to gets a note that stays and, once its scope has been
copied, is described if the topic the notes leave is, unless that one is moved
into as well (`ScopeInv`). `IdsNameOneNote` is not inductive without them: the
file a move writes over must be known to be the same note's. Proved:
`TypeCorrect` and `StaysDescribedHolds` for all runs, and where titles differ
(`~SameTitles`) `IdsNameOneNoteHolds`, `AcceptedIsAppliedHolds` and
`KeepsNotes`, the refinement of `NoteLife`.

`GitAutoProofs`. A commit is judged by writes made long before it, so `Inv`
carries them along: a path that was not changed when the command began holds
the same old writes in worktree, index and last commit (`AsBegun`); what the
user wrote between two commands is older than the later one (`LooseIsOld`);
what a command is about to add was clean, or related (`Cleared`, `Chosen`); and
what the user wrote gets into the index by their own hand only (`StagedLoose`,
`StagedOutside`). That a commit is complete rests on `Whole`: kb writes nothing
outside of the data directory, and what the command has written is in the index
unless it is about to be staged. Proved, given `Layout`: `CommitsAreOwn`,
`OutsideIsLeft`, `CommitsAreWhole` and types.

`ReindexProofs`. `Repairs` speaks of the end of a reindex, so `Inv` says what an
undisturbed one has achieved at each label (`Progress`): what it has read is
what the notes are, the pages expected and not left to write are right, and each
file before the present one is. That the stale pages are exactly those that are
not expected needs `TopicsPlaced`: pages are only ever those of topics with a
directory, so that page 1, which is never removed, is always expected. For
`ReindexQuietsDoctor` the last write of such a reindex is considered: the pages,
and then the manifest, were cut with the size doctor goes by, so doctor
compares them with what they are. Proved, given `Sizes`: `ReindexRepairs`,
`ReindexQuiets` and types.

`HygieneProofs`. `ScanSettles` compares two scans that may be far apart, so
`Settled` says in between, as long as only reviewers act, that whatever a scan
finds has an item with the payload it would write. `Counted` says that a dispute
never counts more flags than the log has, and fewer while a flag is being dealt
with, so that its payload changes and the item is opened. Both assume that
`None` is no item (`NoneIsNoItem`). Proved: `ScansSettle`,
`FlagsAreHeard` and types.

`PartsProofs` first has the proofs of the three modules that need few. Of
`ProviderPolicy`: `IInv` adds to types and privacy that no route ahead has
been called, that the calls of the present one are its attempts, and that each
earlier one was called as often as may be, or not at all, and ended in an error
that reads like a passing one (`Progress`). Proved: `CallsAreBounded`,
`PrivacyHolds`, `FallbacksAreEarned`, and `OperationsAdvance`: that operations
end, as a safety property. Of `ProviderSetup`: that what validation, doctor and
construction have found are the functions of section and computer they were
computed by (`SectionInv`), and then, backend by backend, that the three agree,
as far as `DoctorPredicts` says they do (`DoctorIsRight`). Of `SearchMisses`: types suffice.
Then `PartsAreThemselves` shows that a behaviour of the composition is one of
each part, so that every theorem about a part is one about `PartsSpec`, of which the
run checks an instance. Each property that `Parts` defines has its theorem there;
those of `ProviderPolicy` are theorems about its own specification.

Model-checked only: the liveness properties `PairEnds`, `PairEnters` and
`RawIsEmptied`, since liveness under fairness, and ENABLED, are out of the
prover's reach. What `RawIsEmptied` rests on is proved all the same: a run gets
nearer to its end with each step (`RunsDescend`), and one that ends as complete
has left no supported file in `raw/` (`CompleteMeansDone`). That a descent among
finite sets ends is an induction over data, and that the user then starts the next
run is the fairness assumed; both are left to TLC.

## 6. Where the code departs from what is said of it

Each is the counterexample of a run; `PROJECT.json`, "findings", has the lines.

- **IngestLockRace**: two runs ingest at once. A recovery run takes a lock
  file that exists but is not yet written for stale, or unlinks a lock it did
  not inspect, since reading and unlinking are two steps.
- **IngestStuck**: a run stopped between archiving a file and noting so in the
  checkpoint leaves an operation that `--resume` refuses.
- **IngestUnindexed**: a run stopped between writing a note and reindexing is
  resumed to a complete operation, and the note is in no index.
- **ReviewRace**: of two overlapping commands, the one that writes
  `review-items.json` last drops the item the other has added.
- **NoteSameTitle**: a canonical note gets the id of an archived note with its
  title and day, since its id is compared with those of notes that are not
  archived (`compaction.py`), and then every command that loads notes fails.
- **Fallback**: words in a message make an error passing whatever its class is
  (`provider_retry.py:105`), so that a malformed answer that quotes such a word
  leads to a fallback, which the docs exclude (`docs/configuration.md:325`,
  `docs/troubleshooting.md:57`). `FallbackIsEarned` says what holds all the same.
- **DoctorToken**: of a Claude section with a token in the environment doctor does
  not look for the `claude` command, and finds nothing wrong where no adapter
  can be built (`docs/configuration.md:294`, `docs/troubleshooting.md:49`).

Also met while modelling, and not the subject of a run:

- Doctor compares the search index with the notes by id and path
  (`doctor.py:625`). `docs/troubleshooting.md:206` says that it "returns nonzero
  for errors such as [...] stale lexical index contents": a note edited since
  the last reindex is searched by its old text, and doctor says nothing.
- A later edition of a document, under the path of the earlier one, that is found
  identical with a note citing the earlier one is archived without being cited:
  a source with the path is there (`ingest.py:942`).
  `ArchivedOnlyWhenDisposed` counts it as kept, since the note has what it says.
- A file that fails each time keeps its operation unfinished: plain runs are
  refused, and `--resume` takes the files of that operation only. A file that
  arrived later is ingested with `--force`, or never.

- A retried file may ask the same classification question again: the item's
  fingerprint has the provider's wording of the reason in it (`ingest.py:1099`).
- Paths that `git status` prints in quotes are taken as printed, quotes
  included: they are neither related nor below the data directory
  (`git_auto.py:291`).
- A commit that is skipped is logged to `.kb/errors.log`, which is then a change
  the next command finds when it begins.
- The payload of a stale item has the note's age in days in its `reason`
  (`hygiene.py:242`): a rejected item is opened again by the first scan of
  another day. `ScanSettles` therefore speaks of one day.
- A flag adds a reason of its own to the payload of a low-utility item, which
  the next scan takes away again; both open a rejected item.
- `kb doctor` compares pages with the configured page sizes, which of all
  commands that reindex only `kb reindex` passes on (`cli.py:746`). `Repairs`
  therefore allows for both sizes, and `ReindexQuietsDoctor` is about `kb reindex`.
- A miss reported again after its item was resolved opens no item
  (`review.py:290`).

## 7. Not modelled

Ranking and scoring, text extraction, formatting of frontmatter, rendering,
the HTTP and CLI transports of providers: pure computation or I/O without state
to go wrong between steps. `kb init` runs once, alone. Context packets only
read; what is worth checking of them, budgets and scores, is arithmetic on
texts. Of the configuration, the settings of retrieval, review and page sizes,
each a check of one value; of doctor, the checks of layout, notes, review state,
raw errors, parsers and auto-commit settings.

Within the modelled parts: notes that a person edits or deletes by hand while a
command runs (except in `Reindex`); torn notes and queue files; in `IngestRun`,
the status of notes, explicit paths below `raw/processed`, and a file that is
overwritten while it is in `raw/`, or edited where it is outside; in
`ReviewQueue`, the first import from Markdown queues, the choice of what is
visible on a day, and whether a note that cites an item's path or digest was
amended for it or had it before (`review.py:1797`); in `NoteMutations`, which notes are similar enough to be compacted, the
generated pages of a topic, and that a rejected compaction proposal is not made
again; in `GitAuto`, a command that moves or removes a file git knows; in `Hygiene`, the
limit of twelve listed reasons, `backlinks.json` (the references of the notes stand
for it: a reindex precedes every scan), `review.hygiene_fenced` (no scan is made then), source
quality (it changes a threshold) and other writers of the queue during a scan,
which `ReviewQueue` is about; in `Reindex`, the graph, and the top-level pages'
own page size (here it is the topics'); in `ProviderSetup`, a
computer that changes between doctor and the operation; in `SearchMisses`, which
search is a miss (a score below a threshold).

## 8. Plan

Done: all modules of section 2, with their proofs. What would add most next:

1. Composition of ingest and the review queue on the items' file: what an
   accept that overlaps an ingest run can drop, and what the next run repairs.
2. Algorithms as functions, checked against reference definitions: item ids
   at the limit, clusters of similar notes, pages and budgets of context
   packets.
