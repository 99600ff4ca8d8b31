# Verification of Alexandria Hermes

TLA+ models of the parts of the backend whose correctness rests on interleaving,
failure and order, with TLC configurations that check them on small instances
and TLAPS proofs of their main properties for every instance. Paths are relative
to the repository's `backend/app/` unless they start with another directory.

1. [The system](#1-the-system)
2. [Modules](#2-modules)
3. [Runs](#3-runs)
4. [Proofs](#4-proofs)
5. [Findings](#5-findings)
6. [Known differences](#6-known-differences)
7. [Not modelled](#7-not-modelled)

## 1. The system

One deployment is an API process (uvicorn, one event loop), one maintenance worker
process, PostgreSQL, Redis and, when enabled, Neo4j (`docker-compose.yml`).
Markdown files in an Obsidian vault are the canonical data; a person edits them at
any time. PostgreSQL holds the index of them, embeddings and application records.
Neo4j holds a projection that can be rebuilt. Redis holds the queue, rate counters
and caches.

| Component | State | Operations | Module |
|---|---|---|---|
| Redis maintenance queue (`operations/infrastructure/redis_maintenance_*`) | stream, consumer group, status hashes, dead letters, dedup and rate keys | `enqueue`, `receive`, `mark_running`, `mark_succeeded`, `mark_failed` | `MaintenanceQueue` |
| Maintenance worker (`operations/workers`) | one delivery per consumer loop | `run_worker`, `_consumer_loop`, `_process_delivery` | `MaintenanceQueue` |
| Index maintenance coordinator (`shared/application/index_maintenance_coordinator.py`) | leases, exclusive owner, counters, waiters | `operation`, `write_operation` | `IndexCoordinator` |
| PostgreSQL advisory lock (`shared/infrastructure/postgres_advisory_lock.py`) | one session lock per lease | `operation` | `IndexCoordinator` |
| Graph projection rebuild (`obsidian/application/graph`, `obsidian/infrastructure/graph`) | metadata node, rows per run | `rebuild`, `status` | `GraphProjection`, `AtomicProjection` |
| Request session commit (`platform/middleware/database_session.py`) | one session per request | commit or rollback after the handler | in every module with rows |
| Note writes and the vault reindex (`obsidian/application/service`, `obsidian/application/notes`) | Markdown files, index rows | save, explicit write, lifecycle patch, reindex | `VaultIndex`, `ContextManifest` |
| Supersession of Contexts (`obsidian/application/notes/obsidian_context_lifecycle.py`) | forward link, backlink, rows | supersede, archive, reconciliation by a reindex | `ContextLinks` |
| Embedding reindex and recovery (`memory/application`) | chunk rows and vectors | batch, recover, rebuild, carry over | `EmbeddingReindex` |
| Vault move (`obsidian_vault_move_service.py`) | files, jobs, reports | plan, apply | `VaultMove` |
| Report bundles (`obsidian_report_bundle_service.py`) | source notes, owner, checkpoint | upsert, replay, verify | `ReportBundle` |
| Memory reconciliation (`memory/application/reconciliation`) | plans, conflicts, notes, overlays | apply | `ReconciliationApply` |
| Memory Compacts (`memory/infrastructure/repositories/memory_compact*`) | one note per compact | create, promote, archive, delete | `CompactLifecycle` |
| Recovery runs (`operations/application/recovery_*`) | manifests, lock file | start, retry, inspect | `RecoveryRun` |
| Provider OAuth (`connections/application/librarians`) | secret rows | device flow, poll, refresh, patch, delete | `ProviderOAuth` |
| Librarian workflow (`obsidian/application/librarian`) | workflow row | start, resume, cancel | `LibrarianWorkflow` |

The queue hands work to the worker, which runs it under the coordinator. API
requests that write the index take the coordinator's lane first: a save shares it,
everything else excludes. The lane is released when the handler's block ends. The
session that holds the rows is committed later, by the middleware. Much of what
can go wrong in the vault lives between these two moments, and between the write
of a file, which is visible at once, and the commit of its row, which may never
come.

Hard behaviours, each with its line and the properties that watch it, are listed
in `PROJECT.json` under `hazards`.

## 2. Modules

A definition whose comment starts with "Mutant of" is a plausible bug in that
definition: the property named with it in `PROJECT.json` fails when the mutant
replaces it.

### Queue, lane, projection

`MaintenanceQueue` models submission, the consumer group and the worker loops.
One action is one Redis command: a process may die and Redis may expire a key
between any two. The enqueue script is one action, since Redis runs it alone. A
job is named by its stream position, which stands for its uuid and its entry id.

| State | Code |
|---|---|
| `next`, `first`, `delivered` | the stream: next id, oldest id left by `MAXLEN ~`, the group's last-delivered id |
| `pending`, `idle`, `acked` | the pending entries list, its entries past `retry_idle_seconds`, acknowledged entries |
| `hash`, `dead` | status hashes and dead-letter entries |
| `dedup`, `rate` | dedup key of each request, window count of each caller |
| `worker` | each loop: next command, job, attempt number returned by `HINCRBY` |
| `shared`, `executed`, `expired`, `faults` | history |

`AutoClaim`, `ReadGroup`, `LoadStatus` are `receive`; `CountAttempt`,
`MarkRunning`, `TouchRunning` are `mark_running`; `StartJob`, `JobSucceeds`,
`JobFails` are `_execute_job`; `RecordSuccess`, `TouchSuccess`, `Ack` are
`mark_succeeded`; `RecordFailure`, `TouchFailure`, `DeadLetter`, `Ack` are
`mark_failed`. `WorkerDies` is a kill, and also any Redis error outside
`receive`: the task group then cancels every loop and the process exits.
`ReceiveFails` is the error that `_consumer_loop` catches. `queue_status` only
reads and is left out. `Age` lets an entry become idle at any time, also in the
hands of its loop, since nothing renews the idle time of a running job: with two
loops one may be handed what the other is still at. `shared` remembers such jobs.
What they cost is bounded (`WorkIsBounded`); what their status says is not
promised.

`IndexCoordinator` models the coordinator and its PostgreSQL lock together, for
several tasks in several processes. One action is what a task does between two
suspension points: the condition's own lock is never held across one. Queue order
matters for `asyncio.Condition` (a cancelled `wait` notifies the next waiter, as
Python 3.13 does, the version the project requires), so `queue` is a sequence.
`zombie` holds the locks of discarded or crashed sessions until PostgreSQL reaps
them. `write_operation` is the shared mode that the PostgreSQL deployment turns
on; without concurrent writes it equals a queued exclusive operation, which is
also covered.

`GraphProjection` models a rebuild as its chain of Neo4j transactions. Each one
takes effect (or not) and only then reports (or fails to): `Commits`, `Succeeds`,
`Fails`. Rows are abstracted to the batches that carry them. `Vanish` is a
cancelled request, which `except Exception` does not catch, or a dead process.
`AtomicProjection` is what `complete_rebuild` promises: readers see nothing or a
whole run, and one step takes them from one whole run to the next.
`GraphProjection` implements it by the mapping in `Abstract`.

### The vault and its index

`VaultIndex`: `file` is what is on disk, `row` what is committed, `tx` what each
session has written and not committed, `req` each request's place and locals. The
text of a note is the set of updates that went into it, so a lost update is a
missing element. A save enters at `Check`, an explicit write at `Resolve`; both go
on through `Match`, `WriteFile`, `LookUp`, `Upsert` and `Commit`. A patch
(`ReadForArchive`, `Patch`) takes no lane. A reindex (`Scan`, `RejectNote`, the
same `LookUp` and `Upsert`, `Settle`) runs alone or inside a request that did not
find its target. It passes over files without Alexandria frontmatter (`Plain`,
`Skipped`) but has seen their paths, so that a file that has lost its frontmatter
keeps its old row. `Fail`, `Rollback`, `Die`, `UserEdits` and `Renames` are the
environment: a person edits, copies or deletes a note or takes its frontmatter
away, and a person or a move renames one, onto free and onto taken paths, without
a lane. One thing is left out: a note saved under the id of an error row is not
brought to another path (`Portable`).
Rows written by another session are locked until it ends (`Unlocked`,
`IdUnlocked`); a lookup sees committed rows and the session's own, and an insert or
update that finds the world changed since its lookup fails.

The history `suspect` names the paths whose row may differ from their file and
why: a failed or dead writer, a committed error row, an edit by a person, two
writers that crossed, or two files that declare one id. A committed reindex clears
it, except for a file without frontmatter, which stays suspect until it has one
again or is gone. `UnsuspectedRowsMirrorFiles` says that there is no other reason.
An edit by a person also makes suspect the paths that share the edited file's id: it
may change which of them the index accepts. The history `overtaken` names creations
whose path somebody without a lane touched between their look at the disk and their
write; such a creation may replace what was brought there, and `CreateNeverOverwrites`
says that no other does.

`EmbeddingReindex`: chunk rows with an id, a text and the text their vector was
computed for. A replacement of a note's chunks makes new ids and carries vectors
over by the hash of the text. Batches are selected, embedded outside of any
transaction and written to the ids that still exist. `VaultMove`: batches of
renames checked before the first one is carried out, with a person and another
batch working in the same folders; what is left of a batch is the set of its places.
`CompactLifecycle`: promotion as the sequence of its file writes.

`MCVaultIndex` instantiates the four. They keep no common state in these models,
so the variable `part` picks the one that a behaviour drives.

### Services

`ContextManifest` takes one scan of the vault and says which Contexts the reindex
accepts: the code spreads rejection along the links until nothing changes, and the
model takes the largest set of valid Contexts that holds its own targets.
`ContextLinks` gives forward links, backlinks and rows to supersede, archive, save
and reindex, file write by file write. The history `resaved` names the Contexts
whose whole note a save has replaced, which may drop a link or bring one back.

`ReconciliationApply` applies plans whose files and rows cannot commit together and
retries them. A request goes through the actions of its plan (`StepsOf`); a save is
several steps of its own: the candidate's file (`SaveContext`), its row
(`IndexContext`), the file of the Context it supersedes (`MarkTarget`) and the row of
that (`IndexTarget`). Files are written without any lock, and only the rows wait for
other sessions, so that two overlapping plans may both name themselves in the
superseded file and both end APPLIED; the last write stays. A failing row or mark
leaves an error row (`MarkFails`), over which later saves are refused until a read
has started a reindex (`Reindex`). A note with the same text is taken instead of a
new one (`Twins`): the links section is part of the text, so `TextOf` tells plans
apart whose relation differs. Conflicts are kept by candidate and claim
(`ConflictRow`). Reviewers mark a conflict from an earlier read (`ReadConflict`,
`MarkReviewing`) or settle it. Every plan relates to one existing Context; which of
several claims to it a reindex accepts is left open (`Replacements`). The two reads
that begin a supersession are one step here and two in `ContextLinks`.

`RecoveryRun` keeps manifests and the lock file across deaths. `ProviderOAuth` keeps
the secret rows of a provider, session by session, and what the provider still
honours. `ReportBundle` writes sources and their owner page, reindexes, verifies the
links and saves the checkpoint. Its reindex takes rows from files, puts an error row
in the place of a file that it cannot accept, and passes over a file without
frontmatter, whose old row, with its link, stays (`Refreshed`); the links are
verified in the rows. A read of a note whose row is missing reindexes first
(`Lookups`). `LibrarianWorkflow` carries out approved actions and commits the row
that says so.

`MCServices` instantiates them; `focus` picks the service of a behaviour.
`MCMaintenanceQueue`, `MCIndexCoordinator` and `MCGraphProjection` do the same for the
first three components. The eight `...Proofs` modules hold the theorems.

## 3. Runs

| Run | Instance | Shows |
|---|---|---|
| `queue_single` | 1 loop, 2 jobs, 2 faults, 2 attempts, stream length 1, keys expire | the deployed worker (`worker_concurrency` 1) loses no job, reports no false status, and works at most the budget plus the faults |
| `queue_pool` | 2 loops as slow as they like, 2 jobs, 2 attempts | loops share deliveries, and the budget holds for each of them; the dead letter of a job that was not shared was never completed, and its outcome is final |
| `queue_live` | 1 loop, 2 jobs, 2 faults, 2 attempts | every accepted job is acknowledged in the end |
| `lanes_safe` | 3 API tasks of any kind and a fail-fast task in a second process, re-entry to depth 2 | exclusion, exact counters, leases that hold, no lost wakeup |
| `lanes_live` | 3 tasks of one process, sessions may drop | writers cannot starve maintenance |
| `graph_atomic` | 2 requests, 3 runs, 2 batches | the refinement, and what each report means |
| `graph_lost_reply` | the same, replies may be lost | finding 1 |
| `vault` | 3 requests, 2 paths, 1 fault and 1 edit or rename; 2 notes with 1 chunk each, batches of 1, at most 3 of them; 2 batches of 2 moves over 3 paths; 4 compacts of 2 projects (1.8 M states) | rows mirror files unless something visible explains the difference, a creation replaces only what was brought to its path behind its back, vectors fit, "drained" is true, no moved note is lost, one current compact |
| `services` | 3 requests per service (2 for bundles), 1 fault each (2 for recovery runs); 3 Contexts, 5 plans of 2 candidates, 2 run keys, 1 provider, 2 owner pages, 2 workflows (1.0 M states) | what records say is what files and rows hold |
| `vault_lost_update` | 2 careful explicit writers | finding 2 |
| `move_overwrites` | one batch, one destination spelt in two ways | finding 3 |
| `reindex_forgets` | a save and a reindex that recovers embeddings | finding 4 |

The properties of each run are listed in `PROJECT.json`; each is stated in words at
its definition.

Bounds and why they suffice. Two jobs are enough for one to be trimmed, claimed
or overtaken because of the other; two loops give every pairwise overlap of
deliveries; two faults with two attempts let a death fall between any two
commands of a first and of a last attempt. Three tasks of one process are needed
for a holder, a waiter and a newcomer; the fourth in another process contends for
the database lock only. Two batches are the least for which "part of a run"
exists; three runs let one be superseded while another is staged.

In the reconciliation, two plans replace the existing Context with one text, so that
one can take the other's note; two contradict one claim with the first candidate, so
that each can reopen the other's conflict; one adds evidence to what the others mark.

In the vault, three requests are a holder of the lane, a request that waits and
one without a lane; two paths are enough for an id to move or to be declared
twice; one edit and one fault fall at every step. Two notes and batches of one
give an exactly full last batch. Three Contexts make chains and forks of supersession.
Three compacts of one project let a stopped promotion leave one superseded, one
current and one to promote. Two run keys and a retry of each give a parent that
was itself a retry. `Max...` constants only bound the state space. The constraint `InOrder` of
`MCServices` bounds it once more: requests that are alike (applications of plans, report
bundles, operators of recovery runs) start in the order of their names, which loses no
behaviour but a renaming of them, and the third application begins when the two before it,
which may overlap, are over, so that it meets whatever they left, as a retry does.

Constants that describe assumptions rather than sizes: `StatusMayExpire`, `SessionsMayDrop`,
`RepliesMayBeLost`, `ExclusiveLane`, `ConcurrentWrites`, `RecoverAfterReindex`. The
status hash is assumed to outlive the dedup key, as the shipped defaults (24 h and
60 s) do.

Fairness. `queue_live`: the event loop runs each loop's next command and time
passes (`WF` of `Step(w)` and `Age(j)`); nothing makes attempts succeed, requests
arrive or faults happen. `lanes_live`: bodies under a lease end, ready tasks run,
PostgreSQL reaps dead sessions. `reindex_forgets` checks an action property, so no
fairness is needed for its counterexample. Deadlock is checked in every run; a
module whose requests may all be over lets them rest.

## 4. Proofs

The proofs use the named assumptions of the modules only and hold for any number
of requests, paths, runs, tasks and faults.

`MaintenanceQueueProofs`, for any finite number of loops (`WorkersAssumption`; the
code starts `worker_concurrency` of them), however slow:

* `TypeCorrect`: `Spec => []TypeOK`. TypeOK alone is not inductive: that a loop
  writes the hash of a job needs `Holding` (a loop past `receive` holds a
  submitted job, the others none), and that needs `GroupSubmitted` (the group
  only knows submitted entries). `Typing` is their conjunction.
* `AckedJobsAreSettled`: the inductive invariant `SettledInv` adds `HashKept`
  (identifying fields are lost by expiry only), `SuccessEarned` (who records a
  success has completed the job) and `AckEarned` (who is about to acknowledge
  holds a settled job). `HashKept` is what makes the acknowledgement of a delivery
  with an absent status hash harmless.
* `PromisedWorkIsOwed` (`UnsettledIsOwed`), `FinalStatusesAreTrue`
  (`TerminalStatusIsTrue`), `DeadJobsNeverCompleted` (`DeadMeansNeverCompleted`) and
  `OutcomesAreFinal` (`TerminalStatusIsFinal`), each of the jobs that no two loops were
  at together. Their invariant is `Lone`: a delivered entry is pending, acknowledged or
  trimmed (`Delivered`), of a job that was not shared one loop at most holds the delivery
  (`OneHolder`), and `Jobs` says at each place of that loop what the hash tells (`Tells`),
  how attempts and dead letters compare with the faults so far (`Works`), and how the
  job ends when nothing faulted (`Ends`). A step of a loop goes on with its job
  (`GoesOn`), lets it go (`LetsGo`) or picks one up (`PicksUp`); the other steps happen
  to a job between loops (`Between`).
* `WorkStaysBounded`: `WorkIsBounded`. `Lone` gives it for jobs that were not shared.
  For the others the invariant `Ledgers` counts loops. While the entry is pending, a loop
  has `Spent` its share once it has drawn the budget's last attempt number or a later one,
  and `Reported` once it is about to acknowledge; when the entry is gone, every loop has,
  unless it is still on the way there. Attempts beyond the budget are no more than the
  loops that have spent, dead letters no more than those that have reported, plus the
  number of loops for each fault, which may make a loop start over. Nobody is handed an
  entry that is gone. The sets of loops are finite; `CountOf` is what the proof needs of
  `FiniteSetTheorems`.

`GraphProjectionProofs`, with or without the maintenance lane and provided that
replies are honest (`~RepliesMayBeLost`):

* `TypeCorrect`, `ActiveStaysWhole`, `NothingLeftBehind`, `FailureReportsAreTrue`:
  `TypeOK`, `ActiveIsWhole`, `StagingAccounted` and `FailedMeansUnchanged`.
* `Refinement`: `Spec => AtomicSpec`. Every step is a stutter of what readers are
  shown, but the commit of `CompleteRebuild`, which is a `Publish`.
* `ListsAreNeverTorn`: `ListsWholeOrEmpty`. A status read takes its lists in three
  queries; `OnceActive` says that nobody writes to a run that is or was active
  except to delete all of it, so that each list is of a whole run or empty.
* `CompletedRunsAreShown`: `CompletedIsShown`, provided also that rebuilds take the
  maintenance lane (`ExclusiveLane`): the only request at work is on the newest run
  (`InLane`).

The inductive invariant `Inv` adds `Ownership` (a request at work owns a started
run that no other request owns), `Staged` (what the store holds of a run at each
point of its rebuild, and that the run is active only once its activation has
committed), `Unstarted`, `ReportedIsOver` and `Viewing`. `WorkStep` says once what
an action of a request at work must do; each action's lemma shows that it does.
`graph_lost_reply` shows that the assumption on replies cannot be dropped.

`IndexCoordinatorProofs`, for any kinds of lease and any depth of re-entry:

* `TypeCorrect`, `CountersStayExact`, `LeasesAlwaysHold`, `NoWakeupIsLost`:
  `TypeOK`, `CountersExact`, `LeasesHold` and `NoLostWakeup`, also when sessions
  are lost, unlocks fail, statements are discarded and processes crash.
* `MaintenanceRunsAlone`: `Exclusion`, provided that no session dies under its task
  (`~SessionsMayDrop`). With lost sessions it fails, since the task notices only
  when it unlocks.

The inductive invariant is `Inv == LaneInv /\ LockInv`. `LaneInv` adds to the
properties that a task has a lease between its grant and its release (`Placed`),
that an owner is local, that a queue lists the waiting tasks of its process once
each (`QueueExact`), and `FreeLaneIsNotified`: on a free lane all maintenance
waiters have been notified, and somebody has if anybody waits. The last one says
more than `NoLostWakeup` because of a writer that wakes on a free lane and queues
behind waiting maintenance: maintenance must already be on its way. `LockInv` adds
`Compatible` (locks of live sessions) and `HeldInside` (a running body has its
lock unless its session was dropped).

`VaultIndexProofs`, for any paths, ids, requests, faults and edits:

* `CreationsNeverOverwrite`: the action property `CreateNeverOverwrites`. `VaultInv`
  says that a request inside a write, or inside a reindex that prepares one, still
  has the lane of its kind (`Sound`), that an exclusive lane stands alone
  (`OneExclusive`), and that an admitted creation that nobody without a lane has
  overtaken still finds no file. Only `WriteFile`, `Patch`, `UserEdits` and `Renames`
  touch a file. The first has a lane itself, so no creation is admitted beside it;
  `Patch` touches only files that exist; the other two put the creations of the paths
  they touch into `overtaken`. A death gives back every lane and ends every request.
* `RowsMirrorFiles`: `UnsuspectedRowsMirrorFiles`, and `VaultTypes`: `TypeOK`. The
  property speaks of moments without open requests; its invariant `MirrorInv` has to
  say what holds between. A committed row that no session replaces mirrors its file,
  or its path is suspect, or some request owes it: it will still write the row or mark
  the path (`CommittedExplained`, `Owes`). A row inside a session does so once that
  session commits (`PendingExplained`). A session writes rows from copies of files, so
  a copy is that of its file unless the path is suspect, and two requests have no
  copies of one path unless it is (`CopiesHold`); a row is in one session
  (`OneHolder`), as a second writer of it waits; a file without frontmatter is suspect;
  nobody else has the id of a note just written (`IdsApart`); and ids minted by a request, known from a seed or made for an
  error row stay apart (`OwnIds`). A row is also explained by the place of its
  request: which copies it holds (`Copied`), what it has behind it (`Pending`), and
  which requests hold neither (`Shaped`). Checked by TLC first on three instances.

`VaultPartsProofs`:

* `VectorsAlwaysFit`: `VectorsFitTheirText`. The invariant adds to the types that every
  version of a chunk id has one text (`OneText`), that ids of requests still to replace
  are fresh (`IdsAreFresh`), that vectors fit in sessions too (`AllFit`) and that what
  is about to be updated was selected with the text it was embedded from
  (`UpdatesWerePicked`).
* `RecoveriesDrain`: `DrainedMeansNoneIsLeft`, for batches of any size above zero
  (`app_config.py:157`) and finitely many notes. Its invariant `DrainInv` says of every
  recovery that its session is empty and, while nobody else has committed rows, that its
  batch is as it was selected and, unless full, has all chunks without a vector
  (`Covers`).
* `NoNoteIsLost`: `MovesLoseNothing`, provided that no path is spelt in two ways
  (`OneSpellingEach`; finding 3 is what happens otherwise). The invariant `MoveInv`
  says that targets of renames to come are free, or hold what another one has put
  there (`Targets`), and what request, report and job tell (`Tells`). `MoveTypes`
  (`MoveTypeOK`) needs no such assumption.
* `OneCompactIsCurrent`: `OneCurrentCompact`, with the invariant `Surveyed`: what a
  promotion has still to supersede contains every other current compact of its
  project, unless a person made one.
* `PartsBehave`: `IndexSpec` implies the specification of each of the four parts, so
  that every theorem about a part alone holds beside the others; `IndexTypes`:
  `IndexSpec => []IndexTypeOK`.

`MemoryProofs`:

* `AcceptedAreChains`: `ChainsAreAccepted`, for any links among any Contexts
  (`AcceptedIsLargest`, `OneReplacement`).
* `LinksTypes`, `LoneReindexReconciles` (`ReindexReconciles`) and
  `BacklinksStayClaimed` (`BacklinksAreClaimed`): every step that writes a backlink
  follows one that has seen or written the forward link, in a file that only a save
  can take it from. The invariant `LinksInv` says that a row is of a
  file that exists (`RowsFit`), what a request knows at each place (`InCall`,
  `InReindex`) and, of a reindex that nobody has disturbed, that its scan has the
  links of the files as they are, that it is past a link only if that link has its
  backlink, and that its rows mirror the accepted files (`Repairs`). Its steps write
  backlinks and never change a supersedes link, hence never what is accepted.

`ReconciliationProofs`:

* `ApplyTypes` (`ApplyTypeOK`), `AppliedPlansAreDone` (`AppliedIsDone`) and
  `SettledStays` (`SettledForGood`). `ApplyInv` has two layers. Whatever overlaps: rows
  and locals are of their kinds (`Shapes`), a note with a row has a file (`Filed`), a
  request is on its script (`OnScript`) with rows of its own plan (`OwnRows`), the steps
  that it is past have left what they promise (`Does`), and an APPLIED plan keeps that
  (`PlanLeft`). While requests come one after the other (`InTurn`): the evidence read is
  the evidence there is (`Evident`), the superseded Context's file, its row and the
  replacement's row agree with what the request has done so far (`MarkFits`), and so
  does the overlay (`Stated`). Steps that touch files or index rows are `NoteWork`, the
  others `Work`; each is shown once to keep the invariant. `WellScripted` are the facts
  about the seven lists of steps.

`LibrarianProofs`:

* `RecoveriesAreSerial` (`OneRecoveryAtATime`) and `CompletedIsTrue`
  (`CompletedPlansAreDone`), both for behaviours in which nobody inspects a run that
  still executes (history `interrupted`). The invariant `Serial`: one request executes
  at most (`RunsAlone`), it owns the lock (`HoldsLock`), an inspector looks at a dead
  run (`InspectsTheDead`), what is left and what is done make up the plan
  (`WorkIsPlanned`), and a completed manifest accounts for its plan
  (`CompletedAreWhole`), through any number of retries.
* `RowsTellTheWork`: `WorkflowsTellTheirWork`, given that `NoThread` is no workflow. The
  invariant `WorkflowInv` adds to the shape of the state (`WorkflowShapes`) that nothing
  is listed, in a row or by a request, that was not carried out (`ListsAreTrue`); that a
  workflow whose requests never met nor failed midway has one request at most, which
  lists all that was carried out and, unless it only rolls back, will be the first to
  complete it (`WorksAlone`); and what holds of it between requests (`Settled`). Every
  action either goes on with a workflow (`Advances`) or leaves a row behind
  (`LeavesWork`); each is shown once to keep the invariant. `WorkflowTypes` adds that a
  second session waits for the one that has written the workflow's row.
* `TokensFit` (`StoredTokensFit`) and `OauthTypes`. `OauthInv` needs no row locks: a
  session that has new tokens sets the access token and its expiry, or never commits
  (`FlowFits`); a commit that leaves two rows of one key is excused; a refresh token that
  the provider has forgotten is about to be replaced by the session that replaced it
  (`Rotating`, `RefreshFits`); and nobody knows what a request makes before its commit
  (`OwnSecrets`).
* `CompletedBundles` (`CompletedBundlesHold`) and `BundleTypes`. `BundleInv`: one request
  is in the lane (`OneInLane`), and at each place of its work the files that nobody has
  edited since are as it read them, or carry their link (`Works`); an owner whose frontmatter
  was taken away with the link counts as edited from then on, since the reindex does not
  see it (`Overlooked`).
* `ServicesBehave`: `ServicesSpec` implies the specification of each of the seven
  services; `ServicesTypes`: `ServicesSpec => []ServicesTypeOK`.

Assumptions. Every theorem uses the named `ASSUME`s of its module and no others: sizes
are naturals, the special values (`NoFile`, `NoRow`, `Same`, `NoContext`, ...) are none
of the values they stand beside, and orders list each path, Context or owner (Contexts
once). TLC evaluates them in every run. What a theorem assumes besides stands in its
statement: `~RepliesMayBeLost`, `ExclusiveLane`, `~SessionsMayDrop`,
`OneSpellingEach`.

Model-checked only: the liveness properties `EveryJobSettles` and `MaintenanceGetsLane`,
since fairness and `ENABLED` are out of the prover's reach. Every other property that a
passing run checks has a theorem. Not proved either is that the code's loops compute
what operators such as `Accepted` define: that would need induction over data.

## 5. Findings

1. `graph_lost_reply`: aborting after an activation whose reply was lost empties
   the active projection.
2. `vault_lost_update`: `expected_content_hash` is compared with the committed
   row, and the row of a finished update is committed after the lane was released.
   A second update that enters in between passes the comparison and erases the
   first.
3. `move_overwrites`: targets of a batch are compared as spelt and resolved later,
   so `D/n.md` and `D//n.md` are two targets and one file.
4. `reindex_forgets`: with
   `SERVICE_RAG_EMBEDDING_RECOVERY_ON_VAULT_REINDEX=true` (the default is false,
   `platform/config/app_config.py:156`), the recovery inside a vault reindex begins
   each batch by rolling back the session that holds the reindex's rows.

## 6. Known differences

Behaviours met while modelling that contradict a wish rather than a statement, or
that are accepted. The models contain them, and the properties are stated so that
they hold beside them.

* Queue: an attempt longer than `retry_idle_seconds` is handed to a second loop, when
  `worker_concurrency` is above 1. Then `mark_failed` of one may overwrite the status
  that the other has acknowledged, and a job may both complete and be dead-lettered. `max_attempts` is compared only when an attempt fails, so
  attempts that kill the worker are repeated.
* Lane: the preference for exclusive waiters is local to a process. A newcomer does
  not queue behind tasks that were notified and have not run yet.
* Projection: a status read is three queries, not a snapshot.
* Vault: a file that loses its frontmatter keeps its index row for good, through every
  reindex. An explicit creation replaces a note that a person or a move brings to its
  path after its check. Shared saves of one path may commit their rows in the other order than
  their files. The error row that a failing write records is rolled back by the
  middleware. Overlapping saves of one id can leave two files with one id. The id
  of an error row can become a note's id at a later save.
* Contexts: a reindex that overlaps a supersede writes stale rows, so that a later
  save may replace the backlink. Archiving a superseded Context is reverted by the
  next reindex. Superseding A by B and B by A at once makes a cycle. Two requests that
  read the same unmarked row each write their replacement into the superseded file,
  which names the last of them.
* Reconciliation: two overlapping supersessions may both be APPLIED while the file names
  one. Another plan of the same candidate rewrites the candidate's note, drops its
  forward link, and reopens the conflict of the same claim. A reviewer who marks a
  conflict from an earlier read reopens a settled one. Overlapping applies can reopen a resolved conflict, replace
  APPLIED by FAILED, or lose merged evidence. FAILED may be recorded although the
  Markdown was written, and a create whose index write failed leaves an error row
  that refuses retries until a reindex.
* Recovery runs: a request without a key gets the key of its trigger and actor, so
  one finished manifest answers every later default start. Reading a run that
  still executes releases its lock (`recovery_run_service.py:263`), after which a
  second run may execute beside it; nothing is promised or explored from there on.
  A death between manifest and lock release leaves a lock that no inspection
  releases. A retry of a completed run skips every step.
* OAuth: nothing keeps the rows of one key unique, so overlapping first stores leave
  two. A patch of the access token keeps the old expiry. A pending device flow hides
  valid tokens; a late poll deletes a newer flow's device rows. The new refresh token
  is lost if the request dies after the exchange.
* Report bundles: a row may hide an edited source, so that a bundle is COMPLETED
  although the file has lost the report; and the row of an owner whose frontmatter was
  removed keeps its link, so that the link is verified though the file has none. A retry with `expected_content_hash` of a
  bundle done in part always ends FAILED_NO_MUTATION and replaces the checkpoint. A
  note whose index write failed counts as not written.
* Workflow: two overlapping resumes may both read WAITING and both carry out the
  actions. Cancelling does not look at the status.
* Moves: a reindex conflict ends a batch without a report, and a FAILED job may
  have moved files. The status of jobs is lost at a restart.
* Embeddings: vectors carry over by the hash of the text although the embedded
  document also has the title and heading.
* Compacts: a stopped promotion may leave a project without a current compact,
  never with two. Duplicates are found whatever their status.

## 7. Not modelled

* Memory reconciliation analysis, recall and ranking: deterministic
  classification and floating-point scoring over reads, without state.
* Redis fixed-window limiter: one atomic script; the queue's copy of it is in
  `MaintenanceQueue`.
* Local OAuth server of the MCP gateway: what could go wrong in it is a matter of
  security, which is outside the scope of this project.
* Skill acquisition jobs, artifacts and delegation: single-row writes that
  overwrite unconditionally and promise nothing about overlap.
* Metadata and index repair, diagnostics, writeback: rewrites of text by rules, note
  by note, through the write path of `VaultIndex`.
* Dependency lifecycle and readiness: each transition happens under one lock
  without a pause in it.
* Gateways, routers, schemas, command line, migrations, scripts and the Obsidian
  plugin translate or print and keep no state of their own.

Left out of the modelled components: the content of notes beyond the updates in it,
frontmatter other than ids and links, titles and folders, logging, wording, dates;
duplicate ids and contents in `ContextManifest`; provider fields other than OAuth
credentials and the deletion of a provider; the scoring by which a compact's review
refuses a promotion. Parse errors that a reindex records while it walks the vault
pause the walk in the code; in the model the walk is one snapshot. The four
`PARTIAL_*` states of a bundle are one, and COMPLETED_WITH_WARNINGS counts as COMPLETED.
