# TLA+ verification of the Quality Gate backend

This directory holds TLA+ models of the backend under `src/backend/app`, the TLC
configurations that check them, and proofs checked by TLAPS. It says what each
model stands for, what has been shown and under which assumptions.

Quality Gate analyses GitHub pull requests. A webhook or a button creates an
*analysis run* for a head commit and a *job* for it in a PostgreSQL table; worker
processes claim jobs and execute three gates (coverage, security, technical
debt), decide pass or fail, and publish the result.

## 1. Inventory

| Part | Code | State it keeps | Operations | What makes it correct |
|---|---|---|---|---|
| Job queue | `services/analysis_queue.py`, `models/analysis_job.py` | one `analysis_jobs` row per run: status, attempts, lock time | `enqueue`, `claim_next`, `complete`, `fail`, `requeue_stale` | one claimant per running job; bounded attempts; an ended job stays ended until it is enqueued again; nothing waits for ever |
| Worker | `worker.py` | the job it holds | claim, execute, complete or fail, poll | a job is reported as its execution went; a job outlives its worker |
| Gate execution | `services/analysis_execution_service.py` | the `analysis_runs` row and its findings; `gate_results` in memory | guard, reset, three gates, deadline, verdict, error path | one executor per run; a decision follows from the stored evidence of the same attempt; every run reaches an outcome |
| Run creation | `services/analysis_service.py`, `models/analysis_run.py` | the rows, unique by repository, PR number and head sha | `create_or_reuse_*` | created once, never overwritten, whoever races |
| Webhook intake | `services/github_webhook_service.py` | none | filter, look up, create, enqueue; installation events | a run that is accepted is executed |
| Routes | `api/routes_analysis.py`, `api/routes_repositories.py` | none | analyze, execute, cached reads, publish | as above; a read is not older than its cache lifetime allows |
| GitHub publication | `services/github_publication_service.py`, `report_service.py` | a comment and a commit status on GitHub | find or create the comment, post the status | a retry finds its comment; what is shown is the run's outcome, and no pending status stays |
| Coverage gate | `gates/coverage_gate.py`, `coverage_parsers/*` | none | run the commands, parse the report, match files, decide | the verdict is that of what the report says |
| Technical debt gate | `gates/technical_debt_gate.py` | none | walk the patches, analyse the files | what patches add is found at its line, long functions are found, nothing is invented |
| Security gate | `gates/security_gate.py` | none | run four scanners, normalise, decide | pass only on the output of every scanner; counts and verdict agree |
| Evidence workspace, runner | `analysis_evidence_workspace.py`, `runner_service.py` | a directory per run id, the cache of prepared revisions, `repo_path` | prepare a revision, run commands, remove | base and head trees are not mixed up, nor those of two executions |
| AI review | `services/agent/*`, `evidence_redaction_service.py` | `ai_review_json`, the score, the report | load, draft, correct, validate, emit | never changes the decision; a draft that contradicts it is not stored; what is published has no secret |
| Review state, dashboard | `pull_request_review_service.py`, `dashboard_service.py` | none (queries) | latest run per PR against live heads | no verdict next to a head it is not of; what needs action is shown |
| Installations and access | `github_installation_service.py`, `api/deps.py` | installations, links, access rows | sync, deactivate, remove, user sync | rows follow what GitHub last said |
| Repository registry | the same, `models/repository.py` | `repositories` by GitHub id and full name | upsert from payloads, look up by name | a run stays with its repository |
| Login and sessions | `github_oauth_service.py`, `session_service.py` | OAuth states, users, connections, sessions | create, check, consume, upsert, revoke | a state is used once; an account has one identity; changes are authorised |
| Coverage configuration | `coverage_execution_config_service.py` | one row per repository | create from the language, partial update | language, format and commands fit |
| Runtime cache | `runtime_cache_service.py` and the read endpoints | payloads with tags and lifetime | get, compute, set, expire tags | an outdated payload has a reason |
| Token cache | `github_app_auth_service.py` | installation tokens in a process | get, request, store | a token lasts as long as what it is used for |
| Settings, database session, migrations, frontend, deployment | rest | settings | start-up | no state transitions of their own |

**Interaction.** Web processes and workers share nothing but the database. The
web side commits a run, then, in another transaction, inserts its job. A worker
claims the job in one statement and executes the run through an ordinary session
without row locks, so the queue's exclusivity is what keeps two workers apart:
the workspace, the review and the publication of a run rely on it. Webhooks,
logins and list requests write the rows by which every request is authorised.
Publication and cache expiry are calls whose failure is swallowed.

**What is hard.** Webhooks are redelivered, overtake each other and race with
manual requests and synchronisations; either may be cut off between two commits.
A worker may be killed anywhere, an exception may come from any statement,
including those after the verdict was committed. A run is re-executed on top of
what a failed attempt left. GitHub changes between two reads of it. Test reports,
patches, scanners and a language model hand in text of many forms. The list of
hazards, each at its line, is in `PROJECT.json`.

## 2. Modules

| Module | What it is |
|---|---|
| `AnalysisQueue` | the job table and its operations as actions; no clients |
| `AnalysisQueueClients` | extends it with workers that use the whole interface: stale reclaim, retries, deaths; `usage` says which of them a behaviour has. Production uses less |
| `AnalysisRunLifecycle` | the abstract specification: what is promised about a run, with no queue and no workers |
| `AnalysisPipeline` | extends `AnalysisQueue` with runs, request handlers and workers as production wires them |
| `GitHubPublication` | extends `AnalysisRunLifecycle` with publishers, the comments of a pull request and the commit statuses |
| `CoverageGate`, `TechnicalDebtGate`, `SecurityGate` | the three gates, from their inputs to their verdicts |
| `Totals` | the sum of a function, as both of the first use it |
| `EvidenceWorkspace` | the directory of a run's executions |
| `CoverageConfig` | the coverage execution config and its updates, which may overlap |
| `ReviewGraph` | the AI review of a run, its report and what is published of it |
| `ReviewState` | the list of pull requests and the dashboard's list of those that need action |
| `InstallationSync` | installations, links and access rows against a GitHub that changes |
| `RepositoryRegistry` | the rows of repositories while names change hands |
| `LoginSession` | OAuth states, users, sessions and the checks of a request |
| `RuntimeCache` | the payloads of the read endpoints and the changes that expire them |
| `InstallationToken` | the tokens of installations in a process with threads |
| `MCAnalysisPipeline` | adds the symmetry sets for TLC |
| `MCGates`, `MCEvidence`, `MCAccess`, `MCLocalCopies` | instances of several components for TLC, see below |
| `AnalysisQueue_proofs` | lemmas about the job table's operations, for both of its users |
| `AnalysisQueueClients_proofs` | the theorems about `AnalysisQueueClients` |
| `AnalysisPipeline_proofs` | the inductive invariant of `AnalysisPipeline`, its safety theorems, that it implements `AnalysisRunLifecycle`, and that a pending run is handed to the queue |
| `GitHubPublication_proofs` | the theorems about `GitHubPublication` |
| `Access_proofs` | the theorems about `InstallationSync` and `LoginSession` |
| `Evidence_proofs` | the theorems about `EvidenceWorkspace`, `CoverageConfig`, `ReviewGraph` and `ReviewState` |
| `LocalCopies_proofs` | the theorems about `RepositoryRegistry`, `InstallationToken` and `RuntimeCache` |
| `Gates_proofs` | the theorems about the three gates and about `MCGates` |

**The composed instances.** `MCGates`, `MCEvidence`, `MCAccess` and `MCLocalCopies` hold
components that share no state: a variable (`gate`, `part`) says whose behaviour
this is, each component has one or more settings, and what the others have stays as
it was at first. A behaviour of the composed module is one of exactly one of its
parts, so a property of a part is checked as if the part were alone. These modules
extend their components, so that their runs check the very properties that the
theorems are about; a setting is a condition on the part's first state or its steps,
or, for the debt gate, the member of `Setups` that the first state has. That
`GatesSpec` implements each gate's specification is proved (`GatesImplement`). Where
components do share something, they are one module (`AnalysisPipeline` has the queue,
the requests and the workers) or one is used through what another is proved to
implement (`GitHubPublication` over `AnalysisRunLifecycle`). Properties are stated and
explained in the component's module. Because components are extended together, some
have their name in their definitions: `DebtSpec`, `SecuritySpec`, `TokenSpec`,
`CacheSpec`.

### AnalysisQueue

`jobs[r]` is the row of run `r` (`analysis_run_id` is unique, so there is at most
one); `arrivals` is the order of `created_at`, which an upsert does not touch, so
a re-enqueued job keeps its old place in `ORDER BY created_at`. Each statement of
`analysis_queue.py` commits on its own and is one action. `stale` says that
`locked_at` is older than whatever `max_age` a caller passes. The attempt counter
saturates at `AttemptCap`, which is above `MaxAttempts`: no comparison of the
code can tell larger values apart. `FOR UPDATE SKIP LOCKED` is serialised: of two
concurrent claims one takes effect first.

### AnalysisPipeline

A run is its (repository, PR number, head sha). `runs[r]` has the status, the
decision, the status stored in each gate's snapshot (`"none"` for `{}`), the gates
with a stored blocking finding, and whether `started_at` is more than
`STALE_RUNNING_AFTER` ago. `worker[w].pc` names the statement the worker is
about to execute:

| `pc` | code | action |
|---|---|---|
| `idle` | `worker.py` 15 | `ClaimNextJob` |
| `check` | `analysis_execution_service.py` 31-45 | `CheckRun` |
| `begin` | 47-70 | `TokenUnavailable`, `BeginRun` |
| `coverage`, `security`, `technical_debt` | 95-149 | `RunGate`, `DeadlineExceeded` |
| `verdict` | 151-168 | `DecideRun` |
| `error` / `recover` | `_finish_with_error` in the pipeline / in the except clause | `FinishWithError` |
| `refetch` / `recovered` | what follows the commit, in the pipeline / in the except clause | `RefetchRun` |
| `complete`, `fail` | `worker.py` 21, 23 | `CompleteJob`, `FailJob` |

`Raise` is an exception at any of them, `CrashWorker` the death of the process.
A request handler's `pc` goes from `create` (`_create_or_reuse`) to `reread`
(its `get_analysis_run`) to `enqueue`; `mayEnqueue` is the webhook's "existing is
None". The two creations of the code are two actions because a context that
could not be captured gives an errored run at once.

Abstractions:

- Gate configuration, command output and diffs become the choice of a gate's
  result in `RunGate`: `Recorded` has the four statuses a snapshot can have, and
  `MayBlock` the blocking findings each of them can come with. How a gate comes to
  its result is in the three gate modules.
- Reading a row and updating it are separate steps wherever another process can
  come in between and the read value is used afterwards.
- A webhook whose handler raises after the lookup falls into the except clause,
  which reuses the row or makes an errored one: `AbandonRequest` followed by
  `ReceiveWebhookWithoutContext`.
- The worker passes no `stale_after`, so `RequeueStale` and `LockExpires` are not
  steps of this module; they are of `AnalysisQueueClients`.
- Publications and cache expiry change no row. Publications swallow their failures;
  they are in `GitHubPublication`. The expiry never raises, but the row is read again
  for it and after it, and that may (`Raise`).
- Rows are not deleted. (The only deletion is the cascade from a repository, and
  no code deletes repositories.)

### GitHubPublication

`comments` is the pull request's list on GitHub, oldest first, of which
`list_issue_comments` sees the first `PageSize` (100 in the code); `status[r]` is the
commit status of the run's head. Runs and the queue are not modelled again: the
module extends `AnalysisRunLifecycle`, which `AnalysisPipeline` is proved to implement,
so every execution of the pipeline is one this module allows. `worker[w].pc` is where
an execution stands among the statements that publish or decide what is published:

| `pc` | code | action |
|---|---|---|
| `idle` | `worker.py` 15 | `TakeRun` |
| `start` | `analysis_execution_service.py` 31-70 | `StartRun`; `ReleaseRun` when refused |
| `announce` | 71 | `Announce`, which begins `publish_pending_commit_status` |
| `pipeline` | 84-168 | `DecideRun`, `FailRun` |
| `reread` | 169-170 | `RereadRun`, or `FailRun` when it raises |
| `publish` | 80 | `Publish`, which begins `publish_analysis_run_to_github` |
| `release` | `worker.py` 21, 23 | `ReleaseRun` |

`publishing[p]` is the publication that a worker or an administrator is at. It reads
the run once (`BeginPublication`), and then each HTTP call is a step: the token
(`GetClient`), the list (`FindComment`), the create or update (`WriteComment`), the
status (`PostStatus`). A call may fail without effect or after it (`CallFails`): the
worker swallows that and goes on.

- `Enabled`, the channels of the configuration, is a constant: nobody edits the
  configuration while an instance runs.
- The text of a comment is the outcome it reports, and its marker the run.
- Other people only add comments; nobody deletes one.
- The runs are of one pull request, each with a head of its own, because a run is
  unique by repository, PR number and head.
- `raced` is a history variable: the runs of which two publications overlapped, or
  whose row changed under a publication. No action reads it. `RetriesFindTheComment`
  excepts those runs and comments beyond the page: listing and creating are two
  calls that nothing makes one, and one page of 100 comments is read.

### CoverageGate

The environment writes the report as the parser reads it, and `told` keeps what it
says, so the parser's state (`reader`, `files`) can be compared with it. An LCOV
report is read record by record: `ReadSourceFile` is an `SF` line, `ReadLine` a `DA`
line, `ReadSummary` the `LF` and `LH` lines, `EndRecord` the end, which may be
missing; the last record is flushed at the end of the file (`FinishReport`). A
Cobertura class element or a Go block adds to its file (`ReadElement`), and lines that
the parser counts once more than the report has them are `RepeatElement`: those of a
class's methods, which `.//line` finds again, and blocks that a Go profile of several
test runs repeats.

- A percentage is its number of hundredths, rounded to the nearest as `round(x, 2)`
  does. Midway between two of them the result depends on how the ratio is represented
  and on the order of the operations, which differs between the total and the changed
  files. `TiesDown` is the set of ties that are rounded down: any set of ties will do,
  so the theorems hold whatever floating point makes of them. No tie is reachable
  within the bounds of the run, where the set is empty.
- `CoverageReport.files` is read into `files`, and a sum over it is `TotalOf`
  (`Totals`), which counts the units of a function. TLC compares it with the sum of the
  community modules on small functions (`TotalsAreSums`).
- `NamesAreOwn` says that the report names every file so that it is found under its own
  name and under no other's; TLC evaluates it on the settings of the run
  (`FilesHaveTheirNames`). Where it fails, a changed file may be given the coverage of
  another one that ends alike, and nothing is said of the changed-files rule.
- `told` sums up everything the report says of a file. A second LCOV record of a file
  takes the first one's place in the code, so less is left than was told, and repeated
  lines make more. `twice` is the history of such files: of each other file the
  parser ends with what the report says, and no file is lost.
- `LF` and `LH` that follow lines repeat their count, as the tools write them.
- Changed files that the report lacks are left out of the sum (`MatchFile`, `unmatched`), as the
  code and its tests have it. ADR 0021 says otherwise: see the third finding.
- Paths are sequences of segments and `style` says how the report names files: by
  repository path, relative to the working directory, or with the Go module. Several
  files of the report may end like the changed path; which is met first is open.
- `is_source_file` is the environment's choice of `changed`.
- `testsFailed` shows that the exit code of the tests decides nothing.

### TechnicalDebtGate

The patches and the files with braces are written line by line. `position` and `added`
are where the patch is and what it adds; `line` is the gate's count. `HunkHeader`,
`AddedLine`, `ContextLine` and `RemovedLine` are the branches of the walk; `Scan` is
one line of `analyze_brace_language_file` with `depth` and `start`, and `open` is the
true nesting. Python functions are given whole (`Source`), since the code takes them
from the syntax tree.

- A setup of `Setups` is a language, the changed files, what they may be on the head,
  and how many lines are read. `head` is drawn from `sources`; for languages with
  braces the functions are then written as the scan reads on.
- The complexity of a function is the sum of the branches of the functions it contains
  (`TotalOf`).
- A regular expression is modelled by which lines match it.
- `quirks` are forms of text that the walk of a patch reads in its own way: an added
  line that begins with two plus signs, and the mark for a missing last newline. They
  make `FindsWhatPatchesAdd` void; that no marker is invented and that a verdict has its
  reasons holds with them.
- The author of a file with braces writes functions in every form: with the brace on
  the line of the name, which `BRACE_FUNCTION_PATTERN` matches or not (`FunctionLine`);
  with the brace on a later line (`SignatureLine`, then `BlockLine`); on one line
  (`PlainLine`). A function is `plain` when the pattern matches it, its brace is on that
  line and it lies in no other such function: these are the ones the code measures, and
  `LongFunctionsAreFound` is about them, whatever functions of other forms come before
  or inside them. For a line with a signature and no brace the code's depth is 0 and
  the function ends where it begins: see the fourth finding.
- Reading a file ends well, with an `OSError` or a `SyntaxError`, or with another
  exception, such as a `UnicodeDecodeError`, which the `except` does not catch: the gate
  then ends as `"raised"`, which `AnalysisPipeline` has as `Raise`, not as `"error"`.
- A line of a source opens or closes one block at most, sources are well nested and end
  with every block closed, and braces in strings or comments are left out.
- A nested function with braces is part of the outer one, as in the code.

### SecurityGate

One action per scanner of `_scanner_commands`: it reports items (`ScannerReports`), or
fails (`ScannerFails`: timeout, no output, no JSON), or prints JSON of a shape on which
the normaliser raises (`NormaliserRaises`). `SeverityOf` is the four normalisers with
their impacts and defaults, `BlockingSeverities` the three forms of `security_fail_on`.
`found` is `findings`, `headReady` that `prepare_head` returned, and `language` and
`policy` are the settings of the run, which no step changes.
Exit codes are ignored, as in the code; item texts are left out.

### CoverageConfig

An update loads the row, changes the object and flushes the columns that differ from
what was loaded, as SQLAlchemy does. `command` stands for the install command, the
test command and the report path, which are treated alike.

- Any number of updates may be under way: the endpoint runs in a pool of threads and takes no
  lock. An update is overtaken when the row is no longer what it loaded
  (`Overtaken`). It has been validated by itself, so what it stores may leave the language
  of one with the format or the command of the other. `torn` is the history of that: the
  rules that the row may break. An update that is not overtaken puts the format right,
  because it examines it, and the command if it names a language.
- `FormatFitsLanguage` and `CommandFitsLanguage` say that nothing else breaks them.

### EvidenceWorkspace

`disk` is the directory: what is at `repo` and under `revisions/`. A tree is known by its
revision, the execution that unpacked it, and what its coverage report is. `todo` is
the sequence of what the enabled gates do, `repoPath` and `prepared` the object's
state. `RunTimesOut` is a command that is given up: on the host only the shell is
killed, so processes may linger and go on writing (`LingeringWrites`), also into the
tree of the next execution.

- One execution of a run at a time, which `OneExecutorPerRun` proves of the pipeline.
- A worker that is killed inside the `with` block is not modelled: the directory then
  stays until the run is executed again, which removes it (`Enter`).
- Contents of archives and container limits are left out.

### ReviewGraph

A text is the set of what matters in it: a phrase that claims a decision, a secret, a
path of the evidence or of another file, a dotted word that looks like a path. The
model may answer any draft; `Draft` has the schema's bounds, `Corrected` is what
`graph.py` does to a draft before validating it, `IsValid` the four checks of
`evaluators.py`. The decision is that of the gates' findings.

### ReviewState

The list asks GitHub for the open pull requests first and reads the runs after; the
dashboard reads the runs first. People push, close and reopen, and runs are created,
end and are restarted in between. `orderly` are the pull requests whose branch was
never put back to an older head and whose runs came in the order of their heads: for
others "newest by `created_at`" need not be the head's run. One page of `PageSize` open
pull requests is read (50 in the code).

### InstallationSync

`standing`, `granted` and `role` are GitHub's truth, `installation`, `links` and
`access` the rows. `HandleDelivery` is `_process_installation_event` for events that
carry their repositories; for others the handler asks GitHub (`ListRepositories`) and
applies the answer later (`ApplyListing`). A user's synchronisation lists the
installations, and for each fetches and applies its repositories, one commit each. A
member of `Syncs` is a request that synchronises: the list of repositories
(`routes_repositories.py` 41), that of installations (`routes_github_installations.py`
43) and the login (`github_oauth_service.py` 225) each start one, and nothing keeps two of
one user apart, so any number of them are under way (`Syncing`).

- A transaction is one step; interleavings inside one under READ COMMITTED are not
  modelled. Two synchronisations that insert or delete the same row at the same moment may
  fail on it, which is `AbortSync`.
- Rows marked for deletion (`doomed`) are known by their repository, in the code by
  their key: a row that was deleted and written again in between is doomed here and not
  there.
- GitHub: a suspended installation is not listed and its grants do not change, a
  repository has one installation of the app, and deliveries may arrive in any order
  or never.
- The permissions a token's listing shows are nondeterministic (`admin`).
- `disturbed` and `steady` are history: installations of which something old was
  applied late, and users for whom nothing changed, failed or was handled since a
  synchronisation began while no other of theirs was under way. Those that begin later
  may overlap it and each other.

### RepositoryRegistry

A payload is what GitHub said when it was made; `Upsert` is one round of the loop of
`sync_installation_payload`, `Commit` its end. A row is matched by id or by name, and
which of two that match is picked is open. A constraint that fails loses the payload. A
pull request webhook finds its row by the name it carries. One payload is applied at a
time.

### LoginSession

`callback[c].step` names the transaction or call a callback is before. The code
exchange and `GET /user` are one step; the token in a session cookie expires with its
row. `RequestArrives`, `CheckToken` and `Authenticate` are the CSRF dependency and
`get_current_user`, each with its own look at the session; `late` and `over` are
history.

### RuntimeCache

One repository and one user. An entry is only known by whether its payload is
outdated and whether there is an excuse: the payload was being computed when its tags
were expired, the expiry failed, or the change expires nothing (`QuietChanges`: pull
requests on GitHub, the start of a run, the errored run of a webhook), or the change
forgets the key. `Depends` is what each endpoint reads and `Changes` what each writer
expires, taken from their call sites. `Forgotten` are the two that do not fit together: the
dashboard shows whether a gate publishes (`dashboard_service.py` 255-271) and a change of
the gate expires only the gate's own tag (`routes_quality_gate.py` 61); the page of a
repository shows what is synchronised, and nothing expires its tag. The property says
that there is no third. A hit changes nothing. `CommitChange` and `ExpireTags` are two steps; a process
that ends between them is `ExpireFails`.

### InstallationToken

Times are what is left of a token's life. `Ask` gives out a cached token while more
than `Margin` is left (5 minutes in the code); two threads may both request and store
(`Mint`, `Store`). A request uses its token for at most `CallTime`; an execution uses
it for the head's archive, then for the base's after the head's commands.

**Mutants.** A definition whose comment begins with "Mutant of" is a plausible
slip in the definition that follows it. It is not part of the specification;
each property fails when one of these definitions takes the place of the
original.

## 3. Runs

| Run | Instance | States | Properties |
|---|---|---|---|
| `queue` | 2 runs, 2 workers, 6 enqueues, 2 attempts; used without deaths, with them, and with them and stale reclaim | 48 thousand | `TypeOK`, `SoleClaimant`, `AttemptsBounded`, `QueuedJobEnds`, `EndedJobOnlyRestartsFresh`, `RunningJobIsReclaimed` |
| `pipeline_races` | 1 run, 2 workers, 2 handlers, 3 triggers, 1 kill, all outcomes | 77 thousand | all safety properties, the refinement of `AnalysisRunLifecycle` |
| `pipeline_progress` | 1 run, 2 workers, 2 handlers, 3 triggers, no kill | 160 thousand | `PendingRunIsAttempted`, `RunningRunEnds` |
| `publication` | 2 runs, 1 worker, 1 administrator, 2 executions, 1 click, 1 other comment, page of 2, 1 failure | 417 thousand | `TypeOK`, `RetriesFindTheComment`, `VerdictShownIsTheRuns`, `ReleasedRunIsShown`, `PendingStatusIsReplaced` |
| `gates` | coverage with 3 formats, debt with 3 languages, security with 2 | 1.9 million | `GatesTypeOK`, `CoverageVerdictIsMeasured`, `DebtVerdictIsOfTheChange`, `SecurityVerdictIsOfTheScans` |
| `access` | installations: 2 repositories of one, 1 between two, 2 overlapping synchronisations; logins: 1 account twice, 2 accounts and 3 names | 1.8 million | `TypeOK`, `HandledDeliveriesAgree`, `SyncedAccessIsGitHubs`, `LoginsAreSound` |
| `evidence` | 1 configuration with 2 updates that overlap, 1 workspace under two sets of settings, 1 review, 1 pull request with 2 heads | 1.4 million | `TypeOK`, `ConfigurationFits`, `WorkspaceIsSound`, `ReviewIsOfTheGates`, `ScreensAreHonest` |
| `local_copies` | registry: 2 repositories, 3 names, 2 rows; tokens: 2 installations, 2 threads; payloads: 2 processes, 7 keys in two groups | 1.3 million | `TypeOK`, `RowsFollowRepositories`, `TokensOutliveRequests`, `PayloadsAreSound` |
| `pipeline_reclaim` | 1 run, 1 worker, 1 kill | violation | `NoJobRunsForEver` |
| `pipeline_redelivery` | 1 run, 1 handler, 1 kill | violation | `WebhookHasPendingRunExecuted` |
| `gates_omitted` | as `gates` | violation | `OmittedFilesCountAsZero` |
| `gates_functions` | as `gates` | violation | `DetectsFunctionsAboveLimit` |

Some properties are conjunctions:

| Property | Parts |
|---|---|
| `CoverageVerdictIsMeasured` | `ReportIsReadFaithfully`: the parsers lose no file and end with what the report says of those it tells once; `VerdictFollowsMeasurement`: the gate fails exactly for the rules that the measured coverage breaks; `MoreCoverageBreaksNothing` |
| `DebtVerdictIsOfTheChange` | `FindsWhatPatchesAdd`, `InventsNoMarkers`, `LongFunctionsAreFound`, `PassMeansClean`, `FailureHasAReason` |
| `SecurityVerdictIsOfTheScans` | `PassMeansScanned`: no pass without the output of every scanner; `VerdictIsTheCounts`: nothing reported is lost, and the counts decide |
| `LoginsAreSound` | the types, `StateAdmitsOneLogin`, `IdentityIsUnique`, `ChangesAreAuthorised` |
| `RowsFollowRepositories` | `CommittedPayloadIsStored`; `RunsStayUnlessNamesMove`, `PayloadsAreTakenUnlessNamesMove` while no name has been two repositories' |
| `ConfigurationFits` | the types, `FormatFitsLanguage`, `CommandFitsLanguage`, `AnsweredAsAsked` |
| `WorkspaceIsSound` | `EvidenceIsOfItsRevision`, `PreparedTreesStay`, `RevisionsAreFetchedOnce`, `WorkspaceIsRemoved`, `HostIsSpared` |
| `ReviewIsOfTheGates` | the types, `StoredReviewIsSound`, `ReportIsTheGates`, `CorrectionSaves` |
| `ScreensAreHonest` | the types, `ListIsHonest`, `DashboardIsComplete`, `NewerRunSilences` |
| `PayloadsAreSound` | the types and `OutdatedIsExplained` |

Most parts have a mutant of their own, which breaks the conjunction through that
part.

**Bounds.** Every race about a run is about one run: the row locks, the unique
constraint and the upsert are keyed by it, so one run with two workers and two
handlers has them. Three triggers are a creation, a race with it and a
re-execution; one kill separates any two adjacent steps. That executions of
different runs do not interfere is in the theorems, which have no bound.

- `queue`: six enqueues let each of two jobs be enqueued again after it has ended,
  twice over, so that the older one overtakes the newer one again while that still has
  attempts left. `QueuedJobEnds` is about behaviours without deaths and stale reclaim,
  `RunningJobIsReclaimed` about those with stale reclaim, `SoleClaimant` and
  `AttemptsBounded` about those without it.
- `publication`: a page of two has a run's comment first, last and, with the other
  run's and a stranger's, beyond it. Two executions and a click meet in either order;
  one failed call or death falls between any two steps.
- `gates`: two files (one for the languages with braces), at most 3 measured lines a
  report and one counted again, so that a limit can be met exactly and missed by one line in
  either direction; patches of 3 lines have each kind of line after each other kind; sources
  of 6 lines hold a block in a function, a function whose brace comes later before
  or inside one that is measured, and a function after another. Two items of one scanner
  are enough for counts, one item of each of the Python scanners for their mix.
- `access`: two changes on GitHub that overtake each other, with a failure anywhere,
  and three changes where a repository moves between installations; each with a
  user's synchronisation under way. Where two synchronisations of the user overlap there
  are no failures, no suspended installations, no handlers that ask for the list, one pending delivery
  and roles without `read`: what the other settings leave out is only that
  overlap. Logins: two callbacks on one state, states and
  sessions that lapse after one tick, two renames to swap a login.
- `evidence`: one update at a time with every payload, and two that overlap with
  payloads of two languages; two executions in one directory, with a process left from the first; two
  heads and two runs of a pull request, which make "newest", "current" and
  "outdated" differ.
- `local_copies`: three names are what a swap needs; two threads that request at once; a margin, call and command time that
  keep the order of the code's (`CallTime + Skew <= Margin < Lifetime`); a reader
  against a writer for each key. The keys are checked in two groups: those whose
  tags something expires, and those that have none that changes with them.

**Fairness.** `WF` for each worker's next step: `run_forever` is an endless loop and a
statement ends, if only by raising. `WF` for each request handler that is under way.
In `AnalysisQueueClients` clocks advance for each job separately. In
`GitHubPublication` a publication that is under way goes on (every HTTP call has a
timeout of 20 seconds) and so does an execution. Nothing is assumed of triggers,
deaths, clicks, other people, GitHub or failures. The liveness properties of the
pipeline are stated for behaviours without kills because of the first finding. The
other modules have safety properties only: a gate, a review or a synchronisation
moves on as its process does, and nothing waits for another.

**Symmetry.** `MCAnalysisPipeline` permutes workers and handlers,
`MCLocalCopies` repositories, names and rows. Neither run checks liveness, and
the settings and properties treat the members of each set alike.

**Deadlock.** `queue` and `local_copies` keep the check: a worker can
always poll, GitHub always rename, time always pass. Elsewhere triggers, executions,
changes or times are bounded, or a gate or review ends, and those configurations have
`CHECK_DEADLOCK FALSE`.

### Findings

1. `pipeline_reclaim`: `fixes/03-analysis-job-lifecycle.md` requires that no job stays
   `running` without a chance of reclaim; `worker.py` never passes
   `stale_after`, so the job of a killed worker stays `running`, and no later
   request re-enqueues it. `queue` shows that the queue itself does
   what the document wants when it is called with `stale_after`.
2. `pipeline_redelivery`: the multi-user design says that a webhook executes an existing
   pending run once; the handler enqueues only a run it created, so a run whose
   first handler was cut off before the enqueue waits for a manual request.
3. `gates_omitted`: ADR 0021 decides that a changed source file that is missing from the
   coverage report counts as 0% covered, so that new files do not escape the rule. The
   code leaves such files out, and when no other is changed the rule is not applied;
   `test_unmatched_changed_file_is_not_counted_as_zero` asserts the code's behaviour.
   `CoverageVerdictIsMeasured` is about the files that the report has, and the property of this
   run is the ADR's for changes that the report lacks altogether.
4. `gates_functions`: the design of the gate detects functions above the limit in every
   language, if by heuristics (ADR 0024). A function whose parameters take several
   lines, or whose brace stands on the line after its name, has length 1, and arrow
   functions and methods are not looked for. Such functions are never blocking.

### What the properties except

Where the code does less than one might expect, a property says how much less, and
its comment says why. A reader of a property that holds should know these limits:

- `RetriesFindTheComment`: a run has one comment unless two publications of it
  overlapped or its comment lies beyond the first page of 100. Listing and creating
  are two calls.
- `ReportIsReadFaithfully`: of a file in two LCOV records the last is left, and lines
  that a report has twice count twice. `VerdictFollowsMeasurement`: reports that tell a file
  twice, and the changed-files rule when it is a changed one; changed files that the report
  lacks, or that have no measurable line, are left out of that rule (the third finding).
- `FindsWhatPatchesAdd`: an added line that begins with two plus signs is taken for a
  header, and a file without a patch has no markers. `LongFunctionsAreFound`: functions
  that are not `plain` (the fourth finding).
- `StoredReviewIsSound`: a dotted word that is no path may cost the review, not let a
  wrong one through. `CorrectionSaves`: so may the title of a blocking finding that
  claims a decision or names another file, when the reasons are taken from it.
- `SyncedAccessIsGitHubs`: an installation that shows the user nothing any more removes
  no access rows. A synchronisation that began before a change on GitHub and ends after another
  one began later may leave the rights of the older list; the property starts over
  with the next synchronisation that begins alone. `HandledDeliveriesAgree`: a payload that was fetched before a change and
  is applied after it, or a delivery that is overtaken, may re-activate what was
  deleted, until the next synchronisation.
- `IdentityIsUnique`: two accounts that exchange logins may be refused a login.
- `RunsStayUnlessNamesMove`, `PayloadsAreTakenUnlessNamesMove`: as their names say.
- `WorkspaceIsRemoved`: not when a command was given up and its processes linger.
- `ListIsHonest`, `DashboardIsComplete`: branches that were put back to an older head,
  runs that were created late, and pull requests beyond the first 50.
- `OutdatedIsExplained`: the reasons listed with `RuntimeCache`, the two forgotten keys
  among them; an entry that is outdated for one of them stays until its time to live ends.
- `EndedJobOnlyRestartsFresh`: a late report that lands on the second worker's claim while
  that is running is taken for the second worker's.
- `TokensOutliveRequests`: a request, and the first download of an execution. A second
  download, after the head's commands, may find the token expired, and the gate then
  fails as on any download.
- `ConfigurationFits`: a row that an overtaken update has torn; and a field that an
  overtaken update asked to stay as it had loaded it, which is not written.

## 4. Theorems

All are proved for every value of the constants that satisfies the assumption of the
module (`QueueAssumption` and `PipelineAssumption`, `ClientsAssumption`,
`PublicationAssumption`, `InstallationAssumption`, `LoginAssumption`,
`RegistryAssumption`, `TokenAssumption`, `CacheAssumption`, `WorkspaceAssumption`,
`CoverageAssumption`, `DebtAssumption`, `SecurityAssumption`, `ReviewGraphAssumption`,
`ScreensAssumption`), which TLC evaluates on the runs of those modules. The bounds
(`MaxChanges`, `MaxFailures`, `MaxLines`, ...) are constants too: any number will do. About `AnalysisPipeline`:

| Theorem | Statement |
|---|---|
| `TypeCorrect` | `Spec => []TypeOK` |
| `Invariance` | `Spec => []IInv` |
| `OneExecutorPerRun` | `Spec => []SoleExecutor` |
| `DecisionsAreSound` | `Spec => []DecisionMatchesEvidence` |
| `EvidenceIsFresh` | `Spec => []EvidenceIsOfThisExecution` |
| `CompletedJobsHaveOutcome` | `Spec => []CompletedJobHasOutcome` |
| `CompletedRunsAreFinal` | `Spec => CompletedIsFinal` |
| `PipelineImplementsLifecycle` | `Spec => ImplementsLifecycle` |
| `PendingRunsAreHandedOver` | `Spec => []PendingRunIsOnItsWay` |

About `AnalysisQueueClients`:

| Theorem | Statement |
|---|---|
| `ClientsTypeCorrect` | `Spec => []TypeOK` |
| `ClaimsAreExclusive` | `Spec => []SoleClaimant` |
| `AttemptsAreBounded` | `Spec => []AttemptsBounded` |
| `EndedJobsRestartFresh` | `Spec => EndedJobOnlyRestartsFresh` |

The two middle ones speak of the use without stale reclaim, with or without deaths: a
claim that is lost leaves its job running, which nobody can claim.

About `GitHubPublication`:

| Theorem | Statement |
|---|---|
| `TypeCorrect` | `Spec => []TypeOK` |
| `ShownVerdicts` | `Spec => []VerdictShownIsTheRuns` |
| `OneCommentPerRun` | `Spec => []RetriesFindTheComment` |
| `ReleasedRuns` | `Spec => []ReleasedRunIsShown` |

About `InstallationSync`:

| Theorem | Statement |
|---|---|
| `SyncTypes` | `Spec => []TypeOK` |
| `DeliveriesAgree` | `Spec => []HandledDeliveriesAgree` |
| `SyncedAccess` | `Spec => []SyncedAccessIsGitHubs` |

About `LoginSession` and `RepositoryRegistry`:

| Theorem | Statement |
|---|---|
| `LoginsSound` | `LoginSpec => []LoginsAreSound` |
| `RegistryTypes` | `Spec => []TypeOK` |
| `RowsFollow` | `Spec => RowsFollowRepositories` |

About `InstallationToken` and `RuntimeCache`:

| Theorem | Statement |
|---|---|
| `TokenTypeSafety` | `TokenSpec => []TokenTypeOK` |
| `TokenSafety` | `TokenSpec => []TokensOutliveRequests` |
| `SoundPayloads` | `CacheSpec => []PayloadsAreSound` |

About the gates, and about their composition `MCGates`:

| Theorem | Statement |
|---|---|
| `CoverageTypes` | `Spec => []TypeOK` |
| `CoverageIsMeasured` | `Spec => []CoverageVerdictIsMeasured` |
| `DebtTypes` | `DebtSpec => []DebtTypeOK` |
| `DebtIsOfTheChange` | `DebtSpec => []DebtVerdictIsOfTheChange` |
| `SecurityTypes` | `SecuritySpec => []SecurityTypeOK` |
| `SoundSecurityVerdict` | `SecuritySpec => []SecurityVerdictIsOfTheScans` |
| `GatesTypes` | `GatesSpec => []GatesTypeOK` |
| `GatesVerdicts` | `GatesSpec => []` of the three verdict properties |

About `EvidenceWorkspace`, `CoverageConfig`, `ReviewGraph` and `ReviewState`:

| Theorem | Statement |
|---|---|
| `WorkspaceTypes` | `Spec => []TypeOK` |
| `SoundWorkspace` | `Spec => []WorkspaceIsSound` |
| `FittingConfiguration` | `ConfigSpec => ConfigurationFits` |
| `SoundReview` | `ReviewSpec => ReviewIsOfTheGates` |
| `HonestScreens` | `ScreensSpec => ScreensAreHonest` |

**The argument for the pipeline.** `IInv` is `TInv` (types, and that a busy process
names a run) and `SInv`:

- `SoleExecutor` alone is inductive once `IdleNamesNoRun` is added: a claim takes a
  queued job, a busy worker's job is running, so the run claimed is nobody else's.
  `EnqueueEffect`, `ClaimEffect` and `ReportEffect` say that no operation of the queue
  disturbs another worker's running job.
- It makes a run's row the business of one worker. `KnowledgeStands` says what a
  worker read or stored before still holds at its next step: at `begin` the run
  is still executable, in the pipeline the row has the evidence of this execution
  and `gate_results` agrees with it, after the end the run has an outcome. Requests
  write only rows that are absent (`ForeignStep`), and a worker's own step carries
  its knowledge to the next `pc` (`OwnStep`).
- `DecisionMatchesEvidence` follows at `DecideRun` from that knowledge
  (`VerdictIsSound`), `CompletedJobHasOutcome` at `CompleteJob`.
- `CompletedIsFinal` is an action property: the only action that touches a completed
  row is `FinishWithError`, and its worker holds the job (`NextFinal`).

The refinement maps a run's row to its outcome and the running jobs to the held runs.
It needs `RInv` besides `IInv`: a job, and a handler about to enqueue, belong to a
run that exists, and an execution on the error path was begun. Each step then is
an action of `AnalysisRunLifecycle` or a stutter (`NextLifecycle`).
`PendingRunIsOnItsWay` is inductive together with `OnlyReuses`: a handler that will not
enqueue has seen its run, so it creates none.

**The argument for the tokens.** That a token in use has something left is not
inductive: nothing says how long it will be used. `HeldInv` adds `Covered`: what is left
of a token in hand, what has passed since it was got and the clocks' difference make
more than the margin. `Ask` establishes it for a cached token, `Mint` for a new one
because `Margin < Lifetime`, and `Tick` moves one unit from the first to the second.
With at most `CallTime` passed and `CallTime + Skew <= Margin` something is left. No
thread relies on another's token, so the cache needs only its type, and whoever
stores last does not matter.

**The argument for the payloads.** `OutdatedIsExplained` is inductive once the phases of
a request are typed (`PInv`). Rows change in the step in which their request begins to
expire, and no change forgets a key that shows its rows except those of `Forgotten`, of
which the payload is excused at once (`ChangesTouch`). When an
expiry ends, what it touched is gone or excused (`ExpiryPInv`), and what it did not
touch is explained by another request, which goes on expiring. Any other step ends
no expiry (`CarriedPInv`).

**The argument for the workspace.** `WInv` says what the disk is while the gates work: a
revision is there exactly when the cache of prepared revisions has it, and then it is
of this execution (`CacheIsTheDisk`). `FetchedIsPrepared` counts the downloads,
`BaseIsNeeded` follows the tasks, and `LateIsOverdue` keeps what a lingering process
writes apart: there is none before a command was given up. `WriteEffect` says what a
command or a lingering process may do to a tree: its report, never its revision.

**The argument for the configuration.** `CInv` has the types and the two rules, as far as
the row is not torn; nothing needs to be said of the updates under way. One that was not overtaken has loaded
the row as it is, so flushing the columns that differ stores the edited object, which
`EditedEffect` describes and `Invalid` has examined. One that was overtaken tears the row,
and what it says about its own answer needs only that a field it changed is
flushed.

**The argument for the coverage gate.** A parser is compared with the report while it
reads, not at the end: `ReportIsFollowed` says that what has been read, were the open
record flushed now, is what the report has said so far of the files it has told once and no
more, in LCOV, or no less of the others (`AsTold`), that between two records the reader
holds no counts, and that no file has more covered lines than measured ones. Each line of
each format keeps that; at the end nothing is open. `SumsAreOfLookups` says that the sums are those of the changed files that
were looked up and are in the report, provided every name is its file's own
(`LookupsAreOwn`, which follows from `NamesAreOwn`). The sums need no induction: a sum
counts the units of a function, and moving a file from the pending to the looked up
ones adds a disjoint set of units. A rule of `BrokenRules` compares rounded
percentages, one of `BrokenByMeasurement` the exact ratio, and the lemmas on
`Hundredths` show that both are the same, ties included. That covering
a line more breaks no rule comes down to `HundredthsGrow`: a percentage of more covered
lines is never the lower one, whichever ties are rounded down.

**The argument for the technical debt gate.** `DInv` follows both walks. While a patch is
read the gate's line is the position in the head (`PatchIsFollowed`), without the two
forms that the walk miscounts, so a marker is found where it was added, and each
added marker is a new place: with them still at most one marker is found for one
that was added (`MarkersAreFound`). While a source is scanned, `BlockIsFollowed` ties
`depth` and `start` to the nesting as it is: if the scan follows a function, `start` is the
first line of the outermost open one that is plain, and `depth` the number of blocks
open from there on; if not, no plain one is open. Functions of other forms are blocks
to it. So the line that takes `depth` to 0 is the one that ends that function, and the
finding made there is about its true length (`LengthsAreFound`); a signature without its
brace leaves both at 0. `HeadIsRead` says that a file with braces has no
functions before its scan, so that none is missed. `FindingsHaveReasons` and
`SourcesAreAnalysed` are the two directions of the verdict: what blocks is a marker or an
overgrown file, and an overgrown file that has been looked at has something that blocks.
`Overgrown` asks whether any set of contained functions has branches enough; that
the sum over all of them is the largest is monotonicity of `TotalOf`.

**The argument for the security gate.** Types do not say what a finding has to do with
what was reported. `GInv` does: the `i`th finding is what the normaliser of its scanner
makes of the `i`th item (`FindingsAreReports`), and the scanners that ran are the first of
the list (`RanInOrder`). So a gate that passes ran them all, and an item that a severe
word, a secret or a default rates is a finding that blocks (`SevereIsFound`). The counts
are cardinalities of a partition of the findings (`FoundAddUp`).

**The argument for the review.** `RInv` says what is known at each step; its core is
`SnapshotIsSound`, which `Validate` establishes: `CorrectedEffect` says that a correction
adds nothing but the evidence's blocking titles and the redaction mark, leaves no
secret, and gives a failed run its reasons, because the evidence keeps the blocking
findings of the gates (`EvidenceKeepsBlockers`). The proof showed that `CorrectionSaves`
has to except the titles of findings: a title that claims a decision costs the review as
one that names another file does. The instance has such a title.

**The argument for the screens.** "Newest by `created_at`" is a choice, and nothing says
that a newest run exists. `Numbered` does: the runs of a pull request are numbered
up to how many there are, so the last one has that number, and recent runs come last, so
it is also the newest of the recent ones (`LatestIsLast`, `LatestOfRecent`). `HeadIsLast`
says that it is the head's, where branches only go on. A run keeps its number when it
ends, restarts or ages (`ReplaceSInv`), and a new one is the last (`CreateSInv`). The
runs that a dashboard request has read stay runs of the pull request.

**The argument for the publication.** `PInv` has what the types alone do not say: which
run a worker holds (`HoldersAreAlone`), what the row says at each of its steps
(`RowsAllowTheStep`), and what a publication under way has read and is still going to
do (`WellFormed`, `Located`). On it stand

- `VInv`: without clicks a run of which a verdict is shown is settled, and its worker
  is past the point where an exception could still make an error of it;
- `CInv`: a run outside `raced` has at most one publication, which has seen the row as
  it is, and a publication that found no comment is right until it writes one;
- `SInv`: until something fails, a run that nobody works on is shown as its row says,
  and a publication that is at the status has brought the comment up to date.

`MarkedCommentIsTheRuns` says which comment a page leads to, `PutEffect` what a write
leaves, and `ProgressEffect` what a publication's step may change; the three invariants
share them.

**The argument for the installations.** The rows lag behind GitHub, so an invariant
cannot compare the two. `DInv` compares GitHub with what the rows will be when the
deliveries that are pending have been replayed: for each repository the last delivery
about it tells the truth, and if none is pending the row does, and so does every list
that has been fetched and not applied. The same holds of the installation's status.
What is excepted is exactly `disturbed`. `SInv` follows all synchronisations of a steady user together. Each lists and sees the
truth, and dooms nothing that is shown (`IsTrue`). A repository that is shown has its row
or belongs to an installation that some synchronisation is still to apply
(`ShownAreRight`): one may delete what another has written, but then it has yet to write
it itself. And a row that is not shown is going to be deleted by one of them, or has one
of the reasons that the property excepts (`RowsHaveReasons`). When none is left, the
rows are what GitHub shows.

**The argument for logins.** `OInv`: a state is spent by whoever pays with it, and two
who paid have different states, be they callbacks on their way or sessions. `UInv`: a
callback that is past the write has a user. `AInv`: only a logout ends a session
before its time, and what a request has been told about an ended session stays true.

**The argument for the registry.** `TInv` has that links carry the ids of their rows, in
the table and in the transaction that is applied to a copy of it, and that what has
been taken from the payload is stored. `NInv`: every name that a row, a payload or an
event carries is one that its repository has had, so a row that is matched by name is
its repository's own until a name has been two repositories'.

These invariants were checked by TLC before they were proved.

**Only model-checked:** the liveness properties `QueuedJobEnds`, `RunningJobIsReclaimed`,
`PendingRunIsAttempted`, `RunningRunEnds` and `PendingStatusIsReplaced`: TLAPS 1.4.5 does not reason about fairness and `ENABLED`.
Every other property of a passing run is stated by a theorem. The properties that fail
are counterexamples and have no theorem. That a sum over a finite set is what a loop
over its elements computes is induction over data, which the installed provers cannot do;
`TotalOf` is defined without a loop instead, and TLC compares the two.

## 5. Not modelled

- The signing of the app's JWT, the cipher of stored tokens, the redaction patterns and
  the regular expressions of the debt gate: library calls on text. Where they are
  applied is modelled (`ReviewGraph`, `TechnicalDebtGate`).
- The counts and rates of the dashboard: single `SELECT`s that no decision follows from.
- The HTTP client's wire format, prompt texts, tracing, contents of archives, container
  limits: I/O and wording.
- Interleavings inside one database transaction under READ COMMITTED, except where the
  code reads and writes in different transactions.
- Settings, migrations, frontend, deployment and CI: no state transitions of their own.
  The unique constraints that matter are in the modules that rely on them.

## 6. Plan

The plan is carried out: models, runs and theorems are as described. What remains is the
liveness properties, whose proofs need a prover for fairness, and the upkeep of the
models with the code: `map` in `PROJECT.json` says which lines each definition stands
for.

A new component that is checked together with others is extended by their composed
module, so that its theorems are about the definitions that the run checks; the
theorems of components that are checked together share a module.
