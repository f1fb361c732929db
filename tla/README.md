# Veridict in TLA+

Veridict reviews contracts. A user uploads a contract; worker processes run it
through a pipeline of stages in which language-model agents (Harvey, Kira, Admin)
report findings; people then edit the contract, accept or dismiss the findings and
approve or reject the run. This directory holds TLA+ models of the parts of the
backend (`src/app/backend`) in which processes meet (the durable stage queue, the
review blocks and their findings, the event stream, the document under review, the
RAG corpus) and of the pages of the frontend (`src/app/frontend/src`), which share
nothing with the server but requests that are answered late, out of order or not at
all: the session, the page that follows a run, the reviewer's page, the accounts, and
what the screens make of the data they load. TLC checks them on small
instances (`*.cfg`), TLAPS proves theorems about them for every instance
(`*Proofs.tla`). `PROJECT.json` maps every definition to the lines it models and
lists the runs, the mutants, the hazards, the findings and the theorems.

Everything below is about PostgreSQL at READ COMMITTED and SQLAlchemy sessions, as
`db/session.py` sets them up: worker code uses a synchronous session, request handlers
an asynchronous one that commits when the handler returns and rolls back when it raises
(`_get_db`, session.py:45-52).

## 1. Inventory

### Stage queue (`orchestration/state_machine.py`, `worker.py`, `routes/contracts.py`, `services/run_service.py`)

* State: one row of `runs` (status, verdict, findings' decisions), one row of
  `stage_executions` per stage (status, `stage_order`, `retry_count`, `max_retries`,
  `lease_expires_at`, `worker_id`, `structured_output`), the rows of `human_reviews`.
* Operations: `create_run`; `claim_next_stage` (with takeover of expired leases);
  `execute_stage` and its exits `advance_stage`, `retry_stage`, `mark_stage_failed`,
  `mark_run_blocked`, `_abort_if_cancelled`; the requests `cancel_run`, `retry_run`,
  `start_review`, `submit_human_review`, `finalize_run_if_approved`.
* Interaction: workers and requests share the rows and nothing else. A claim is a
  transaction that locks run and stage (`FOR UPDATE SKIP LOCKED`); the execution is a
  second one that lasts as long as the model calls; a request reads, decides, then writes.
* Hard: a lease runs out while the work goes on; a worker dies anywhere; status checks
  read something that has changed by the time the result is written; two stages run in
  parallel at the same `stage_order`; a retry resets a stage that somebody executes.
* Correct when: no stage runs before the outputs it needs exist; nobody reviews an
  incomplete run; a stage has one executor but where a lease ran out under it or a retry
  took it; decisions are recorded, are the reviewer's, and are undone by nothing that came
  after them; a run always leaves the queue.

### Review blocks (`agents/reviewer.py`, `agents/validator.py`, `agents/admin.py`, the bodies of `execute_stage`)

* State: in memory, the findings and votes of the current round and Kira's latest round
  that found anything; stored, the rows of `findings` and the three blocks' outputs.
* Operations: Harvey's three analyses and votes on each other, up to three rounds from
  scratch; Kira's analysis, panel and revisions, up to three rounds; Kira's validator;
  Admin's merge; the soft failures of Harvey and Admin.
* Interaction: a block's output and rows are one commit of the stage queue's worker; Admin
  reads what the other two have stored.
* Hard: the queue may execute a block again, or twice at once; rounds that find nothing;
  panels that never agree; a timeout that discards everything; a cancellation noticed after
  the rows were added; Admin's copies of rows.
* Correct when: what a panel passes was approved by two of three, and by somebody other than
  its author; findings do not vanish between rounds, validator and merge; each finding of
  an output has the row on which it will be accepted or dismissed.

### Event stream (`services/event_stream.py`)

* State: the rows of `run_events`, unique on (run, sequence number); a reader's cursor.
* Operations: `append_run_event` and its async twin (largest number plus one, insert,
  flush, every exception caught); `list_run_events`; `_poll_events` behind the SSE
  endpoint; reconnection with `after_sequence`.
* Interaction: every append runs inside the transaction whose work it reports.
* Hard: two transactions compute the same number; rollbacks; a reader overtaking a
  writer that commits late.
* Correct when: numbers are 1, 2, ... without hole or repetition; nothing appears behind
  a cursor; an open stream delivers; an append does not damage the work it reports.

### Review document (`routes/editor.py`, `routes/contracts.py`, `services/run_service.py`)

* State: the JSON columns `verdict_payload` (the editor's content, the decisions on
  findings without a row and the final verdict, together) and `contract_edits`;
  `accepted_at` and `dismissed_at` of the rows of findings.
* Operations: save the editor, save a clause, accept or dismiss a finding, approve,
  approve with edits, reject.
* Hard: each handler rewrites a whole column from the value it loaded, and only the
  decisions on the run ask for its status.
* Correct when: an acknowledged edit stays, the verdict stays, a decided finding leaves
  the queue, unless a request that overlapped overwrites the column; and the verdict is
  computed from the findings.

### RAG ingestion and retrieval (`services/rag_ingestion.py`, `routes/rag.py`, `worker.py`, `services/rag_retrieval.py`)

* State: documents, versions (`is_active`), chunks, jobs.
* Operations: upload (duplicate check by SHA-256, then insert), claim, ingest, fail,
  delete (soft), search.
* Hard: a job has neither lease nor owner; deletion during ingestion; the duplicate check
  is a read; a failed flush makes `mark_job_failed` fail as well.
* Correct when: search sees whole documents or nothing; no job is ingested twice; every
  job ends.

### Client session (`redesign/backend.js`, `context/AuthContext.tsx`, `routes/auth.py`, `services/auth_service.py`)

* State: the refresh cookie and the access token in the local storage, which all pages of
  a browser share; per page a timer, a joined refresh, the calls that wait for it; on the
  server the refresh tokens that are neither rotated nor revoked.
* Operations: silent refresh by timer, refresh on a 401 and second try of the call, sign-in,
  sign-up, sign-out, reload, expiry.
* Interaction: `main.tsx` mounts `AuthProvider`, which keeps the session as well: the API
  module and the provider refresh the same cookie and do not know each other.
* Hard: each refresh revokes the token it used; answers get lost; a sign-out overlaps.
* Correct when: requests that do not overlap never end the session, no usable token is
  left behind, and every call ends.

### Run monitor (`redesign/AppCore.jsx`, `redesign/Screens.jsx`, the uploads of `routes/contract_management.py`)

* State: the screen, the contract and the address; the run being processed, in memory and
  in the local storage; the polls under way; on the server the runs' statuses.
* Operations: navigate, go back, reload, sign out, upload a contract or a version, poll,
  retry, cancel, look for the active run; the session expires.
* Hard: answers that find the page elsewhere; a poll started by a retry, which belongs to
  no screen; reloads before and after the answer to an upload; an expiry that moves the
  page and not its address; runs that are revived after an end.
* Correct when: the end shown is one the followed run reached; a reload takes up what was
  shown; the screen resolves; polls end.

### Review desk (`redesign/VerdictView.jsx`, `components/ContractReader.tsx`, `components/DocumentEditor.tsx`, `lib/api.ts`, `routes/comments.py`)

* State: the draft with its pending suggestion, the notes of the tab, hidden findings, the
  sign-off; on the server the text, the decisions, annotations, comments, the review.
* Operations: open a tab, edit, accept, dismiss, annotate, comment, remove, approve,
  reject; poll the draft and the notes; teammates do the same elsewhere.
* Hard: optimistic changes overtaken by polls that were asked before them; lost answers;
  teammates who decide the same thing at the same time.
* Correct when: what is shown as done is done, and what is shown becomes the server's.

### Account screens (`redesign/AdminScreen.jsx`, `redesign/AuthScreen.jsx`, `routes/admin.py`, `routes/workspaces.py`)

* State: lists of users, workspaces, members, invites and documents of the knowledge
  base, with their loads; the guest's token, preview and submission.
* Operations: create, add, remove, change a role, invite, revoke, upload, delete; look an
  invite up, follow its link, register.
* Hard: loads and lookups answered after the admin or the guest went on.
* Correct when: the members shown are the chosen workspace's, and the registration is
  with the invite that is shown.

### Screens as functions of data (`DocumentEditor.tsx`, `ContractReader.tsx`, `AppCore.jsx`, `Screens.jsx`, `MoreScreens.jsx`, `VerdictView.jsx`)

* State: none, or (the profile) two small forms whose saves are answered in any order.
* Operations: word diffs, anchors, formatting marks, selections, pages, cards; dashboard
  rows and counts, search, notifications, history, stages; the report and its summary.
* Correct when: no text is lost, changed or shown twice; counts agree with rows; numbers and
  arrows lead where they say; a report names its gravest finding.

### Not modelled so far

| component | state and operations | hard behaviour, what would make it correct |
| --- | --- | --- |
| providers (`providers/*.py`) | attempts, back-off, RunPod job polling | retries of calls that were executed; a bounded number of attempts |
| contract management but for its uploads (`routes/contract_management.py`) | labels of versions, lists, deletion | label computed from a maximum that was read; labels unique |
| comments and annotations but for writing, listing and removing (`routes/comments.py`, `routes/editor.py`) | replies, resolution, spans | plain row writes |
| editor rendering, export (`routes/editor.py`) | none | text layout only |
| accounts but for sessions, invites and memberships (`routes/auth.py`, `services/auth_service.py`, `routes/admin.py`) | passwords, lockout, roles | a counter of failed log-ins that a rollback takes back |
| policy and compliance look-ups (`services/*_repository.py`) | none | their failure is `MarkRunBlocked` |
| parser, embeddings, metrics | none | their failure is `RetryStage` or `MarkJobFailed` |
| fine-tuning (`routes/fine_tune.py`), `scripts/`, `eda/` | child processes, files | batch programs outside the running system |
| legacy and development frontend (`VerdictCard.tsx`, `ContractDetail.tsx` and others, the tweaks panel) | screens of the earlier interface | `App.tsx` renders `RedesignHost`, which reaches none of them |
| deployment (`k8s/`, `docker-compose.yml`, `infra/`) | configuration | the lease and timeout values, see section 4 |

## 2. Plan

Modules in the order of importance; groups 1 to 9 exist.

1. `ReviewPipeline` (abstract promise) and `StageQueue` (implements it), `MCStageQueue`,
   `StageQueueProofs`.
2. `EventLog` (abstract promise) and `EventStream` (implements it), `MCEventStream`,
   `EventStreamProofs`.
3. `ReviewDocument`, `MCReviewDocument`, `ReviewDocumentProofs`.
4. `RagIngestion`, `MCRagIngestion`, `RagIngestionProofs`.
5. `ReviewBlocks`, `MCReviewBlocks`, `ReviewBlocksProofs`.
6. `ClientSession`, `MCClientSession`, `AccountProofs`: pages, keepers and the
   server's rotation composed.
7. `RunMonitor`, `MCRunMonitor`, `RunMonitorProofs`, with the functions `Listings` and
   `ReportPage`.
8. `ReviewDesk`, `MCReviewDesk`, `ReviewDeskProofs`, with the functions `PageText` and
   `ReaderCards`.
9. `AccountScreens`, `MCAccountScreens`, `AccountProofs` again, with the function `ProfileForm`.
10. `QueueWithEvents`: `StageQueue` and `EventStream` composed, for the order in which
   the lock on the run row and the sequence number are taken (PostgreSQL's deadlock
   detection) and for the events of a cancelled or reclaimed stage.
11. `ReviewDocument` composed with the decision half of `StageQueue`, with the rows
   `ReviewBlocks` leaves, and with `ReviewDesk`'s page.
12. `ProviderCalls` (attempts, back-off, RunPod polling, `providers/*.py`), `ContractVersions`
   (`routes/contract_management.py`), passwords and lockout (`services/auth_service.py`).
13. The worker's two queues (stages before RAG jobs).
14. Pure algorithms of the backend against reference definitions: the consensus classes of
   `agents/admin.py`, the clause matching of `agents/reviewer.py`, the ranking of
   `services/rag_retrieval.py`.

Abstract specifications worth stating: the pipeline and the log (done), the review document as
one register per clause and finding.
Theorems next: `NeverStranded` with retries, under assumptions the code gives; what `Listings` and the anchors and marks of `PageText` promise, for all inputs,
along the lines of the theorems about the word diff; the compositions of items 10 and 11.
`JobsEndOrLost` stays with TLC (liveness).

## 3. Modules and code

### `StageQueue`

One run. A step is a committed transaction, or a read whose result is used later.

| variables | code |
| --- | --- |
| `run`, `reviews`, `verdict` | `runs.status`, `human_reviews.action`, `runs.verdict_payload`: null, its `human_action`, or "content" when it holds the editor's content or decisions on findings and no action |
| `status`, `lease`, `retries`, `output` | the columns of `stage_executions`; a lease is none, live or expired against the clock; of the output, only whether there is one |
| `pc`, `held`, `seenRun`, `seenCount` | a worker's place in `run_worker_loop`/`execute_stage`, its stage, and what its session has cached of run and stage |
| `req`, `seenRows`, `seenVerdict` | requests between their read and their write |
| `calls`, `faults` | bounds |
| `disputed`, `late`, `annotated` | history: stages taken from under a worker or reset when completed; requests that had loaded the run before its latest decision (or before one of these wrote over it); whether content was ever saved |

Actions: `Claim` (claim_next_stage), `Begin`/`Finish` (the two fresh reads of the run's
status at the beginning and the end of the body), `AdvanceStage`, `RetryStage`,
`MarkStageFailed`, `MarkRunBlocked`, `CancelStage`, `Crash`, `ExpireLease`; `Ask` (load and
status check) followed by `CancelRun`, `ReadStages`/`RetryRun`, `StartReview`, `SaveContent`
(the editor's save, and the buttons on findings without a row), `RejectRun`, `FinalizeRun` or
`FailRequest`. The histories only record what happened; no guard reads them.

Arguments behind the granularity:

* The claim locks both rows and commits, hence one step. `SKIP LOCKED` may pass over a
  row that another transaction writes, hence any claimable stage may be taken and not only
  the first in the order.
* A worker's session caches `stage.run` and the stage's columns from the beginning of the
  execution to the commit, and writes only columns whose value changes against the cached
  one. So `mark_stage_failed` tests a stale status, `WriteRun` writes nothing when the new
  value equals the cached one, and `retry_count` is computed from the cached count.
* `cancel_run` changes the status and then queries the stages; the query flushes the
  change first, so from there to the commit the run row is locked: one step. `retry_run`
  queries first and assigns later: two steps, and again only changed columns are written.
* `submit_human_review` sets the run to `processing` before it finalizes it, within one
  transaction: that status is never committed.
* A flush that fails leaves the session unusable (`PendingRollbackError`), so a worker's
  commit that fails is a `Crash`: nothing is written and the lease runs out.
* `_build_final_verdict` takes any payload that is not null for a verdict and fills in "approved"
  when it has no `human_action` (run_service.py:470-478): `FinalVerdict`.
* `mark_run_blocked` leaves the stage running under its lease; `claim_next_stage` takes no
  stage of a blocked run, so only a retry request brings it back.

### `ReviewPipeline`

The promise: stages produce their outputs in the order of `stage_order`, never withdraw
them, and people decide only when all of them exist. `StageQueue` implements it with
`produced <- {s \in WorkerStage : output[s]}` and `decisions <- reviews`.

### `EventStream`

Transactions are idle, working or broken. `ReadLast` computes the next number from the
committed rows and the transaction's own; `Insert` waits while another transaction holds an
uncommitted row with that number (`Waits`), and fails (`Collide`) when a committed one has
it. After a collision the code logs and goes on, but the session has been rolled back:
nothing it did is committed. `Poll` is one turn of `_poll_events`; it may stop after any event,
for the client may go away; `CloseStream` is `max_polls` running out, `Reconnect` the client
coming back with its cursor.

### `EventLog`

The promise: one log (`log`), to which whole batches are appended (`Publish`), and of which each
reader is given more and more from the start (`Read`), up to a terminal event; `HangUp` and
`CallBack` are the streams that end and are asked for again. There are no transactions, no
numbers and no collisions in it. `EventStream` implements it with `log <- AsLog(rows)`,
the types of the committed rows in the order of their numbers, and
`given <- AsLog(sent[r])`: a commit publishes a batch, a turn of the poll reads, and every
other step of a transaction stutters.

### `ReviewDocument`

The run as one row that every handler loads (`Load`) and rewrites column by column. The
payload is a record of what the properties tell apart: how often the editor was saved, the
findings accepted and dismissed by id, the human action and the provenance of the risk.
JSON columns are assigned as a whole, with `flag_modified`, and the session's identity map
makes the loaded row a snapshot. A clause is edited under any uid the request names
(`Uid`): `save_clause_edit` asks neither for the clause nor for the run's status. `acked`
and `decided` are history variables, what a client was told has been stored; so are `missed`,
what others wrote into each column since a request loaded it, and `overrun`, what was in a column
when a request that had missed it wrote the column (`Commits`). Any number of requests overlap.

A finding is an id. `Recorded` ids have a row, `Merged` ids are in Admin's output, and
`IssueOf` says what a finding says; two ids may say the same. A run of today has for each
finding of a block a row with the finding's id and, from Admin's commit, a second row with an
id of its own (state_machine.py:312), while Admin's output lists the first id. Findings in
Admin's output without any row are what `accept_finding` and `dismiss_finding` keep a branch
for, and write into the payload. `Pending` is the queue as `_load_full_findings` builds it:
undecided findings of Admin's output, one per issue, then undecided rows that say something
not yet shown, again one per issue.

### `ReviewBlocks`

| variables | code |
| --- | --- |
| `work` | the local variables of `_run_harvey_review_block`, `_run_kira_review_block` and the admin branch of `execute_stage` |
| `started` | bound, and the source of fresh ids (`uuid4`) |
| `rows` | the table `findings` |
| `output` | `structured_output` of the three blocks |

`Begin` starts an execution of any block at any time (what the queue allows is
`StageQueue`'s business, and it does allow a block to be executed again, and by two workers
at once), Admin's only when both outputs are there (`InputsReady`). `HarveyAnalyze` is one
`asyncio.gather`, `KiraAnalyze` both `analyze` and `revise`, `Vote` a whole panel: nothing
shared is touched in between. `StoreHarvey`, `StoreKira` (validator included) and `StoreMerge`
commit through `Store`, which is `advance_stage`: rows and output, or, if the run turns out to be
cancelled, the rows alone, for the session has them already. `SoftFail` is the two
`except` branches. What models find and vote is chosen freely, what the validator drops as well.

### `RagIngestion`

One tenant and workspace. `CheckUpload` and `StoreUpload` split `create_ingestion_job` where it
reads; `ClaimJob` is a committed transaction, `IngestDocument` the whole of
`ingest_document` and its commit; `MarkJobFailed` the handled failures; `LoseJob` a dead
worker, or a database error after which `mark_job_failed` fails as well. `delete_rag_document`
is one step: a job that ends between its query and its commit leaves the same rows as one
that ends after it. Jobs are claimed only when no stage is claimable (worker.py:97-113);
stages are not part of this module, so a claim may happen at any time, and fairness of
claims assumes that the stage queue is empty now and then.

### `ClientSession`

| variables | code |
| --- | --- |
| `cookie`, `stored` | the httpOnly cookie `veridict_refresh`; `veridict_token` in the local storage, fresh or past its 12 hours |
| `live`, `minted` | rows of refresh tokens that are neither revoked nor rotated; the source of new ones |
| `flight`, `exit`, `timer` | the refresh, the sign-out and the next silent refresh of each keeper (page and `"module"` or `"provider"`) |
| `waits`, `call`, `sign` | who awaits the module's joined refresh (`refreshInFlight`), an API call and its second try, a sign-in |
| `view`, `banner` | what `App` renders, and the notice that the session expired |
| `disturbed` | history: did requests of two keepers overlap, or did an answer or a cookie's age end the session? |

The server's rotation is two steps, `ReadToken` and `Rotate`, for it reads the row and
writes it later without a lock (auth_service.py:82-91). A 401 makes `apiFetch` await the
refresh, joining one that is under way (`TryRefresh`), and send the call once more.
`Age` lets the access token run out, `Expire` the refresh token after its 30 days. No handler
deletes a user, so the refusal "User not found" of a rotation cannot happen and has no action.

### `RunMonitor`

Upload u creates run u. `Show` is one rendering: it applies what the effects of `App`
do when screen, contract, run or error change (forget the run when the processing
screen is left, start or stop its poll, look for the active run). `Go` is `navigate`, which
also writes the address; `PopState` and `Reload` read it back. `WatchAsks`,
`WatchAnswered`, `WatchLeaves` are the screen's poll with its 800 ms before it
navigates; `StrayAsks`, `StrayAnswered`, `StrayLeaves` the poll that `handleRetry` starts in a
closure of its own, which goes on when the screen is gone: `mounted` says whether its
updates reach a component. `FindActive`, `Recovered`, `NothingToRecover` are the effect
that asks for the active run. `ExpireSession` is the handler of VERDICT_SESSION_EXPIRED, which sets the
screen to the dashboard and leaves the address as it was; `SignOut` a sign-out and the next
sign-in, which mount the same screen anew.

Of the pipeline `RunMonitor` knows the status only (`ServerStep`), and "failed" stands for
blocked as well: workers finish a run, reviewers open it (`OpenReview`) and decide on it, other
pages cancel and retry it, and `Overwrite` is the commit of a worker or request that read the
run earlier, which may set any status: a cancelled run revives, a decided one fails (see
`cancel_final`). History variables are `reached`, the ends each run has been at, and `astray`,
what has put the page beside its address: an expired session, or an upload that was answered
while the user was elsewhere; the next navigation or reload ends either.

### `ReviewDesk`

One clause with one suggestion. A request is asked (`Sends`), carried out at the server
(`ServeWrite`, which also refuses and loses it) and answered (`DecisionDone`, `SaveDone`,
`NoteDone`, `SignedOff`, their failures); `OpenTab` unmounts the other tab, whose
answers are then heard by nobody (`adrift`). `ServeLoad`/`LoadAnswered` is the load keyed
by `draftRefreshKey`, `PollServed`/`PollAnswered` the poll of the draft every 15 s,
`ListServed`/`ListAnswered` that of the notes; each takes its answer from the server in one
step and reaches the page in another. `cards` counts how often a note is listed, for an
answer appends and a poll replaces. `Teammate` does what any reviewer may. A decision is judged
(`JudgeSign`, the status check of `submit_human_review`) and written (`Sign`) in two steps with
nothing held in between, so that of two that overlap, a teammate's or one from each of the
panel's two buttons, both are answered 200 and the later one stands; `reviews` are the rows of
`human_reviews` that both leave.

### `AccountScreens`

The console of an admin and the screen of a guest over one organisation, and
`Colleague`, another admin. The loads of members (`rowLoads`) are a set, for the
code neither cancels nor numbers them; `crossed` is a history variable: loads of different
workspaces overlapped. Lookups of invites are a set as well.

### `PageText`, `ReaderCards`, `Listings`, `ReportPage`, `ProfileForm`

Pure functions, whose promises are named assumptions of the MC modules that TLC
evaluates over all bounded inputs when the run starts: `PageText` and `ReaderCards` in
`MCReviewDesk` (`DiffIsFaithful`, `AnchorsKeepText`, `MarksKeepText`, `SelectionsAreFound`,
`EvidenceIsMarked`, `CardsAreHonest`, ...), `Listings` and `ReportPage` in `MCRunMonitor`
(`CountsMatchRows`, `SignOffsAreNotified`, `AddressesLeadBack`, `ProgressIsHonest`,
`SummaryNamesGravest`, ...), `ProfileForm`, a function of the events since the screen was opened,
in `MCAccountScreens` (`FormSettles`, `PasswordsAgree`, `WorkspacesAreTold`). A word is a stem
and the form of its letters, a text a sequence of characters, a list what the server sent.
`Common`, `DiffOps`, `Merged` (with `AddWord`) and `ReadDiff` of `PageText` are recursive functions,
one per loop of `computeWordDiff` and of the reader, and so is `Profile`, so that they can be
reasoned about for texts and courses of any length (section 5).

### MC modules

They bind constants: the topology of a run, what analyses may find, the batches of
events, two uploads of one file, what three findings say. Those of the frontend also hold
the assumptions about the pure functions.

## 4. Runs

Eleven runs pass; one shows a disagreement between the code and its comments.

| run | instance | what it shows |
| --- | --- | --- |
| `stage_queue_safety` | 5 stages, 2 workers, 2 overlapping requests of any kind, leases that may run out under a worker, 1 fault | `InputsReady`, `HumanGate`, `ReviewPipeline` implemented: a stale worker, a takeover and a retry in the middle cannot open the review early or start a stage too soon; `Exclusive`, `CompletedStays`: only a lease that ran out under a worker, or a retry of what is under way, gives a stage two executors or executes it again; `DecisionRecorded`, `DecisionFinal`: what is recorded was given by a reviewer or is the default of a payload with content, and only a request that had loaded the run before a decision, or the worker of a disputed stage, replaces or undoes it |
| `progress` | 2 workers, fairness, 1 crash, 2 retry requests | `Progress`: reclaiming and the retry cap make every run leave the queue |
| `event_stream` | 3 transactions, 4 kinds of batch, 1 reader with 1 reconnection | `NothingSkipped`, `ImplementsLog`, `Delivered`: numbers that collide make one log of whole batches, which every reader is sent from its start |
| `review_blocks` | 2 workers, 3 executions, 2 rounds, 2 issues of one clause and type | `PeerApproved`, `NeverZeroed`, `OutputsRecorded` |
| `review_document` | 2 clauses; a finding's row, Admin's copy of it, a finding without a row; 2 clients, any 5 requests, overlapping as they like | `EditsKept`, `VerdictKept`, `DecidedInReview`: what is lost was overwritten by a request that had loaded the run before |
| `rag_ingestion` | 3 uploads (2 of one file), 2 workers, 2 lost workers | `CorpusComplete`, `OneIngestion`, `JobsEndOrLost` |
| `client_session` | 1 page with 2 keepers, 2 refresh tokens, 1 request or answer lost or cookie grown too old, 1 reload | `SessionKept`, `NoTokenLeft`, `CallsEnd` |
| `run_monitor` | 1 upload next to a contract that is there, 2 turns (reloads, expiries, sign-outs, retries, cancellations, late commits), any navigation | `ScreenResolves`, `RetryPollEnds` |
| `two_uploads` | 2 uploads, 1 turn, any navigation | `ShownTruthfully`, `Resumable` |
| `review_desk` | 2 acts of the user, 1 of a teammate, 1 request or answer lost | `ConfirmedOnly`, `Converges` |
| `account_screens` | 3 acts of admin, guest and colleague, 2 loads of members at once | `RowsMatch`, `FormTruthful` |
| `cancel_final` | 1 worker, 1 request | a cancelled run is revived by the commit of a busy worker |

Bounds. The topology keeps one stage before the fork that may fail, the two parallel review
blocks, one that opens the review and `finalized`, which no worker executes; the stages left
out repeat the first one. Two workers are enough for a takeover, two requests for every pair
of handlers to overlap; `MaxRetries = 2` makes both the retry and the cap reachable;
`MaxFaults` counts crashes and leases lost under a worker. Two rounds have a first, a last and
a revision in between (the code has three rounds); three executions are enough for Harvey,
Kira and Admin, or for one of the first two to be executed twice, before, while or after the
other is. In the frontend one page with two keepers has every overlap of two refreshes, and two
tokens a rotation of the first one; two acts and a teammate's
one are a change, a change of mind and a change from elsewhere, with every poll in
between; two loads of members are enough to cross. `review_document` has the five that load, decide, save and decide again in two
hands. `run_monitor` has one upload, whose run meets reloads, stray polls and the contract that was
there before. `two_uploads` has two, which one turn is enough to mix up; its constraint `NoneReviewed`
cuts behaviours in which a run is under review or rejected, which the page treats as it treats "processing".
The proofs hold for any number of uploads and turns. Deadlock is not checked
anywhere: when the bounds are used up, or the run has ended, nothing has to happen. Symmetry (workers,
clients) is used in safety runs only.

Lease lengths. The default lease is 60 s (core/config.py:45) and the Kubernetes
configuration has 300 s (k8s/configmap.yaml:41), while Harvey's and Admin's stages are given
600 s (state_machine.py:671, 767), and nothing renews a lease. `LeaseCoversWork = FALSE` is
therefore the faithful setting, which `stage_queue_safety` has, and the theorems need neither; TRUE is the assumption
the protocol was designed under, and `progress` (see below) and `cancel_final`, whose
trace is easier to read without lost leases, are the only runs that make it.

### Fairness

`FairSpec` of `StageQueue` asks for what `run_worker_loop` and the clock give: a worker goes on
with its stage (a body ends, for every model call has a timeout), an idle worker claims
when a stage stays claimable, a lease that is live runs out. Users and crashes owe nothing.
`RagIngestion`: workers claim and finish. `EventStream`: an open stream polls.
`ClientSession`, `RunMonitor`, `ReviewDesk`: the browser runs continuations and fires timers,
and the server answers what reaches it; a request that is lost is a rejected promise, which is an
answer too. Nothing is asked of the workers in `RunMonitor`: its properties are about runs that stay
where they came to rest. Nobody has to click, reload or come back. Liveness runs
have fixed bounds on faults, so "always eventually" never rests on faults going on.

`progress` leaves cancellations and overlapping requests out and lets leases cover the work, for
without any one of these the property is false. There are four ways to a run in `processing` in
which nothing is claimable, ever, and TLC shows each of the first three when the configuration
is widened, the last one when Harvey's stage is made fallible:

* Cancellation: cancel a run, let a busy worker's late failure overwrite the status with
  `failed` (see `cancel_final`), retry it. `retry_run` resets failed and running stages but
  not cancelled ones (contracts.py:186-191).
* Leases that run out: a second executor of a stage that began while the run was `failed` has
  that status cached; when it fails after the retry, it marks the stage failed and leaves
  the run in `processing`.
* Two requests to retry that overlap: the second one writes `processing` with the list of stages
  it read before the first, so that a stage that failed in between is not reset.
* Two stages side by side that can both fail: the first failure ends the run while the
  other stage is under way, and after the retry that one fails as in the second case. In
  `STAGE_SEQUENCE` only Kira's of the two can, because Harvey's catches its errors.

### Disagreements that have no run of their own

Met while modelling. In the backend, most of them reproducible by widening a configuration:

* A stage that outlasts its lease is claimed by a second worker while the first still
  executes it, although state_machine.py:91 says "Reclaim stages where the worker died without
  releasing the lease." A retry does the same to a stage that is under way. These are the
  `disputed` stages of `Exclusive` and `CompletedStays`.
* Of two transactions that append together the loser has its whole transaction rolled
  back, although the exception is caught as if appending were best effort
  (event_stream.py:54). `AppendHarmless`.
* Accepting a finding marks one row; the copy of it that `admin_merge` stored
  (state_machine.py:312) takes its place in the queue, although editor.py:1245 says "Mark
  finding as accepted so it disappears from the review queue". `DecisionsStick`.
* A run whose editor was saved before the approval is finalized with the default risk
  (run_service.py:470) and never reaches the code under "Derive overall risk from annotated
  findings." (run_service.py:492). `VerdictDerived`.

* Two reviewers who decide at the same time both pass the status check
  (run_service.py:705); the second decision replaces the first. These are the `late`
  requests of `DecisionFinal`, and the second case of `ConfirmedOnly`.
* An editor save that overlaps an approval writes back the payload it loaded, and the
  verdict is gone (contracts.py:262), which models/schemas.py:440 calls "The authoritative
  output of a run." It is what `overrun` takes out of `VerdictKept`.
* A RAG job whose worker died stays running: `claim_next_rag_ingestion` takes pending jobs only
  (worker.py:69), while docs/RUNBOOK.md:30 says to "Watch ingestion status until terminal
  state." `JobsEndOrLost` without its second disjunct.
* state_machine.py:497 and AGENT_DESIGN.md:125 say that after the last round the worker's last
  output passes regardless; when it is empty the code passes the latest round that found
  something (state_machine.py:534), also when the panel has just approved the empty one.
  `NeverZeroed` is what the code does instead.
* Two uploads of one file pass the duplicate check together (rag_ingestion.py:85), and
  `scalar_one_or_none` then raises for each later upload of that file.
* Two clause edits that overlap: the later one writes back the whole `contract_edits` it
  loaded and the other edit is gone (editor.py:1139; models.py:101): `overrun` in `EditsKept`.
* An edit is accepted under a clause_uid that the contract does not have (editor.py:1128).
* A merged finding that was accepted comes back to the queue when the run is finalized, for
  the verdict replaces the payload that remembered it (run_service.py:797, editor.py:1245).
* Once the editor was saved, a run that is still in review shows the verdict "approved"
  (run_service.py:478; models.py:98), and when it is then approved with edits the verdict recorded
  is "approved", too: the defaults that run_service.py:471 says are for "old runs" meet a live one.
  This is the second case of `DecisionRecorded` (`annotated`).
* Two uploads of versions at once get the same label (contract_management.py:339), and a
  user may be added to a workspace twice, for no constraint forbids it.
* A failed log-in is counted in the transaction that the error rolls back, and
  `remove_user` leaves the user's memberships.
* The design documents and some tests describe another topology (a final review block)
  than `STAGE_SEQUENCE`; the models follow `STAGE_SEQUENCE`.

In the frontend:

* Session: the two keepers' refreshes race on one cookie, and the loser signs out, which is
  what backend.js:9 was written to prevent; `AuthContext` signs out on any error, while
  backend.js:511 says "network errors keep local session"; a sign-out that is lost leaves its token
  accepted; the client of `lib/api.ts` does not refresh on a 401. These are the steps that
  set `disturbed`.
* Run monitor: the processing screen takes neither "rejected" nor "under_review" for an end; the
  poll after a retry goes on for ever when the run is cancelled, and navigates when the user
  has long left; an upload that is answered elsewhere changes the processing run of another
  screen (`astray`); a session that expires shows the dashboard at another screen's address; a
  screen that shows a cancelled run does not notice when the run is revived; an old error suppresses the recovery; Cancel may be pressed before the
  run has an id; the active run is looked up in the whole tenant; the stages with a name
  on the screen omit Harvey's, so its failure has no reason there.
* Review desk: a poll asked before a decision offers the suggestion again, or replaces
  the text just typed, until the next one; hidden findings return after a change of tab; a
  failed load keeps its error while polls succeed; failures of saves and removals are
  silent; removal is offered to others than the author and then refused; sign-off is offered in any
  state of the run, and navigates 800 ms later wherever the user is; an edit is shown in all
  paragraphs of its clause.
* Account screens: loads of members of two workspaces that overlap show one under the other
  (`crossed`); adding, changing and removing members have no error path; a revoked
  invite leaves the list even if the request failed; somebody who has an account and
  registers with an invite becomes a member of the workspace but not of the organisation.
* Text and cards: the marks of one paragraph are painted on every paragraph of its clause;
  a selection that is not found is stored at position 0; marks of one type that
  abut lose formatting; the diff of a card omits the heading that accepting inserts; the "N
  more words" of a card counts chunks; an edited paragraph with a suggestion has neither bar nor line.
* Lists and reports: the report says that no issues were found when findings failed to load
  or are of an unknown severity; a filter by workspace also matches workspaces of the same name; the
  search may drop the last workspace it found; Enter before the search has
  loaded opens the first row of the previous one; dots and words of the history disagree
  in colour for three states; a report opened without its ids leads to the dashboard after a reload.
* Profile: of two saves that overlap, the first answer says "Saved" for both; what
  is typed while a password is saved is cleared by its answer.

## 5. Proofs

Each `*Proofs` module extends its component. The theorems hold for all values of the
constants that satisfy the named assumptions (`ConstantsAssumption`, `BlocksAssumption`,
`StreamAssumption`, `RagAssumption`, `DocumentAssumption`, `SessionAssumption`,
`MonitorAssumption`, `DeskAssumption`, `AccountAssumption`): any number of stages, workers, requests,
transactions, readers, documents, pages, uploads and notes. TLC evaluates the assumptions in the runs.

`StageQueueProofs`
* `TypeCorrect`. The types.
* `QueueInv`: a completed stage has its output; a worker holds a stage only when all earlier
  outputs exist (`HoldersReady`); a request that will decide exists only when all outputs
  do (`ReviewersReady`); `InputsReady`; `HumanGate`. Statuses alone are not inductive: a retry
  puts completed predecessors back to pending while a later stage's worker goes on, so
  the argument has to be about outputs, which are never withdrawn. Gives `InputsAlwaysReady`,
  `ReviewWaits` and, step by step, `QueueImplementsPipeline`. No assumption on leases.
* `LeaseInv` says of each stage that is not disputed that whoever holds it holds it alone, that it
  then runs under a live lease, which is what keeps everybody else from claiming it, and that
  it is completed once it has its output. Gives `HoldersExclude` and `CompletedIsKept`,
  whatever leases run out and requests overlap.
* `FinalInv` adds `OnlyContent`: of the requests under way when the run is decided, those that are
  not `late` save content, and the payload they loaded is the decision's. The outputs are all there
  by then (`HumanGate`), so no worker is busy at an undisputed stage (`DecidedHolders`). Gives
  `DecisionsAreFinal`.
* `DecisionInv`: a verdict that is stored, or that a request loaded, is none, one a reviewer gave, or
  what content makes of it. Gives `DecisionsRecorded`, however requests overlap.
* `NeverStranded`, the safety half of `Progress`: a run in the queue always has a stage that can be
  claimed, or will be when its lease runs out. It follows from `Leased` (which status goes with
  which lease) and `Workable` (no stage of a run in the queue is given up) by taking an earliest
  stage that is not completed (`EarliestStage`, from the well-foundedness of the naturals). Without
  retry requests these two are inductive: `UnretriedNeverStranded`, whatever leases run out,
  workers die and cancellations come. With them it is false (the four ways of section 4), so nothing
  is proved of retries.

`EventStreamProofs`
* `NumberInv`: for each transaction, the committed rows and its own uncommitted ones
  together are numbered 1, 2, ... without a hole, the row it is about to insert continues
  them or collides, and at most one transaction has uncommitted rows (the others wait for
  its number). Gives `StreamGapless`. `Gapless` alone is not inductive, as it says nothing
  about rows that are still uncommitted.
* `ReaderInv` places each cursor at the start or at a committed event; with `NumberInv` no
  commit lands behind it: `ReadersSkipNothing`.
* `BatchInv` says what a transaction has appended: the first events of one batch, numbered on from
  the committed rows. With the other two it gives `StreamImplementsLog`, step by step: a
  commit is `Publish` of that batch, a turn of the poll `Read` (`PollReads`), everything else
  leaves the log as it is.

`RagIngestionProofs`: `IngestInv` ties jobs to chunks, active versions and workers:
`TypeCorrect`, `RetrievalComplete`, `IngestedOnce`, with any number of lost workers. `StuckByFaults`
counts: there are never more jobs that will not end than faults, for a fault loses at most
one and nothing else loses any. `LostByFaults` is what can be proved of `JobsEndOrLost`.

`ReviewBlocksProofs`: `BlocksInv` says of each execution (`Sound`) that Harvey's findings are of the
round being voted on, that Kira's worker remembers a round that found something once there
was one, and that what Admin read has rows; and of the outputs what the theorems say. The
outputs alone are not inductive: what will be stored is still in some worker's memory. With
the lemma that two votes of three are not one member's it gives `TypeCorrect`, `PassedByPeers`,
`KiraNeverZeroed` and `FindingsRecorded`, for any number of workers, executions and rounds.

`ReviewDocumentProofs`: `TypeCorrect`; `KeptInv` says that what a request in flight loaded is still
what the row holds, but for what it has `missed` and what was `overrun`, and that a decided finding
is marked in its row or listed in the payload, so that it is not among those the queue is built
from (`PendingUndecided`, `DecidedAway`). Gives `AckedEditsKept`, `FinalVerdictKept` and
`DecisionsStay`, for any number of overlapping requests.

`AccountProofs`. Of the session: `Calm` says of a session that was not disturbed which one story it is in
(`Story`: nothing under way, one page refreshing, one leaving, one entering), with
the token that request carries and what the server makes of it, and that all pages agree on
being signed in (`PagesAgree`). What the properties say of the quiet states is not inductive:
between the rotation and its answer the cookie is no longer accepted, and only the
request under way says why. Gives `SessionIsKept` and `NoTokenIsLeft`, for any number of
pages. `NobodyForgotten` is the safety half of `CallsEnd`: a call that waits for a refresh is on
the list of those that will be told, and that list is never without a refresh under way
(`CallersRemembered`, with any faults and reloads). Of the screens: `ScreensInv` ties each answer
under way to the workspace it was asked for (`TableInv`) and each lookup to the invite in the form
(`GuestInv`; the guest waits for one answer at a time, `OneAnswer`). Gives `ScreensTyped`,
`RowsAlwaysMatch` and `FormAlwaysTruthful`, for any number of acts and loads under way.

`RunMonitorProofs`: `Served`, `OnScreen`, `Carried` and `Followed` say that each poll, request and
shown status belongs to the run that is followed and was true of it when it was read (`reached`
keeps it so, though the run may be revived), `Recovering` and `Stored` tie the recovery and the storage to it, `Addressed` the
screen to its address, but for what `astray` says. Gives `EndsAreTrue` and `PageIsResumable`, for any
number of uploads, reloads, retries, late commits and expired sessions. `NeverGrey` is the safety
half of `ScreenResolves`: a processing screen without an error always has a recovery, an upload or a poll under way that can bring
it an end. It is inductive together with where an upload is waited for and which polls a
retry that outlived its screen leaves behind (`GreyInv`): `ScreenNeverGrey`.

`ReviewDeskProofs`: `Confirmed` extends the property to answers that are still under
way: a request that was answered "ok" has been carried out, and a decision on record stands or was
replaced by one on record (`Stands`), for the write that follows a check may find any status;
`Written` ties notes to their authors. Gives `ShownAsConfirmed`.

The other parts of `ReviewDeskProofs` are about what screens make of their data, however much it
is. The lists and tables that the loops of the code build are recursive functions;
`StepByStep` says, by a least counterexample over the naturals, that such a function has a value
everywhere and obeys its rule, `SameSteps` that two that obey one rule agree.

* `DiffTellsBoth`: the additions of a word diff read as the replacement, word for word, its
  deletions as the original but for the letters' form, and no two chunks of one type follow each
  other. It needs what a reader makes of one more chunk (`ReadAppend`), that merging words into
  chunks does not change what is read (`ReadAddWord`, `MergedAppend`), that the walk through the
  table is defined (`WalkDefined`, `WalkFollows`), and, for each cell of it, what
  the operations up to there tell (`Told`, `WalkTells`).
* `DiffKeepsMost`: no pairing of equal words, in order, has more pairs than the diff keeps words. A
  pairing without its last pair is one of an earlier cell, so the table counts at least as many
  (`TableIsMost`), and the walk keeps as many words as the table counts (`WalkKeeps`).
* `CardTellsWhatIsSent` carries the first over to the cards: accepting is offered exactly when it
  sends something; a card that shows a change reads as what is sent, but for the heading,
  and as the text it is compared with; and one that shows none has none to show.
* `ProfileSettles`: after any course of events the profile's form is in `Settled`, which says what
  `FormSettles` and the first half of `PasswordsAgree` do.

Only model-checked: `Progress`, `Delivered`, `JobsEndOrLost`, `CallsEnd`, `ScreenResolves`,
`RetryPollEnds` and `Converges`, for liveness is outside what the prover does; of the first,
the third, the fourth and the fifth the safety halves are proved (`NeverStranded`, `StuckByFaults`,
`NobodyForgotten`, `NeverGrey`), and what is left is that whoever can take the next step
does. The assumptions about pure functions are evaluated for the bounded inputs TLC enumerates; of
those, `DiffIsFaithful`, `ChunksAreMerged`, `CardsAreHonest` and `FormSettles` have the theorems
above beside them. No module uses recursive operators. Induction is available for recursive
functions over the naturals only; `HistoryGroups` of `Listings` is a fold, whose operator
argument no prover here can instantiate.

## 6. What the models leave out

The contents of outputs (but for the ids of findings and what they say), prompts and
documents; wording, styles and layout; in the frontend, several suggestions and clauses on
one page, roles, and the late navigation of the retry button that the contract's own page has; the number of seconds of anything; other runs (a claim locks
rows of its own run, and the runs share workers only); migrations; PostgreSQL's deadlock
detection between run row and event row (planned, section 2, item 10).
