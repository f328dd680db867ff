# A TLA+ verification project for FluxSwarm

FluxSwarm sells launches of an agent squad: an account pays one credit, a board
of agent tasks is created, a driver thread works the board to an end and settles
the credit.  The server is one FastAPI process with many threads (request
handlers, one driver thread per launch, a reaper), a user database (SQLite in
`db.py` or PostgreSQL in `db_postgres.py`, the same operations), one `kanban.db`
per board written by the server and by the external `hermes` CLI and its
workers, and optionally a PostgreSQL mirror of the boards.  No lock spans two of
these; most properties here are about what may happen between two transactions.

All paths below are relative to `src/backend/`.

## 1. Inventory

| Component | State | Operations | Hard behaviour | What makes it correct | Module |
|---|---|---|---|---|---|
| Launch credit and settlement (`main.py`, `db.py`) | `users.credits`; project row (`launch_status`, `launch_refunded`) | create project, finalize, reopen, manual dispatch, resume at start | handler, driver, reaper and reopening interleave; a crash between refund and flag; calls that raise | a credit is spent once and returned at most once; the row agrees with the credit; every launch is settled | `LaunchLedger`, `LaunchCredit` |
| Swarm of a fat host (`hermes_client.py`, `main.py`) | tasks with pids and heartbeats, worker processes, seal marker | dispatch pass, cleanup, seal, kill stale, promote, reap | CLI, workers and three threads write; check-then-act on rows, pids and seal | a sealed board stays quiet; done stays done; the driver ends | `SwarmBoard` |
| Thin driver and builder (`main.py`, `demo_llm.py`) | task rows, workspace documents, the page, notes | drive a lane, rebuild, patch, verify, resume | failed calls, loops that go by an old report, death between two commits | what is reported is what was delivered; calls are bounded | `ThinPipeline`, `WebPage` |
| Document gates, budgets (`demo_llm.py`, `evidence_gate.py`, `project_analyzer.py`) | none | validate, audit, split, snapshot, export | case analysis over free text | no flaw unnoted, no line lost, no cut untold | `DocGates`, `Snapshot` |
| Board mirror (`board_store.py`) | mirror tables in PostgreSQL | snapshot, purge, restore missing | snapshots read at several moments, written out of order; wiped disk | a restored board is one the board was; a deleted one stays deleted | `BoardMirror` |
| Reaper and demo sweep (`main.py`) | none of its own | check, park, promote, dispatch; seal and delete demo boards | races the finalizer, the driver and the mirror | it undoes no settlement; every demo board goes | `LaunchLedger`, `SwarmBoard`, `BoardMirror` |
| Provider breaker, pool, demo quotas (`provider_guard.py`, `provider.py`, `ratelimit.py`, `db.py`) | breakers, rotation cursor, limiter windows, daily bucket, usage rows | pick, probe, record, check, bump, record usage | parallel probes, late answers, test and record apart, restart, Redis or memory | back-off is honoured, a healthy provider is found, no cap is passed | `DemoPool`, `ProviderCircuit` |
| Payments, webhooks, referrals (`payments.py`, `main.py`, `db.py`) | payment events, plan, credits, referral claims | webhook, subscribe, upgrade, downgrade, reward | redelivered, reordered events; crash between record and grant; absolute balance writes | each payment is granted once; a friend is rewarded once; no credit is lost | `Payments` |
| Sessions, passwords, lockout (`auth.py`, `db.py`, `main.py`) | account row, reset rows, tokens in circulation, failures | log in, log out, change, reset | stale reads, two redemptions at once, whole seconds | a logout ends what came before it; a password set stays | `Sessions` |
| Erasure and review (`db.py`, `main.py`, `vault.py`) | the account's rows by kind, `byok.json` | erase, request, resolve | a dozen tables in two engines, requests in flight | all or nothing, and nobody else's keys | `Erasure` |
| Pairing and Telegram bot (`db.py`, `telegram_bot.py`) | codes, links, credits | issue, redeem, unlink, launch | crossing requests, bot that dies | one chat per account, a code once, boards are paid for | `Pairing` |
| Marketplace, custom agents (`db.py`, `main.py`) | templates, purchases, credits, agents | publish, buy, refund, add agent | launch fails after the sale; the author spent or left | no credit appears or vanishes | `Market` |
| Server lock (`serverlock.py`) | lock file, its flock or its pid | acquire, release | unlink races | at most one server, and never none for good | `ServerLock` |
| Sandbox and runtime (`hermes_docker.py`, `hermes_client.py`) | containers, settings | dispatch in a container; choose provider and key | time-out, `rm -f` that fails | no container is left; who pays is who should | `Sandbox` |
| Vault, rotation, backup (`vault.py`, `kms_client.py`, `backup.py`) | key files, `byok.json`, `users.db`, archives | seal, open, rotate, back up, restore | files copied at different moments | a key opens, for its owner | `Vault` |
| Audit trail (`audit.py`) | `audit.jsonl` and its numbered files | append, rotate, compress | threads rotate one after the other | order and age are kept | `AuditLog` |
| Files of a user (`main.py`, `hermes_client.py`) | staging, attachments, workspace copies, goal and `TASK.md`, analysis | stage, attach, upload, delete, edit | two copies written one after the other, a launch that consumes a directory | one board per file, copies agree | `UserFiles` |
| Live sockets (`main.py`) | `_SUBS`, `_SUBS_USER` | connect, stream, leave | ends at any await | a slot is held while it streams | `LiveView` |

`PROJECT.json` lists every component with its status, and under `hazards` each
place where the code is hard to test.

### How the components interact

`api_create_project` debits the account, builds the board, records the project
row and starts the driver.  On a host with the `hermes` runtime ("fat") the
driver `_bg_dispatch` loops over CLI passes that spawn worker processes; on one
without ("thin") `_bg_thin_project` runs the lanes itself, in order, each a
completion that is validated, written into the workspace and mirrored.  Both end
in `_finalize_launch`, which reads the row, asks the board whether any agent task
is done, returns the credit if none is, writes the outcome and seals the board.
`api_reopen_project` and `api_dispatch` may work on the same board from another
request; on a fat host the reaper sweeps all boards every few seconds; on a thin
host a start of the process restores missing boards from the mirror and resumes
unfinished launches, and a sweep deletes expired demo boards.  Payments,
referrals, the marketplace and the bot change the same `users.credits`.  A launch
reads the provider keys of the vault, takes the staged files and the analysis,
and runs the CLI in a container where one is configured.

The modules meet at these places: `LaunchLedger` keeps of a board what its credit
depends on (`final`, done, sealed) and `SwarmBoard` keeps of the ledger only
`final`; `ThinPipeline` has the lanes `LaunchLedger` counts, with their documents;
`BoardMirror` has the driver at the level of lanes and adds disks and the mirror;
`DemoPool` extends `ProviderCircuit`; `ThinPipeline` extends `WebPage`, and
`DocGates` shares its pages.  `Payments`, `Market` and `Pairing` each keep the
credits they move, by relative updates that commute with each other's.

## 2. Plan

1. `LaunchCredit` (abstract) and `LaunchLedger` (detailed), with proofs. Done.
2. `Payments`, with proofs. Done.
3. `SwarmBoard`, `BoardMirror`, `ThinPipeline` with `WebPage` and `DocGates`. Done.
4. `DemoPool` with `ProviderCircuit`; `Sessions`, `Erasure`, `Pairing`, `Market`. Done.
5. `ServerLock`, `Sandbox`, `Vault`, `AuditLog`, `UserFiles`, `LiveView`, `Snapshot`. Done.
6. Proofs of the launch ledger, the payments, the swarm, the mirror, the thin
   driver, the account's modules and all the modules of the host
   (`*Proofs` modules, section 5). Done.
7. `FiniteSums`, and with it the conservation of credits in the ledger, the
   payments and the market. Done.
8. `PoolProofs` (picking, quotas, ledger) and the gates in `DriverProofs`, for
   documents of any size. Done.
9. Left, composition: `Market` with `LaunchLedger` (the finalizer of a bought
   board returns a credit nobody was charged).

No module declares a RECURSIVE operator, so each can be proved about.  Theorems stand in modules of their own, one per
component or group of small ones, that extend the modules they speak of.

## 3. What is modelled

Each section names the state and what its abstraction leaves out; the table says
which definitions stand for which code.  Definitions not in a table are groups of
variables, types, the next-state relation and properties.

### LaunchLedger

One launch is one board slug with its project row.  Its actors are the thread of
the creating request (`reqPc`), the driver thread (`drvPc`, locals in `drv`), a
reopening request (`reopen`), a manual dispatch (`api`); the reaper is shared.
Each action is one transaction on the user database or on `kanban.db`.
`bought`, `produced`, `refunds` and `delivered` are history: they record what
happened and no guard reads them.

Abstractions.  Lanes are the squad's lanes; custom-agent lanes and the builder's
repairs are in `ThinPipeline`, pids and the steps of a seal in `SwarmBoard`, a
lost disk in `BoardMirror`.  Accounts that opted out of AI launches are never
charged and are left out.  Killing a worker is best effort, so no worker here
owes a step.  SQLite and PostgreSQL implement the credit operations with the same
row atomicity, so one model stands for both.

| Code | Definitions |
|---|---|
| `init_db` db.py:64 | `Init` |
| `board_has_completed_work` hermes_client.py:1865 | `HasCompletedWork` |
| `board_has_unfinished_work` hermes_client.py:1890 | `HasUnfinishedWork` |
| `_board_finalized` main.py:1454 | `BoardFinalized` |
| `list_tasks` hermes_client.py:1771 | `Queued` |
| hermes kanban dispatch: spawns workers for ready tasks (external) | `Spawned` |
| `add_credits` db.py:699 | `AddCredits` |
| `deduct_credit` db.py:626 | `CreateDebit` |
| `launch_project_thin` hermes_client.py:1048 | `CreateLaunch` |
| `api_create_project` main.py:3080 | `CreateLaunchFails`, `CreateRaises` |
| `add_project` db.py:408 | `CreateRecord` |
| `_fire_dispatch` main.py:903 | `CreateFire` |
| hermes worker process: completes its task (external) | `WorkerDone` |
| hermes dispatcher: parks a task whose worker crashed past its retry limit (external) | `WorkerBlocked` |
| `_bg_dispatch` main.py:751 | `GoFinalize`, `DriveRaises` |
| `dispatch` hermes_client.py:1655 | `DrivePass`, `DriveConverges`, `DriveGivesUp`, `ApiPass`, `ApiEnds` |
| `_bg_thin_project` main.py:1172 | `ThinStart`, `ThinSkip`, `ThinComplete`, `ThinConverges` |
| `_thin_runtime` main.py:922 | `ThinNoRuntime` |
| `thin_execute._claim` hermes_client.py:1206 | `ThinClaim` |
| `_demo_fail_lane` hermes_client.py:1129 | `ThinFail` |
| `_finalize_launch` main.py:828 | `FinRead`, `FinWork`, `FinAborts` |
| `refund_launch_credit` db.py:461 | `FinRefund` |
| `set_launch_outcome` db.py:440 | `FinWrite` |
| `seal_board` hermes_client.py:1543 | `FinSeal` |
| `api_reopen_project` main.py:3873 | `ReopenRead`, `ReopenWrite` |
| `unseal_board` hermes_client.py:914 | `ReopenUnseal` |
| `api_dispatch` main.py:3809 | `ApiDispatch` |
| `_reconcile_boards_once` main.py:1610 | `ReaperCheck`, `ReaperPass` |
| `_resume_restored_thin_boards` main.py:1552 | `Resumable` |
| `_lifespan` main.py:73 | `CrashRestart` |

### LaunchCredit

The promise without threads: a credit charged for a launch is either kept, when
the launch is delivered, or returned once.  `LaunchLedger` maps to it by
`CreditStage`, which is computed from the owner, the refunds and the outcome.

### Payments

The gateway has sent a set of events (`sent`) and may deliver each any number of
times, in any order, to any free webhook worker, until it is answered (`acked`).
A worker carries its event through the steps of `_process_paddle_payload`; other
threads change the same `users` row: a switch to the free plan, launches and
their refunds.  Each action is one statement, or one transaction where the code
opens one.  `granted`, `earned` and `bonuses` are history.

Abstractions.  A transaction has one payment event and at most one refund event;
its payer and pack are constants.  Signature and rate limit only reject
deliveries, which then do not count.  Events of other kinds are recorded and
change nothing else.  The webhook handler runs on the event loop, so one process
serves one event at a time; two workers are two server processes on one database,
or a process and the sandbox endpoint, which runs in a thread.  `Exclusive`
chooses the store: SQLite rewards inside `BEGIN IMMEDIATE`, PostgreSQL locks the
pending referral row (`Locked`) and reads the referrer's balance without a lock.
`InOrder` says whether the gateway may deliver a refund before its payment was
answered.

| Code | Definitions |
|---|---|
| `create_user` db.py:314 | `Init` |
| Paddle: transaction.completed (external) | `Send` |
| Paddle: adjustment.created of a refund or chargeback (external) | `SendRefund` |
| `PaddleGateway.handle_webhook` payments.py:287 | `PaidEvent`, `RefundEvent`, `Deliver` |
| `record_payment_event` db.py:749 | `Record` |
| `_process_paddle_payload` main.py:4063 | `Incomplete`, `NoReward`, `Raises` |
| `add_credits` db.py:699 | `GrantTopup` |
| `upgrade_plan` db.py:715 | `Larger`, `UpgradeRead`, `UpgradeWrite` |
| `payment_user_by_txn` db.py:766 | `LookUp` |
| `downgrade_subscription` db.py:732 | `Revoke` |
| `reward_referrer_once` db.py:643 | `RewardOf`, `Paid`, `Rewarded`, `RewardExclusive` |
| `_reward_referrer_once` db_postgres.py:571 | `Locked`, `ClaimRead`, `ClaimWrite` |
| `api_payments_webhook` main.py:4053 | `Answer` |
| `api_subscribe` main.py:3985 | `SwitchRead`, `SwitchWrite` |
| `deduct_credit` db.py:626 | `Launch` |
| `refund_launch_credit` db.py:461 | `Return` |
| `_lifespan` main.py:73 | `CrashRestart` |

### SwarmBoard

One board of a fat host at the level of processes.  `row` holds status, recorded
pid and age of the heartbeat of each task, `alive` the processes; `thread` the
locals of the two threads that may be in `dispatch()` (the launch's and a manual
one), `reaper` those of the sweep; `final` and `sealed` the two markers.  The
passes of the CLI and its workers are external: a pass takes back the rows of
dead workers, readies tasks whose parents are done and spawns up to the budget.
The root task, complete from the start, is left out.  `crossed` is history: a thread acted on a row, a pid
or a marker that had changed since it read it.  The code holds no lock there, so
`QuietSealIsFinal`, `WorkersAreRecorded`, `DoneKept` and `CorpsesCleared` are about behaviours
where nothing crossed, and each crossing is a reachable state (section 4).

Left out: the growing pause of `_reaper_loop` after an error, which only delays a
round, and the copy of a board made by `launch_from_template`.

| Code | Definitions |
|---|---|
| `launch_swarm` hermes_client.py:545 | `SwarmInit` |
| `dispatch` hermes_client.py:1654 | `Terminal`, `FirstPass`, `Unchanged`, `Look`, `Converges`, `Wake`, `Expires`, `Raises` |
| `_list_tasks_from_db` hermes_client.py:1771 | `States` |
| `list_tasks` hermes_client.py:1842 | `StateOf` |
| `read_worker_pids` hermes_client.py:1501 | `Recorded` |
| `_board_activity_sig` hermes_client.py:1272 | `BoardStale` |
| hermes kanban dispatch: reclaims dead workers, readies and spawns tasks (external) | `Pass` |
| hermes kanban dispatch: the tasks one pass may start (external) | `Startable` |
| hermes kanban dispatch: the pid column a started worker leaves (external) | `PidOf` |
| hermes kanban dispatch: the rows one pass leaves (external) | `Passed` |
| hermes kanban dispatch: one pass for one choice of the tasks it starts (external) | `PassWith` |
| hermes kanban promote (external) | `Promote` |
| a hermes worker's heartbeat (external) | `Beat` |
| a hermes worker completes its task (external) | `Finish` |
| a hermes worker's process ends (external) | `Die` |
| the clock (external) | `Tick` |
| `api_dispatch` main.py:3810 | `ApiDispatch` |
| `_bg_dispatch` main.py:773 | `FirstPassFails` |
| `_cleanup_board_workers` hermes_client.py:1521 | `CleanupBoardWorkers`, `CleanupKills` |
| `kill_process_tree` hermes_client.py:1466 | `KillProcessTree` |
| `_finalize_launch` main.py:846 | `Record` |
| `seal_board` hermes_client.py:1543 | `SealRead`, `SealKill`, `SealSelect`, `Parked`, `SealPark`, `SealMark` |
| `_reconcile_boards_once` main.py:1612 | `ReaperCheck`, `ReaperPass` |
| `kill_stale_workers` hermes_client.py:1963 | `KillStaleSelect`, `KillStaleWorkers` |
| `bump_blocked_to_ready` hermes_client.py:1926 | `BumpBlockedToReady`, `BumpPromotes` |
| `board_has_unfinished_work` hermes_client.py:1890 | `BumpDone` |

### ThinPipeline and WebPage

The thread of a thin host: `task` is the board's row of each lane, `docs` what
the workspace holds, `page` index.html, `notes` and `gate` what was posted,
`seen` the page as the thread last audited it, `evidence` the report it goes by.
A completion is a draft of `Drafts`, a patch adds tails or blocks of sections.
`swallowed` (a call failed and the thread went on), `stale` (a patch wrote the
page and the thread did not audit it) and `halfBuilt` (the host died between the
builder's completion and its end) are history, read by properties only.
The lanes come in the order of the list in `_bg_thin_project` (`LaneOrder`); a
squad may lack some, never the reviewer or the builder.
`web` and `webGoal` are the two readings of the goal, the evidence gate's
(`_web_goal`) and the builder's (`deliverable_filename`), which may differ.
`WebPage` is the page as the web QA (`web_qa_issues`, `web_artifact_needs_repair`) and the patches see it: which
sections are missing, a shell or full, what the nav links to, whether it is cut,
the other defects the QA tells apart (`Defects`), its device basics and the
places where the device patch can put them (`room`).

| Code | Definitions |
|---|---|
| `_bg_thin_project` main.py:1196 | `LaneOrder`, `Validated`, `PipelineInit`, `ReasonOf`, `Begin`, `SkipLane`, `EnterLane`, `EnterBuilder`, `AfterLane`, `AfterCustom`, `Converge`, `DriveFails` |
| `_REQUIRED_ARTIFACTS` evidence_gate.py:80 | `RequiredArtifacts` |
| `_run_builder` main.py:2406 | `RebuildRounds`, `FillRounds`, `Start`, `AfterBuild`, `Rebuild`, `AppendMissingTail`, `Asked`, `AppendMissingContent`, `ReconcilePlan`, `AfterBuilder` |
| `collect_evidence` evidence_gate.py:85 | `Verdict` |
| `thin_execute` hermes_client.py:1209 | `Claim`, `GivenUp`, `Complete` |
| `_demo_drive` main.py:2547 | `Driven` |
| `_call_with_retries` demo_llm.py:156 | `CallWithRetries` |
| `_demo_fail_lane` hermes_client.py:1129 | `PostFails` |
| `completion` demo_llm.py:196 | `Documents` |
| `_record_plan_validation_note` main.py:1001 | `ExecutableDoc`, `RecordValidationNote` |
| `_resume_restored_thin_boards` main.py:1552 | `Resumable` |
| `plan_promised_ids` demo_llm.py:962 | `Promised` |
| `_append_missing_tail` main.py:2064 | `AfterTail`, `Continued`, `TailContinues` |
| `_append_missing_content` main.py:2203 | `Filled`, `AfterFill` |
| `_plan_nav_patch` main.py:2315 | `PlanNavPatch` |
| `_anchor_patch` main.py:2134 | `Remapped`, `Dangling`, `AnchorPatch`, `AfterNav` |
| `_device_meta_patch` main.py:2272 | `DeviceMetaPatch` |
| the host process (external) | `HostDies` |

| Code | Definitions |
|---|---|
| `web_qa_issues` demo_llm.py:721 | `Page`, `Structure`, `Defects`, `Basics`, `HollowNeed`, `WebQaIssues` |
| `_element_content_len` demo_llm.py:887 | `Elements` |
| `web_section_ids` demo_llm.py:1257 | `WebSectionIds` |
| `web_content_gap` demo_llm.py:901 | `Full`, `WebContentGap` |
| `web_artifact_needs_repair` demo_llm.py:653 | `WebArtifactNeedsRepair` |
| `_HARD_QA_PREFIXES` demo_llm.py:1340 | `Hard` |
| `web_content_issue` demo_llm.py:914 | `WebContentIssue` |
| `web_anchor_issues` demo_llm.py:1271 | `WebAnchorIssues` |
| `web_qa_structural_repair` demo_llm.py:1278 | `WebQaStructuralRepair` |
| `only_anchor_issues` demo_llm.py:1288 | `OnlyAnchorIssues` |
| `web_qa_should_repair` demo_llm.py:1354 | `WebQaShouldRepair` |
| `web_deliverable_score` demo_llm.py:1296 | `WebDeliverableScore` |
| `plan_content_missing` demo_llm.py:969 | `PlanContentMissing` |
| `builder_executable_issues` demo_llm.py:1369 | `BuilderExecutableIssues` |
| `_run_builder` main.py:2442 | `RebuildWanted` |

### DocGates and Snapshot

Pure functions with the contract each is held to.  A blueprint is a record of
lists of entries, an entry an object or a bare value with an id that is a text,
missing or a number; a pack is a sequence of marker and content lines; an archive
a sequence of members with kind, size and importance.

| Code | Definitions |
|---|---|
| `tdd_executable_issues` demo_llm.py:2003 | `Strict`, `TddExecutableIssues` |
| `deliverable_filename` demo_llm.py:1358 | `Artifact` |
| `_split_pack` main.py:2365 | `Replaced`, `Texts`, `SplitPack` |
| `parse_arch` demo_llm.py:1127 | `Blueprint` |
| `arch_section` demo_llm.py:1149 | `ArchSection` |
| `devops_section` demo_llm.py:1670 | `DevopsSection` |
| `tdd_section` demo_llm.py:1930 | `TddSection` |
| `review_section` demo_llm.py:2143 | `ReviewSection` |
| `design_section` demo_llm.py:2569 | `DesignSection` |
| `audit_section` demo_llm.py:2419 | `AuditSection` |
| `_record_architect_validation_note` main.py:1023 | `Unreadable` |
| `review_executable_issues` demo_llm.py:2196 | `Issues`, `ReviewExecutableIssues` |
| `arch_executable_issues` demo_llm.py:1184 | `ArchExecutableIssues` |
| `devops_executable_issues` demo_llm.py:1734 | `DevopsExecutableIssues` |
| `audit_executable_issues` demo_llm.py:2480 | `AuditExecutableIssues` |
| `design_executable_issues` demo_llm.py:2650 | `DesignExecutableIssues` |
| `_bg_thin_project` main.py:1326 | `ExecutableIssues` |
| `_record_plan_validation_note` main.py:1001 | `Noted` |
| `_id_entries` demo_llm.py:1016 | `PlanTask` |
| `plan_section` demo_llm.py:984 | `Plan` |
| `plan_executable_issues` demo_llm.py:1054 | `PlanExecutableIssues` |
| `_is_hard` demo_llm.py:2409 | `HardIn` |
| `_audit_contract` demo_llm.py:2346 | `GateStatus`, `AuditContract`, `AuditVerdict` |
| `split_artifact` demo_llm.py:1454 | `PackLine`, `PackStart`, `Opened`, `SplitLine`, `SplitArtifact` |

| Code | Definitions |
|---|---|
| `_PRIORITY_NAMES` project_analyzer.py:68 | `Member` |
| `extract_codebase_snapshot` project_analyzer.py:122 | `Scored`, `AddConfig`, `Taken`, `TakeMember`, `ExtractCodebaseSnapshot` |
| `_file_priority_score` project_analyzer.py:103 | `Selected` |
| `_attachments_ctx` main.py:1117 | `NameAttachment`, `AttachmentsCtx` |
| `_export_bundle` main.py:3530 | `BundleFile`, `ExportBundle` |
| `_task_activity_events` hermes_client.py:2101 | `ShowEvent`, `TaskActivityEvents` |
| `_attach_activity` hermes_client.py:2205 | `AttachActivity` |

### BoardMirror

`row` (project row and outcome), `disk` (directory, lanes, files, seal), `mirror`
(the same in PostgreSQL), `boot`, and one state per thread that works on the
board: driver, sweep, reopening, erasure.  `snap` is the snapshot each is taking:
three reads of the disk, of the tasks with their events, of the files and of the
seal, and one write, which may fail unheard (`CommitFails`).  The files of a lane
are the version of its output: 0 is none, and each write after the first, of a
repair, a patch, a split pack or a demo's copy, makes the next one.  A driver
that finished its builder's lane stays at the page (`driver.pc = "page"`), where
it may patch it, after the lane's snapshot, or have the lane driven again for a
repair, which takes the done row back; `narrow` is a repair that asks for one part of the page.  A restart keeps or
wipes the disk; the restore is the schema, the rows and the files, and may stop
between any two (`RestoreSchema`, `RestoreRows`, `RestoreFiles`), or fail.

History: `hist.torn` (a start died between a board's schema and the end of its
files), `parted` (two snapshots at once, or a restart cut a thread off before its
snapshot), `missed` (the last write of a snapshot failed), `removed` (the board
was deleted), `reopened`, `final` (deleted while nobody worked on it).
`MaxEvents` bounds together the restarts, the reopenings, the repairs and
patches of a page and the calls of PostgreSQL that fail.

Left out: a disk that cannot be written, the `EVIDENCE.md` of the reviewer (the
page's patches are the same case, a file written after a lane's snapshot), and
the lanes of custom agents (`ThinPipeline` has one).

| Code | Definitions |
|---|---|
| `launch_project_thin` hermes_client.py:1048 | `Init`, `Launch` |
| `_demo_insert_task` hermes_client.py:751 | `Status` |
| `_ensure_board_db` hermes_client.py:715 | `Blank` |
| `_demo_drive` main.py:2547 | `Builder`, `GiveUp`, `AllDriven` |
| `_demo_fail_lane` hermes_client.py:1129 | `Finished`, `Fail` |
| `thin_execute` hermes_client.py:1209 | `Written`, `Store`, `Connect`, `Mirroring`, `Claim`, `Produce`, `ProviderFails`, `Complete`, `CompleteRaises`, `LaneFails` |
| `_list_tasks_from_db` hermes_client.py:1771 | `HasRow` |
| `seal_board` hermes_client.py:1543 | `Park`, `Mark`, `SealMark` |
| `board_has_unfinished_work` hermes_client.py:1890 | `Unfinished` |
| `_snapshot_tasks` board_store.py:70 | `SnapshotTasks` |
| `_snapshot_files` board_store.py:100 | `SnapshotFiles` |
| `_seal_flag` board_store.py:123 | `SealFlag` |
| `snapshot_board` board_store.py:130 | `Commit`, `CommitFails`, `SnapshotStep` |
| `_bg_thin_project` main.py:1270 | `PassOver`, `Skipped` |
| `_run_builder` main.py:2421 | `Repair`, `PageLeft` |
| `_split_pack` main.py:2365 | `PatchPage` |
| `_finalize_launch` main.py:827 | `Finalize`, `SealPark` |
| `_demo_lifecycle_sweep` main.py:1514 | `SweepSees`, `SweepParks`, `SweepMarks`, `Tick` |
| `delete_demo_board` hermes_client.py:2022 | `Removed`, `Interrupted`, `DeleteDemoBoard`, `SweepPurges` |
| `purge_board` board_store.py:191 | `PurgeBoard` |
| `api_reopen_project` main.py:3874 | `Reopen`, `ReopenRow` |
| `unseal_board` hermes_client.py:914 | `Rearm` |
| `api_account_delete` main.py:5092 | `EraseRow` |
| `delete_boards` hermes_client.py:2309 | `DeleteBoards`, `ErasePurges` |
| `_lifespan` main.py:73 | `Restart`, `BootStep` |
| `_restore_kanban_db` board_store.py:216 | `RestoreSchema`, `RestoreRows` |
| `restore_missing_boards` board_store.py:250 | `RestoreFiles`, `RestoreFails` |
| `_resume_restored_thin_boards` main.py:1552 | `Resume` |

### DemoPool and ProviderCircuit

`circuit` is the breaker of each provider with the ticks left of its cooldown,
`cursor` the rotation, `hits` the limiter (memory: ages; Redis: counter and ttl),
`usage` the daily bucket, `rows` the usage ledger.  `req` is where each request
stands between the pick, its probes, the gates, the bump, the row and the
background drive.  Statuses of HTTP answers are classified as `provider.py` does.

| Code | Definitions |
|---|---|
| `_DEMO_LAST` main.py:290 | `Init` |
| `get_demo_provider` provider_pool.py:87 | `Entries`, `FallThrough` |
| `_next_index` provider_guard.py:295 | `Walk` |
| `pick_rotation` provider_guard.py:334 | `At`, `More`, `Skip`, `Probe`, `ProbeSucceeds`, `ProbeFails` |
| `api_demo_launch` main.py:1902 | `TurnAway`, `Resolved`, `PoolBlocked`, `KeyOf`, `Pass`, `Exceeds`, `BumpRead`, `SlugsNow` |
| `_keyed_entries` provider_pool.py:59 | `Arrive` |
| `budget_gate` provider_guard.py:457 | `BudgetGate` |
| `resolve_provider_key` provider_pool.py:124 | `Seen` |
| `capacity_report` provider_guard.py:400 | `CapacityReport` |
| `_DEMO_IP_MAX` main.py:291 | `MaxOf` |
| `_DEMO_IP_WINDOW` main.py:291 | `WindowOf` |
| `_Limiter.__init__` ratelimit.py:40 | `Counter` |
| `_Limiter.reset` ratelimit.py:50 | `FreshCounter` |
| `_prune` ratelimit.py:78 | `Count`, `OlderCounter` |
| `_Limiter.check` ratelimit.py:59 | `CheckMemory` |
| `_RedisLimiter.check` ratelimit.py:196 | `CheckIncr`, `CheckExpire`, `CheckUnreachable` |
| `bump_demo_usage` db.py:485 | `Bump` |
| `record_provider_usage` db.py:512 | `Record` |
| `update_provider_usage_outcome` db.py:538 | `OpenRows`, `Outcome` |
| `_demo_launch_background` main.py:2027 | `BuildRaises` |
| `_demo_drive` main.py:2548 | `DriveConverges`, `DriveRaises` |
| `_today` main.py:398 | `OtherDay`, `NewDay` |
| `ProviderCircuit` provider_guard.py:173 | `CrashRestart` |

| Code | Definitions |
|---|---|
| `classify_provider_error` provider_guard.py:82 | `Codes`, `ClassifyProviderError` |
| `ProviderStatus` provider.py:24 | `Response` |
| `check_provider_health` provider.py:92 | `CheckHealth` |
| `_status_code_for` provider_guard.py:366 | `CodeOrder`, `StatusCodeFor` |
| `ErrorClass.cooldownable` provider_guard.py:76 | `Transient` |
| `ErrorClass` provider_guard.py:47 | `ErrorClasses` |
| `_error_from_health` provider_guard.py:108 | `ErrorFromHealth` |
| `CircuitState` provider_guard.py:147 | `CircuitStates` |
| `ProviderCircuit` provider_guard.py:173 | `Circuit` |
| `breaker_for` provider_guard.py:274 | `FreshCircuit` |
| `pickable` provider_guard.py:186 | `Pickable` |
| `ProviderCircuit.pickable` provider_guard.py:189 | `Picked` |
| `record_success` provider_guard.py:210 | `RecordSuccess` |
| `ProviderCircuit.record_failure` provider_guard.py:226 | `OneMoreFail` |
| `record_failure` provider_guard.py:217 | `RecordFailure` |

### Sessions

One account.  `account` is its row (password, its scheme, the stamp of the last
logout), `sessions` the times of issue of tokens in circulation, `resets` the
reset rows, `failures` the limiter, `client` where each request stands.  SQLite
serialises a transaction; PostgreSQL has one step per statement, and columns in
whole seconds.  `ended`, `overlapped`, `chosen`, `minted`, `redeemed` are history.

| Code | Definitions |
|---|---|
| `init_db` db.py:68 | `SessionsInit` |
| `_token_session_ok` main.py:1720 | `TokenSessionOk` |
| `get_current_user` main.py:1749 | `CurrentUser` |
| `_Limiter._prune` ratelimit.py:78 | `InWindow` |
| `_Limiter.login_allowed` ratelimit.py:87 | `LoginAllowedMemory` |
| `_RedisLimiter.login_allowed` ratelimit.py:151 | `LoginAllowedRedis` |
| `_build` ratelimit.py:217 | `LoginAllowed` |
| `_Limiter.record_login_failure` ratelimit.py:94 | `RecordFailureMemory` |
| `_RedisLimiter._incr` ratelimit.py:142 | `RecordFailureRedis` |
| `api_login` main.py:2859 | `StartLogin`, `LoginFails` |
| `authenticate` db.py:366 | `Verify`, `Upgrade` |
| `_Limiter.clear_login_failures` ratelimit.py:98 | `ClearFailures` |
| `make_token` auth.py:59 | `MakeToken` |
| `api_logout` main.py:2917 | `StartLogout` |
| `mark_logged_out` db.py:1157 | `StampLogout`, `MarkLoggedOutSqlite` |
| `_mark_logged_out` db_postgres.py:1037 | `MarkLoggedOutPostgres` |
| `api_change_password` main.py:2933 | `StartChange` |
| `set_password` db.py:1186 | `SetPassword` |
| `consume_password_reset` db.py:1224 | `Purged`, `Live`, `ConsumeResetSqlite` |
| `create_password_reset` db.py:1201 | `Expired`, `Fresh`, `CreateResetSqlite` |
| `_create_password_reset` db_postgres.py:1070 | `CreateResetPostgres`, `IssueReset` |
| `api_reset` main.py:2987 | `Redeem` |
| `_consume_password_reset` db_postgres.py:1088 | `ConsumeResetPostgres`, `SelectReset`, `MarkReset` |
| `_Limiter.__init__` ratelimit.py:40 | `SessionsRestart` |

### Erasure

Rows by kind with the references between kinds, the keys of two accounts in
`byok.json` (whole-file read and write), requests in flight (`asked`), two
reviewers.  On SQLite the erasure is one transaction that a foreign key undoes,
on PostgreSQL each DELETE commits alone and one that is held back is skipped.  No
DELETE of either list meets a referral: it is given the account's id where the
column holds its code.  `late` and `crossed` are history.

| Code | Definitions |
|---|---|
| `init_db` db.py:68 | `RefersSqlite`, `ErasureInit` |
| `upgrade` 001_initial_schema.py:45 | `RefersPostgres` |
| `upgrade` 004_add_admt.py:41 | `Cascades` |
| `get_current_user` main.py:1749 | `Ask` |
| `record_admt_notice_ack` db.py:1039 | `Insert` |
| `agree_provider` db.py:971 | `AddRow` |
| `api_request_human_review` main.py:4960 | `RequestReview` |
| `buy_template` db.py:1357 | `Sell` |
| `create_user` db.py:329 | `Refer` |
| `get_human_review` db.py:1106 | `OpenReview` |
| `api_admin_update_review` main.py:5005 | `Verdict`, `UpdateHumanReview` |
| `_load` vault.py:92 | `LoadVault` |
| `set_user_key` vault.py:104 | `SaveVault` |
| `api_account_delete` main.py:5092 | `StartErasure`, `AnswerErasure` |
| `delete_user_key` vault.py:136 | `LoadForErasure`, `DeleteUserKey` |
| `delete_user` db.py:937 | `OrderSqlite`, `HeldBack`, `DeleteUserSqlite` |
| `_delete_user` db_postgres.py:832 | `OrderPostgres`, `DeleteUserPostgres` |
| `_conn` db.py:58 | `AnyHeldBack` |

### Pairing

Codes with their expiry, links with the chat as primary key, credits, updates in
the order Telegram holds them, and the bot, which handles one at a time.

| Code | Definitions |
|---|---|
| `init_db` db.py:134 | `PairingInit` |
| `consume_telegram_link_code` db.py:836 | `Dead`, `ConsumeCode` |
| `new_telegram_link_code` db.py:802 | `PurgedCodes`, `Active`, `FreshCode`, `NewCodeSqlite` |
| `_new_telegram_link_code` db_postgres.py:693 | `PurgeCodes`, `LookForCode`, `InsertCode` |
| `api_telegram_unlink` main.py:5140 | `Unlink` |
| python-telegram-bot: long polling (external) | `Receive` |
| `handle_goal` telegram_bot.py:139 | `Take` |
| `deduct_credit` db.py:626 | `Deduct` |
| `_run_for_user` telegram_bot.py:87 | `Announce`, `LaunchRuns`, `LaunchFails`, `PollEnds` |
| `main` telegram_bot.py:177 | `BotFails` |

### Market

Balances, prices, purchases, the burst guard and custom agents; a purchase and
its refund are a transaction each, the launch lies between them.  A member may
leave at any point, also with a purchase in flight (`wiped`, `gone`); the credits
are counted while nobody has.

| Code | Definitions |
|---|---|
| `_validate_template` main.py:5195 | `Publish` |
| `delete_user` db.py:945 | `Authored`, `SoldByIt`, `Leave` |
| `buy_template` db.py:1334 | `AuthorEarn`, `BuyTemplate`, `BuyRaises` |
| `api_buy_template` main.py:5251 | `StartBuy`, `BuyLaunches`, `BuyLaunchRaises` |
| `_Limiter.purchase_allowed` ratelimit.py:122 | `PurchaseAllowed` |
| `_Limiter.record_purchase` ratelimit.py:128 | `RecordPurchase` |
| `_RedisLimiter.purchase_allowed` ratelimit.py:188 | `Forget` |
| `_buy_template` db_postgres.py:1150 | `Charge` |
| `refund_template_purchase` db.py:1368 | `Reverse`, `RefundSqlite` |
| `_refund_template_purchase` db_postgres.py:1179 | `RefundPostgres` |
| `deduct_credit` db.py:626 | `SpendElsewhere` |
| `api_create_custom_agent` main.py:5326 | `CountAgents` |
| `create_custom_agent` db.py:1294 | `AddAgent` |
| `api_delete_custom_agent` main.py:5352 | `DropAgent` |

### ServerLock

Three servers, the file the path names, the pid written in each file, the holder
of each flock.  `detached` and `torn` are history: a lock file was unlinked from
under another server; a server died between making its file and writing its pid.

| Code | Definitions |
|---|---|
| `LOCK` serverlock.py:18 | `LockInit` |
| `_pid_alive` serverlock.py:27 | `PidAlive` |
| `acquire` serverlock.py:70 | `Acquire`, `CreateLock`, `ReadStale`, `Reclaim` |
| `_acquire_flock` serverlock.py:46 | `OpenLock`, `Flock`, `WritePid` |
| `release` serverlock.py:101 | `CloseLock`, `UnlinkLock` |
| the kernel drops a process's flocks when it ends (external) | `Ends` |
| a server process dies (external) | `CrashServer` |

### Sandbox

`conf` are the settings of operator and user that choose the provider, `call`
each `run_dispatch`, `container` its container.

| Code | Definitions |
|---|---|
| `_operator_model_for` hermes_client.py:232 | `OperatorEnv`, `OperatorModelFor` |
| `_resolve_runtime` hermes_client.py:180 | `Pins`, `First` |
| `_user_provider_keys` main.py:3958 | `UserProviderKeys` |
| `_default_runtime` hermes_client.py:205 | `DefaultRuntime` |
| `_resolve_launch_runtime` hermes_client.py:254 | `ResolveLaunchRuntime` |
| `preflight_provider` hermes_client.py:284 | `PreflightProvider` |
| `_run` hermes_client.py:377 | `HostEnv`, `RunDispatch` |
| `sandbox_env` hermes_docker.py:162 | `SandboxEnv` |
| `RunnerSpec` hermes_docker.py:73 | `Idle` |
| `run_dispatch` hermes_docker.py:289 | `SandboxInit`, `SandboxStart`, `BoardMissing`, `RunReturns`, `RunTimesOut`, `Report` |
| `build_docker_args` hermes_docker.py:112 | `ContainerExits` |
| `_docker_rm_f` hermes_docker.py:194 | `DockerRmF` |
| `_PgAdvisoryLock` hermes_docker.py:204 | `ReleaseLock` |
| `copy_outcomes` hermes_docker.py:259 | `CopyOutcomes` |
| the backend process dies during a dispatch (external) | `DispatcherDies` |

### Vault

Key files, the keys a process has loaded, the blobs of `byok.json`, one for each
account and provider, with the key that opens each, the accounts by id, the
archives, and the operator's script in its steps.  `moved` says that
`FLUXSWARM_BYOK_STORE` has put the vault's file elsewhere: the server uses it
there, the scripts look in the data directory.  History: `unopened` and `misfiled`
are the stored keys, one by one, whose own key or whose account an operator's
step may have cost.

| Code | Definitions |
|---|---|
| `set_user_key` vault.py:104 | `Entries`, `SetUserKey` |
| `main` rotate_secrets.py:32 | `Stored`, `RotateCheck`, `RotateWrite` |
| `delete_user_key` vault.py:136 | `EntriesOf`, `EraseUser` |
| `VAULT_FILE` rotate_secrets.py:24 | `Beside` |
| `_load_kek` kms_client.py:171 | `Throwaway`, `KekOf` |
| `_STORE` vault.py:88 | `VaultInit` |
| `_load_key` vault.py:42 | `FernetOf`, `LoadKeys`, `LoadEphemeral` |
| `users` db.py:68 | `OpenAccount` |
| `get_user_key` vault.py:113 | `Opens` |
| `_binary_db_snapshot` backup.py:43 | `BackupDb` |
| `do_backup` backup.py:69 | `BackupStore` |
| `do_restore` backup.py:108 | `RestoreDb`, `RestoreStore`, `RestoreNoStore` |
| the server process stops (external) | `Stops` |
| the operator's script dies (external) | `ScriptDies` |
| the host's home directory is lost (external) | `HomeLost` |

### AuditLog

Records are numbered as they come; a file is the set of its records.

| Code | Definitions |
|---|---|
| `_lock` audit.py:14 | `AuditInit` |
| `audit` audit.py:115 | `AppendRecord` |
| the clock (external) | `MinutePasses` |
| `_maybe_rotate` audit.py:105 | `ReadClock`, `SetClock` |
| `rotate_audit_log` audit.py:73 | `CheckSize`, `Shift`, `Gzip` |

### UserFiles

Uploads and analyses are numbers.  The async handlers share the event loop and
give way at awaits (`loop`), the others run in threads.  The second write of a
request, the copy in the workspace or `TASK.md`, may fail and is then passed over,
and so may the removal of the staging directory.  History: `raced` are the uploads
two launches met, or one could not remove or save, `dropped` those removed without
being attached, `mixed` the files and goals two requests changed at once, `behind`
those of which the last request wrote one place only.

| Code | Definitions |
|---|---|
| `_stage_dir` main.py:3341 | `UserFilesInit` |
| `_sweep_stage` main.py:3366 | `Swept` |
| `_staged_total` main.py:3381 | `Present` |
| `api_list_staged` main.py:3445 | `ListStaged` |
| the clock passes the TTL of a staged file (external) | `StagedFileAges` |
| `api_stage_attachments` main.py:3397 | `StageAttachments`, `StageFile` |
| `api_remove_staged` main.py:3459 | `RemoveStaged` |
| `api_project_analyze` main.py:3189 | `AnalyzeProject` |
| the clock passes the TTL of the cached analysis (external) | `AnalysisAges` |
| `api_create_project` main.py:3047 | `LaunchBegins`, `TakeContext`, `LaunchSquad`, `LaunchFails`, `AddProject` |
| `_attach_staged` main.py:3479 | `AttachFile`, `ClearStaged` |
| `_seed_attachments_into_workspace` hermes_client.py:961 | `SeedAttachments` |
| `api_upload_attachment` main.py:3279 | `UploadAttachment` |
| `save_attachment` hermes_client.py:836 | `MirrorUpload` |
| `api_delete_attachment` main.py:3317 | `DeleteAttachment` |
| `delete_project_file` hermes_client.py:890 | `DeleteCopy` |
| `api_edit_project` main.py:3154 | `EditProject` |
| `update_project` db.py:420 | `UpdateProject` |
| `rewrite_project_objective` hermes_client.py:1002 | `RewriteObjective` |
| `_seed_project_workspace` hermes_client.py:987 | `EditTaskMd` |
| the backend process ends and starts again (external) | `HostRestarts` |

### LiveView

Sockets, the two registries and whether each user's session is still good.

| Code | Definitions |
|---|---|
| `_SUBS` main.py:241 | `LiveInit` |
| `ws_board` main.py:5385 | `Handshake`, `Register`, `SendTasks`, `Disconnects` |
| the viewer's session ends (external) | `SessionEnds` |

## 4. Runs

Each MC module gives small constants and, where a run looks at several components
that share no state, a variable `part` that says which of them a behaviour steps:
interleaving them would multiply states and show nothing more.

| Run | Instance | Shows |
|---|---|---|
| `LaunchFat` | fat host, 2 launches for 1 credit, 1 top-up, 1 restart, 1 fault, reaper | at most one refund, credits conserved, `LaunchCredit` implemented |
| `LaunchThin` | thin host, 1 launch of 2 lanes, 1 fault, 1 reopening, 1 manual dispatch | the refund flag never lies, delivered means every artifact exists |
| `LaunchLiveThin` | thin host, 2 launches of 3 lanes, no fault | the row agrees with the credit, no refund of a launch with work, every charge is settled |
| `LaunchThinCrash` | thin host, 1 restart | refunded twice (finding) |
| `PayTopups` | PostgreSQL, 2 top-ups of one referred friend, 2 workers, 1 launch, 1 restart, 1 fault | one grant per payment, every credit accounted for, one reward per friend |
| `PayLive` | SQLite, 2 plans of one friend, refunds, 1 launch, 1 switch of plan | an answered refund took its plan away, an answered payment was granted, every payment is granted in the end |
| `DemoPool` | 3 requests of one address, 2 providers, 1 restart, 1 fault | back-off honoured, a healthy provider found, caps and windows kept, ledger truthful |
| `BoardMirror` | 2 lanes, demo or project, 2 events: restarts with or without the disk, reopenings, repairs and patches of a finished page, failing calls of PostgreSQL | what is mirrored can be restored, deleted stays deleted, which finished lane is paid for again, every demo board goes |
| `Accounts` | `Sessions`, `Erasure`, `Pairing`, `Market` | sessions end, passwords stick, resets once; erasure all or nothing; one chat per account; credits conserved |
| `Drivers` | `ThinPipeline`, `SwarmBoard` with a worker's task and its verifier's, the gates on every small document | reports match deliveries, filled sections stay, a sealed board is quiet, gates keep their contracts |
| `SwarmLive` | 1 task, 2 processes, a manual dispatch or a failing call | the driver ends, dead workers leave the budget, done stays done |
| `Host` | `ServerLock`, `Sandbox`, `Vault`, `AuditLog`, `UserFiles`, `LiveView` | one server, no container left, keys open for their owners, the trail in order, copies agree, slots held |

An invariant that joins several promises (`SessionsKept`, `VaultKept`,
`MirrorKept`, ...) is a conjunction of named parts, each with its comment in the
module.

### Bounds

Two launches of one account are what it takes to race for a balance; lanes of
different launches do not interact, so one or two lanes suffice for the
distinctions none done / some done / all done (three where a skipped, a failed
and a later lane differ).  Every hazard of the ledger needs one restart, one
fault or one reopening, never two.  In `Payments` two transactions are what it
takes for two payments of one friend to meet; credits are small numbers chosen so
that a reward meets the cap.  In `DemoPool` three requests are one more than a
window allows, and limits, windows and back-offs are one or two ticks.  In
`BoardMirror` two events let a boot be cut short and the next one find what it
left, a repair be cut off by a restart, or a patch follow a snapshot that was
lost.  In `Accounts` two requests cross, a clock of four ticks of half a second
reaches past a whole second, and prices lie on both sides of either limit and of
an odd split.  In `Drivers` the six pages of `Some` are sound, cut, without a
section, empty, half filled and unstyled; the documents of the gates are all
those of up to three or four entries, `Pages` all pages of two sections.  In
`Host` three servers are what it takes for one to hold an unlinked file while two
others meet at the new one; two dispatches share a board; a trail of three
numbered files overflows; two Fernet keys, one account's keys for two providers and three scripts suffice
for an archive of two moments to be restored.
Each bound is a constant of its module (`MaxCrashes`, `MaxFaults`, `MaxReopens`,
`MaxDispatches`, `MaxTopups`, `MaxLaunches`, `MaxSwitches`, `MaxEvents`, `MaxRestarts`,
`MaxDeaths`, `MaxPids`, `MaxExtras`, `MaxTime`, `MaxAsked`, `MaxVerdicts`,
`PairTime`, `MaxUpdates`, `MaxBotFaults`, `MaxSpent`, `MaxMarketFaults`,
`MaxIds`, `MaxFernet`, `MaxKek`, `MaxScripts`, `MaxRecords`, `MaxUploads`,
`MaxAnalyses`, `MaxEdits`).

State constraints.  `Corners` (of `MCAccounts`, `MCDrivers`, `MCHost`) and
`Halves` (of `MCDemoPool`) keep apart what does not read each other within one
part: the lockout and the sessions, `byok.json` and the rows, two codes and the
bot's launches, analyses and edits and uploads, picking and gating; in `MCHost`
they also have one write of the files fail at a time, and keep the second
provider to the first account and a moved vault to two scripts.  In
`MCDrivers` it also keeps to one difficulty at a time on a thin host: a web goal
with sound documents, a death with a plan that promises nothing, retries of a
lane's call.  No liveness is checked under a constraint.

Deadlock.  `CHECK_DEADLOCK FALSE` stands in the runs whose system stops: launches
are finitely many and each thread ends; a board ends deleted; documents of the
gates and settings of the runtime have no steps; servers start once; uploads,
records and requests are bounded.  The two runs of `Payments` (an event may
always be delivered again), `DemoPool` and `SwarmLive` (the clock goes on) check
it.

### Fairness

`LaunchLedger`: a request thread, a driver thread and the finalizer that were
started run to their end; every wait in them is bounded (provider call and CLI
timeouts, the deadline of the dispatch loop).  Nothing is assumed of users,
workers, the reaper or restarts; liveness is therefore checked without restarts
or faults.  `Payments`: a webhook worker runs to the end of its request (weak
fairness of `Step`); the gateway delivers an event again until it is answered
with 200, so that a worker which is free again and again gets it in the end
(strong fairness of `Redeliver`).  Nothing is assumed of the gateway's order.
`BoardMirror`: weak fairness of the driver with its snapshot, of the boot and the
sweep with its snapshot, which are one thread after another, and of the clock;
nothing of reopenings and erasures.
`SwarmBoard`: of the clock, the launch's driver with its finalizer, and the
sweep, which the daemon thread repeats for ever; nothing of the manual dispatch,
of workers, which may hang, or of the CLI beyond its call.

### What the models also reach

These are states the code allows; the properties excuse them by name (a history
variable, a store, a bound of zero) and no run is spent on each.

* Ledger.  Reopening writes the row with the refund flag it read, so a refund in
  between is erased from it (main.py:3898), and a delivered launch that was
  reopened may be refunded after a restart (main.py:1572).  A launch whose first lane
  fails on a thin host, or whose lanes are all blocked on a fat one, keeps its
  credit (the failed lane is `done`, a blocked board is terminal with outcome ok).
  A resumed driver skips the lane that failed before the restart and records the
  launch as converged.
* Payments.  `upgrade_plan` reads a balance and writes an absolute one: a credit
  added in between is lost (db.py:725).  A process that dies between record and
  grant leaves a payment the redelivery takes for a duplicate (main.py:4076).
  With `InOrder` FALSE a refund handled first finds no account and the plan
  granted later stays, so each condition of `RefundsRevoke` (one worker, the order,
  no death and no raising call) is needed.  A refund takes the plan back and not
  the credits (db.py:735).  An event of another id whose status is `completed` is
  taken as a payment too (payments.py:329); one form of the event is modelled.  With two workers a duplicate is answered while the first
  delivery has not granted yet.  The referral cap bounds the balance held, so a
  referrer who spends goes on earning; on PostgreSQL two friends' rewards computed
  from one reading may pass it.
* Swarm.  A pass, a promotion or a reopening that looked at the markers before
  the seal wakes a sealed board (hermes_client.py:1939); a sweep that selected a
  row acts on it after a pass gave it to another worker.  A driver that converges
  on a board whose tasks are all parked, while the sweep promotes one of them,
  records the launch as ok and leaves the worker running: the reaper passes
  recorded boards over, and only one that did not converge is sealed.
* Thin driver.  A content patch that fills one of two gaps writes the page and
  reports failure; the plan's patch then goes by the earlier page and drops the
  section (main.py:2475).  After a death within the builder its patches are not
  taken up again.  A page the audit passes may be one the builder would build
  again: looks (the weights of `web_qa_issues`) and a leading code fence count for
  the builder's gate only.  With more than three gaps a patch asks for three
  (`gap[:3]`, main.py:2473), reports failure and the page is not audited again.
  The device patch adds nothing to a page without a head or a closing style tag
  and takes a print rule for a responsive one, so a complete page may lack its
  basics although the comment at main.py:2512-2515 has them put in on every
  page.  The gate (`_web_goal`) and the builder (`deliverable_filename`) may read
  the goal differently.  References to decisions of an architecture document are
  reported missing whatever they say (demo_llm.py:1184): `BlueprintNoted` has it
  as the code does.  The validators of the test plan, the review and the audit do
  not ask that decisions are present or that an id is concrete, which their
  docstrings name (demo_llm.py:2012, 2200, 2204, 2484, 2489).  A marker that names
  the primary file of a pack overwrites it (main.py:2388-2396).  Two prefixes of
  hard issues never match what is reported ("uses undefined CSS variable",
  demo_llm.py:1344-1351, and the evidence gate's "truncated page:").  A
  configuration file counts in full towards the snapshot's budget, also beyond the
  8000 characters of the summary (project_analyzer.py:186).
* Mirror.  A snapshot under way when a board is deleted brings its row back with
  the next boot; one that began earlier may be written later.  What is written
  after a lane's snapshot, a split pack, a patch of the page, a demo's copy, is in
  the mirror with the next one, which a demo does not have, so its restored page is
  the one before the patches.  A restart in the middle of a repair leaves the
  builder's row running, and the resumed driver drives the lane from the start.  A
  start that dies between the schema script, which commits, and the rows leaves an
  empty board that is no longer missing (board_store.py:223-245).  A snapshot whose
  write fails is lost without a word (board_store.py:187-188); a purge that fails
  leaves rows which the next start restores; a restore that fails, followed by a
  reopening, has the mirror overwritten with an empty board (hermes_client.py:954).
* Accounts.  On PostgreSQL a reset may be redeemed twice by requests at once, two
  codes of one user may be active, and tokens of the second of a logout stay
  good.  A request past its session check adds rows to an erased account.  The
  erasure leaves the referrals made with the account's code, on either database:
  the DELETE is given the user's id where the column holds the code (db.py:949, 960).  On
  PostgreSQL it leaves also what holds a DELETE back, which is skipped
  (db_postgres.py:850-854), and its list has no custom agents; it still answers that
  all is gone.  The docstring ("Permanently erase a user and all their rows",
  db.py:938) and the answer ("all associated data have been deleted",
  main.py:5111) say otherwise.
* Host.  A lock file unlinked by an exiting server from under the next one lets a
  third in (serverlock.py:110); without flock a file created and not yet written
  is never reclaimed.  An archive taken between two writes, a restore that stops
  half-way, one without `byok.json` and one from before a rotation cost keys or
  give them to the account that gets the id again.  The rotation looks for
  `byok.json` in the data directory (rotate_secrets.py:26), and so does the backup;
  with the vault moved by `FLUXSWARM_BYOK_STORE` (vault.py:89) a rotation does not
  refuse and costs the keys sealed under the old Fernet key, against its docstring.
  A staging directory that cannot be removed (`ignore_errors`, main.py:3499) is
  attached again by the next launch, although "every file attaches to exactly one
  build" (main.py:3484).  A `TASK.md` that cannot be written keeps the old goal
  (hermes_client.py:1027, whose answer main.py:3178 does not read), and a copy that
  cannot be removed stays for the agents (hermes_client.py:902-910).  Staged files that arrive
  while a launch consumes the directory go with it (main.py:3498).  A first file
  larger than the whole budget ends the snapshot (project_analyzer.py:177).

## 5. What is proved

Every theorem holds for all values of the constants that satisfy the module's
assumption; a condition that is not of the constants (`SingleRun`, `Calm`, ...) is
named in the theorem and explained here.  Each safety proof is one invariant that
is inductive, its three facts (it holds at the start, every step keeps it, it
implies the property) and a temporal step; it has a lemma per action or per part
where an action or a part needs more than its definition.

### The ledger of launches: `LaunchLedgerProofs`

For all sets of users and launches, any number of lanes and any bounds.

* `TypeCorrect`: balances stay natural numbers.  `TypeInv` adds to `TypeOK` that a
  launch past its debit has an owner (otherwise a refund would index no account)
  and that locals are in range where they are read.
* `FlagRefund`: a row marked refunded is a launch whose credit went back.
  `FlagInv` carries the fact through the finalizer: its local `refunded` is true
  only after the refund.
* `RefundOnce` and `LedgerImplementsPromise`, under `SingleRun == ~Thin \/
  MaxCrashes = 0`: a driver runs once per launch.  `OnceInv` relates the position
  of the request and of the driver to the number of refunds and to the outcome.
  The condition is necessary: `LaunchThinCrash` is the counterexample without it.
* `BooksAgreeUndisturbed`: until a call fails, the host restarts or a launch is
  reopened, the row of a launch that is over says what its credit says.
  `BooksInv` says at each place of the request and the driver which of the row,
  the local flag and the refund count is ahead of the others.
* `NoRefundOfWork`: on a thin host, under `ByDriverAlone` (undisturbed and not
  dispatched by hand), a credit goes back only where no lane produced anything.
  `WorkInv` relates the lanes the driver has passed to the answer of the question
  "is anything done" that the finalizer asks and then keeps.
* `OkMeansProduced`: on a thin host that was not restarted, whatever failed, a
  launch recorded as converged has every lane's artifact (`OkInv`).
* `CreditsKept`, whatever crashes, fails or is reopened: `BalanceInv` says that the
  balance is the initial credit and the top-ups, less one for each launch of the
  account that is charged and not yet returned; a step changes one term of that
  sum.  `UnaskedInv` adds that a launch nobody asked for is not charged.

### Payments: `PaymentsProofs`

For all accounts, transactions, packs, workers and bounds, on either store.

* `TypeCorrect`.  `TypeInv` adds `WorkInv`: a worker at a grant or at the reward
  carries a payment event, never a top-up where a plan is written, and one at
  `claim` an account with a referrer, so that no step indexes a price or a balance
  that does not exist.
* `PaymentGrantedOnce`: `GrantInv` says a grant implies a recorded event, and that
  of an event whose grant is still to come exactly one worker carries it; the
  uniqueness of `event_id` makes it inductive.
* `ReferralRewardedOnce`: `RewardInv` says two workers never claim one friend's
  row; on PostgreSQL that is what `FOR UPDATE SKIP LOCKED` is for.
* `AnsweredGranted` and `RefundsRevoke`, with one worker and until a call raises or
  the process dies (`Calm`), the second with a gateway that keeps the order.
  `AnswerInv` says that an event which is recorded is granted or in the worker's
  hands before its grant; `RevokeInv` says the same of the refund, and that no
  later event of the account is left that would give the plan back.  Section 4
  names the behaviours that the conditions exclude.
* `TopupsKept`, where only top-ups are sold (`TopupsOnly`, the catalogue of
  `PayTopups`) and until an account switches to the free plan (`NoSwitch`: the
  switch writes an absolute balance, section 4): `TallyInv` is the equation
  itself with the set of top-ups granted so far, which is finite and grows by one
  at a grant.

### The board mirror: `BoardMirrorProofs`

For every number of lanes, restarts, reopenings, repairs, patches and failed
calls of PostgreSQL, either kind of board.

* `MirrorSafe`, from `BoardInv`: where the threads may stand together
  (`PlaceInv`); the artifact of a done lane is on the disk before the lane is done
  and in a snapshot whenever the lane is (`ArtifactInv`: `snapshot_board` reads
  lanes before files, the driver writes files before lanes); the lanes behind a
  project's driver are finished in the mirror or in the snapshot it waits for,
  unless a write was lost (`BehindInv`), those ahead are unfinished (`AheadInv`)
  and lanes finish in their order (`OrderInv`), so that what a resumed driver passes over are
  the first ones; without a deletion a board without its `kanban.db` is one the
  disk lost (`LostInv`); while nothing is parted one thread snapshots at a time
  (`OneInv`), and a snapshot under way (`SnapAgrees`), like the mirror when there is
  none (`MirrorAgrees`), is the board but for what is due, the builder's output
  perhaps an older version of it (`AgreeInv`, with `HalfRestored` for a start that
  stands between the schema and the files).
* `QuietDeleteSafe`: `FinalInv` says that after such a deletion nobody is left who
  would write the directory or the rows.
* `DrivenOnce`: a step that takes a finished lane back to running is a repair, by
  the driver that has just built that page.  Every other lane is paid for once
  until the customer reopens the board.

### The thin driver: `DriverProofs`, first part

For every squad whose lanes come in the order of `_bg_thin_project` and include
the reviewer and the builder, every set of pages the provider may answer with,
and any number of retries, tails and deaths of the host.

* `PipelineSafe`: `DeliveryIsAsReported`.  `PipelineInv` says where the thread may
  stand (`WhereInv`), that the lanes behind it are done, those ahead are not and
  those an earlier thread drove are the first ones (`RowsInv`), that an error has
  a failed call behind it (`ErrorInv`), how many calls the builder has made at
  each stage (`CallsInv`), that the audit in hand is of the page as it is until a
  patch is not audited, and that past the anchor and device patches the page has
  what they could add (`PageInv`), that past the reviewer the report in hand is the
  verdict over the workspace as it is (`EvidenceInv`), and that the lanes behind
  the first thread are noted as their documents are (`NotesInv`).  The report is
  read once, at the reviewer, and documents are written after it: that none of
  these is one the verdict reads follows from the order of the lanes, which is
  why that order is in the assumption.
* `FilledStays`: a patch of the builder keeps each section that is filled, as long
  as the thread goes by the page as it is.

### Documents and budgets: `DriverProofs`, second part

For documents of any length, with any identifiers, texts and sizes; the bounds of
`Drivers` are gone.

* `EveryDocument` states each contract for every document, `GatesHold` that the
  document at hand keeps its own in every behaviour of the drivers.
* The gates are folds over sequences, and induction over sequences is out of
  reach (it takes the property as an operator).  Instead a law is the set of the
  sequences it holds of: if the empty one is in the set and the set is closed
  under `Append` it has them all, by the least length at which it would fail
  (`Induction`, `SequenceInduction`).  Each fold of the modules has two lemmas that
  make it usable there: what it is on a sequence with one more element (`WalkIsFold`
  relates the library's definition, which picks elements out of a set of indexes,
  to a walk from the left), and its value on the empty one.
* Packs (`PackOfAny`): `PackInv` says of the lines read so far which files exist
  (those a safe marker opened), that there is a parked part exactly when a marker
  was bad, and that up to one bad marker each part is a run of consecutive lines
  and the lengths of the parts add up to the lines that are no markers.  A second
  bad marker parks afresh and what the first one parked is gone, which is why
  `PackKept` says one; without any, every line is in the workspace but for a primary
  part that another part of its name replaces.
* `SnapshotOfAny`: what is taken is a prefix of the readable members by score, as
  long as the next one fits.  `UploadsOfAny`: an attachment that can be
  read is named, or told of.
  `BundleOfAny`: the total is within twice the limit, and a workspace within it is
  whole.  `ActivityOfAny`: the outcomes shown are those there were, heartbeats
  are a minute apart, and the last activity is no earlier than what is shown.
* `BlueprintOfAny`: each of the six validators is a set of issues that is empty
  exactly where its document is executable; `BlueprintNoted` names the two
  documents whose note the code gets wrong or never writes.  `PlanOfAny`: a plan
  without an issue is complete and traced both ways.
* `PassOfAny`: a page the audit passes is one the builder would build again only
  for its looks or a leading code fence, which the audit does not count, and for
  those it would.
  The audit counts flaws and the gate of the builder adds up a score; the proof
  bounds the score a page with a flaw can have (`IssueIs`, `StubScores`).

### A fat board: `DriverProofs`, third part

For every number of tasks, every order among them, every limit of the two
dispatchers and every bound.

* `SwarmSafe`: `QuietInv` holds while nothing `crossed`: each live worker is named
  by its row; a row the sweep selected still has the worker it had, or is over;
  the seal comes after the outcome; the pids it read cover the live workers, and
  after the kill there are none; what it is about to park is what is open.  The
  property speaks of a sealed board only; these are the states the seal goes
  through.
* `SwarmDone`: no step takes back a task that is done, though kill, park and
  promotion each act on a list read earlier.

### The demo's pool, quotas and ledger: `PoolProofs`

For any finite set of requests, any pool, addresses, limits, windows and
back-offs, in memory or in Redis, any answers of the probes, restarts and failed
calls.

* `HealthyIsServed`: `WalkInv` says that the entries a walk has passed are not
  those that answer every probe; the indexes of a walk meet every provider
  (`WalkMeets`, modular arithmetic), so a walk that has passed all of them is
  possible only if none answers.  The shared cursor may be moved by another
  request between two probes: a walk goes by the start it read.
* `BackoffIsHonoured`: `BackInv` says that the back-off still asked for (`wait`, a
  history variable that counts down) is the one the breaker keeps.
* `PoolSafe`, from `PoolInv`.  `DayInv`: the requests granted on a day and those
  about to count on it are at most what the bucket holds, although the increment
  and its comparison are two steps.  `GateInv`: in memory the hits of each age are
  at least the requests that passed with that age; in Redis, where the window
  starts with the first hit and the time to live is set in a step of its own, the
  count of a key is at least what passed since it began, and at most one request
  is on its way to set the time to live, which is then not set.  The ledger: the rows that report
  an outcome are at most the drives that ended so.

### Accounts: `AccountProofs`

* `PairingSafe`, for all users, chats and codes, either store: `PairInv` relates a
  code's row to the tick it was born at, says that a code still to be redeemed has
  not been, and that a credit is on the balance, in a board or with the bot.
* `ErasureSafe` and `ErasureWhole`, for every set of kinds of rows: an answered
  erasure leaves referrals only, on SQLite always and on PostgreSQL where the
  account's own row could go, which every row left refers to where it could not
  (`ErasedLeavesReferrals`).  `ErasureInv` adds that a statement in progress is one of the list, that until two writers of
  `byok.json` crossed one at a time holds what the file holds, and that a review is
  asked for once.
* `SessionsSafe`, for any finite set of requests, any granularity of the store's
  clock, any life of a token and limits: `SessInv` says on SQLite that a request
  about to write the time of a logout read it after the last one, that nobody
  writes an old password back unless a scheme is upgraded, that a row of a reset
  ends at the time its token was minted for, and counts the failures together
  with the logins past the limiter whose failure is not counted yet.

* `MarketSafe`, for any finite sets of buying threads and members, any templates,
  prices and limits, either engine.  `ShopInv` is `Balanced` (the equation of
  `MarketConserves` over the templates that have a price), `SoldIsKnown` (a
  template without a price has no rows), `RowsHeld` (as many rows of a template
  and a buyer as threads between that purchase and its end, so that a refund
  finds the row it takes back unless the buyer was erased),
  `ThreadInv` (nobody buys from himself) and `LimitsKept` (a limit counts
  the threads that passed it and are not recorded yet).  A refund is a sale read
  backwards (`SaleOf`), so one lemma on sums serves both.

### Sums over finite sets: `FiniteSums`

The conservation laws are sums (`MapThenSumSet`, `FoldSet`) over the launches, the
members or the templates.  The library's induction on finite sets takes the
property as an operator, which the provers cannot instantiate; the laws are
proved instead by a least counterexample: of the finite sets for which a law
fails one is minimal under inclusion (`LeastSet`, from the well-foundedness of
strict inclusion), and the recursion of the sum (`SumStep`) shows that a smaller
one fails too.  Stated are what the proofs need: the sum is a number, an element
may be taken out (`SumTake`) or put in (`SumGrow`), equal terms give equal sums
(`SumSame`), one term that changes by d changes the sum by d (`SumChange`), a sum
bounds the number of things its terms count (`SumCovers`, `SumWithin`).

### The host: `HostProofs`

* `LockSafe`, for any finite set of servers, with flock or without, but for a file
  unlinked from under a server and one whose maker died before it wrote its pid: with flock, who
  writes or serves holds the lock of its file (`FlockHeld`); without, a file is its
  maker's (`OwnFile`) and names it or is about to (`PidWritten`); until one is
  unlinked from under a server, the path names the file of every server that has
  one (`Attached`).
* `LiveSafe`, for any sockets, viewers, boards and caps: the slots are exactly the
  sockets that stream, in both registries.
* `AuditSafe`, for any number of writers and kept files: each file is older than
  the one before it, what is compressed or dropped is older than what is plain,
  and a compressed record is in one place.
* `SandboxSafe`, for any dispatches, retries and precedence of providers: `Knows`
  says what a dispatch in each phase knows of its container: that there is one
  from the run on, that it runs past the removal only after a time-out and all
  the tries, and that the code it reports is the container's.
* `VaultSafe`, for any people, providers, stores and archives: what is stored is
  sealed with a key that exists (`SealedInv`); a process that found a home has the
  keys that lie there, but for a Fernet key replaced since (`ProcessInv`); the keys
  not in doubt, in the vault, in each archive and in the hand of a script, open with
  the keys they were kept with (`OpenInv`); during a rotation nothing is sealed with
  the key about to be replaced (`RotateInv`); and each store is of the accounts of
  its database (`OwnerInv`).  Both what the next process opens and what the running
  one opens follow.
* `FilesSafe`, for any files, boards and limits, whichever second write fails: every
  upload has a number of its own (`Numbered`); what is staged while a launch
  consumes the directory is still on its list, attached or met by another
  (`Consumed`), and attached to one board (`AttachedOnce`); who saves or removes
  has already changed the store (`InHand`); an edit no other one met is of the goal
  in the row, and a board that is not launched has the seeded TASK.md or none
  (`Objectives`); an analysis is in the cache or with one launch (`Contexts`).

### What the proofs changed in the models

Proving found one error of the model: in `Erasure` the implication in the guard of
`LoadVault` took in the conjunct before it, so that a request for the other
account's key could load the file again in the middle of its write; no run showed
it.  `ServerLock` got the history variable `torn` and `SwarmBoard` names
for the parts of a pass; `ThinPipeline` and `Pairing` say of their constants what
the code says of them, and so do `Market` (there is a template), `Sandbox` (the precedence is a sequence of
providers, a removal is tried at least once) and `Vault` (there is a first Fernet
key).

For the proofs of the gates the filters of `Snapshot` and `DocGates` are folds
(the prover does not open `SelectSeq`), a pack is built with one function
constructor instead of `:>` and `@@`, and `Snapshot`, `WebPage` and `DemoPool`
say of their constants what the code has: limits that are numbers, finitely
many sections and requests.  `UNION` and `SUBSET` before a set difference carry
parentheses, because the checker and the prover read such a term differently
without them.

### Only model-checked

Liveness (`EverySettled`, `PaidIsGranted`, `DemoGoes`, `SwarmProgress`), which needs
fairness and ENABLED and is out of the prover's reach.  Every invariant and every
action property of the passing runs is the subject of a theorem.

## 6. Not modelled

* Static pages, the wording of prompts and notes, generated text beyond what the
  gates tell apart; the agent skills bundled under `deploy/`, which the program
  ships and does not run itself.
* The three cloud KMS clients (a network call in place of the key file), mail,
  monitoring, notifications, statistics, the support assistant and the
  integrations: nothing in the program reads them back to decide.
* Environment checks at start-up and the offline migration of the database.
* Deliberate reductions of what is modelled are under each module in section 3
  and in the notes of `PROJECT.json`.
