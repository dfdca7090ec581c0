# FoodDiary backend: TLA+ models, model checking and proofs

FoodDiary (`src/app`, FastAPI + SQLAlchemy + PostgreSQL) lets a user upload food
photos. Photos of a day and a meal form a *diary*; a background task asks a
language model which restaurant it was; a 60-second scheduler in every server
process retries what failed and recovers what a crash left behind; a silent push
tells the phone to reload. This directory holds TLA+ modules of the program, TLC
configurations that check them on small instances, and TLAPS proofs of all their
safety properties and of the refinement.

    tlc -workers 2 -config PipelineTimely.cfg MCAnalysisPipeline.tla
    tlapm AnalysisPipelineProofs.tla

## Inventory of the system

| Component (src/app) | State it keeps | Operations | What is hard |
|---|---|---|---|
| Analysis pipeline: `usecases/diary.py` 47-117 and 223-272, `crud/diary.py` 43-81 and 187-266 | `diaries.analysis_status`, `send_cnt`, `updated_at`, restaurant columns; `diary_analysis` rows; pushes sent | claim, analyse, save, revert, notify; sweep, list, dispatch, give up | a background run and every process's scheduler work on the same rows; each step is a transaction of its own; crashes between steps; late workers |
| Diary scheduler: `core/schedulers` | the PostgreSQL advisory lock; the list a tick works through | try lock, sweep, dispatch inline, unlock | overlap of processes, the lock's connection dying, exceptions in the middle of a tick |
| Diary photos: `usecases/diary.py` 325-457, `crud/photo.py`, `crud/diary.py` 104-122, 173-184 and 239-266, `utils/file_storage.py` | photo rows, `photo_count`, `cover_photo_id`, files on disk | upload into a diary, add, edit, delete, worker's save, account deletion | read-modify-write without locks, files that no rollback covers, counters kept beside rows |
| Batch upload: `usecases/photos.py`, `routers/photos.py`, `crud/diary.py` 13-40, `core/database.py` 17-33 | one session and one transaction for all files of a request | per file: classify, get or create the diary, save file and row; commit; answer | a failed flush spoils the session, two requests create one diary, long transactions wait for each other |
| Accounts and devices: `usecases/auth.py`, `usecases/device.py`, `usecases/user.py`, `crud/device.py`, `crud/user.py`, `services/oauth2.py`, `core/dependencies.py` | `users`, `devices` | login, registration of a device, token check, deletion of the account, choice of the device for a push | concurrent first logins, a device changing hands, access tokens that outlive their account |
| Schema start-up: `core/database.py`, `core/auto_migrations.py`, `scripts/init-db.sql` | the schema | split and run the script, compare it with the tables, add columns | statements that never close, several processes at once, one failing ALTER in a transaction of many |
| Time rules: `utils/timezone.py`, `utils/time_classifier.py` | none | Korean day to UTC and back, meal of an hour | day borders |
| Diary queries: `usecases/diary.py` 274-323 and 459-600, `crud/diary.py` 84-170, `routers/diaries.py` | none | list, calendar, one diary, suggestions | several SELECTs with commits of others in between; UTC rows for Korean days |
| Restaurant search and suggestions: `services/kakao_service.py`, `services/analysis_service.py`, `usecases/restaurant.py` | `diary_analysis.result` | nearby search with paging, keyword search, what is kept of a reply | a page that fails, fields that are null |
| Insights: `services/insights.py` | none | statistics of a month | borders of months and weeks |
| Language model, push sender, EXIF, tokens | none of their own | calls to services and libraries | outside the program |

How they interact: `POST /photos/batch-upload` commits diaries and photos, answers,
and leaves `analyze_and_notify` behind as a background task of the same process.
The scheduler of any process later finds whatever is still `pending`, under one
advisory lock for all processes, and runs the same `_claim_and_analyze` inline.
The only thing that keeps two runs apart is the conditional UPDATE of
`claim_diary_for_processing`. A run ends in a push, whose device was chosen when
the run started and whose token is read when it ends; logins and registrations
move devices in between. PATCH and DELETE of the user, and the deletion of the
account, meet all of it in the same rows. Reads see the rows of all of them, one
SELECT at a time.

What makes the parts correct:

* pipeline: one analysis of a diary at a time; at most `MAX_SEND_CNT` of them;
  `failed` only after all attempts, `done` only with an analysis and never taken
  back; every live diary ends as done or failed whatever crashes;
* scheduler: one tick at a time over all processes; a failing tick does not stop
  later ones;
* photos: every row has its file; the counter covers the rows, so the limit
  holds; the cover is a photo of the diary; a deleted account leaves no files;
* batch upload: the answer names only diaries that exist; one failing file costs
  only itself; one live diary per day and meal, and none without a photo; uploads
  that wait for each other are all answered;
* accounts: one account per identity, told to be new exactly once; one row per
  device, with a living owner; a retry's push reaches the diary's owner, the push
  of an upload whoever had the device the upload names;
* start-up: a start that logs no error leaves the whole schema; a restart on an
  up-to-date database logs nothing; every process serves in the end;
* reads: a range of days gives the diaries of those days, on their days; the time
  shown is one of the meal the diary is filed under; the statistics of a month add
  up, and tell its busiest hours; a restaurant the user has not set is the first
  suggestion.

## Modules

| Module | Models |
|---|---|
| `KstTime` | `utils/timezone.py`: Korean days and clock readings as UTC instants (whole hours) |
| `DiaryLifecycle` | the abstract promise of the pipeline: statuses and attempts of a diary as `GET /diaries` shows them |
| `AnalysisPipeline` | the pipeline and the scheduler of all processes |
| `AnalysisPipelineProofs` | type correctness and safety of `AnalysisPipeline` |
| `AnalysisLifecycleProofs` | settled diaries, edits, that `AnalysisPipeline` implements `DiaryLifecycle`, and bounds on attempts and pushes |
| `DiaryPhotos` | photo rows, counter, cover and files of one diary under all operations |
| `DiaryPhotosProofs` | theorems about photos, counter, cover and files |
| `BatchUpload` | the loop of `POST /photos/batch-upload` over its files, several requests at once |
| `BatchUploadProofs` | theorems about what overlapping uploads commit and answer |
| `Accounts` | users, devices, logins, and the device and user a push reaches |
| `AccountsProofs` | theorems about accounts, devices and pushes |
| `Startup` | init-db.sql and the automatic migration, several processes at once |
| `StartupProofs` | theorems about starts and the order of migrations |
| `DiaryReads` | uploads, analyses and edits as far as reads show them, and all reads |
| `DiaryReadsProofs` | theorems about what reads show: days, times, restaurants, statistics |
| `FoldTheorems` | lemmas: what a fold over a sequence comes to, for the proofs about `Startup` and `DiaryReads` |
| `MCAnalysisPipeline`, `MCDiaryPhotos`, `MCAccounts`, `MCDiaryReads` | constants and symmetry for TLC |

In the system modules, an operator with a suffix after an underscore
(`Expired_AnyAge`) is a faulty variant of an operator beside it. Nothing uses
it; putting it in place of the right one makes TLC report the property that
guards against that mistake. `PROJECT.json` lists the pairs.

### AnalysisPipeline

State: the columns of the `diaries` rows that matter (`row`, `analysis_status`,
`send_cnt`, `stale` for an `updated_at` older than five minutes, `restaurant` for
who wrote the restaurant columns last), whether a `diary_analysis` row exists,
the advisory `lock`, for each process whether it is `up`, the tick's `queue` and
`current` diary, the program counter `pc` and `host` of each worker, the `pushes`.

A *worker* is one run of `_claim_and_analyze`. A diary is created once, so the
background run is named after the diary; a scheduler awaits its runs inline, so
that run is named after the process.

| Action | Code |
|---|---|
| `Upload` | `batch_upload_photos`: commit, answer, start the background task |
| `ClaimDiary` | `claim_diary_for_processing` |
| `AnalyzeDiary` | `_analyze_with_new_session`, `analyze_diary_photos`: an answer, or a failure |
| `SaveAnalysisResult`, `SaveFails` | `_save_analysis_result`: one transaction |
| `RevertToPending` | the except branch of `_run_analysis_pipeline` |
| `NotifyComplete` | the push of `_claim_and_analyze` |
| `TryAcquireLock`, `ReleaseLock` | `_try_acquire_lock`, `_release_lock` |
| `ExpireStaleDiaries`, `ListPendingDiaries` | `run_expire_stale_diaries`, `get_pending_diaries` |
| `DispatchDiary` | the reads and the check of `dispatch_pending_diary` |
| `ExhaustFailedDiary`, `NotifyFailed` | `exhaust_failed_diary`, on both sides of its commit |
| `QueueDone` | the end of the loop of `run_handle_pending_diaries` |
| `EditDiary`, `DeleteDiary`, `DeleteUser` | PATCH and DELETE of the diary, DELETE of the account |
| `GrowStale` | five minutes pass |
| `Crash`, `Restart`, `LoseLock`, `WorkerRaises`, `TickRaises` | a process dies and comes back, the lock's connection dies, an exception leaves a worker or a tick |

What may go wrong is the constant `Adversity`. Two of its members need a word.
`stall`: a worker is held up longer than the stale threshold although it lives.
The model call is cut off after 30 seconds (`analysis_service.py:18-21`) and all
else is a short transaction, so the runs that promise most leave it out.
`late_bg`: the background task of an upload has not yet made its claim when a
scheduler lists the pending diaries a tick later. With both left out the code
keeps what `pipeline_timely` checks; with them in, what `pipeline_everything` checks.
With `late_bg`, or after a lost lock, a check of the counter may be followed by
the claim of somebody else: `AttemptsBounded` bounds what that can add.

Left out: test mode, the content of analyses and pushes other than type and day,
the device a push goes to (`Accounts`), logging. A push stands for the attempt to send it.

### DiaryPhotos

State: the diary row (`row`, `photo_count`, `cover_photo_id`), its `photos`, the
`files` on disk (a photo's id also names its file), and for each request its
`kind`, `pc`, what its `session` has read and changed in memory, the files it
`saved` and those `to_remove` after its commit. Each request is one transaction
of `get_session`: it reads, changes its session, writes files, and takes effect
at its commit. PostgreSQL gives the diary row's lock to the first writer and
keeps it until the commit, so no other writer of the row can come between a
request's writes and its commit: the model does both in one step. Only `SELECT
... FOR UPDATE` (`get_diary_for_update`) takes the lock before the read; that one
is the variable `lock`. `Abort` may end any request that runs, for every reason
a transaction can fail, deadlocks included.

`overlapped` is a history variable: it becomes true when a request starts while
another one runs, unless both are additions or saves of a worker. The properties
that need requests to be made one after the other say so with it; "What the
models show beside the properties" below tells what happens without.

### BatchUpload

State: the live `diaries` of one user and day (an id is the request that inserted
it and the meal), the `photos` rows, `photo_count`, the `lock` on each meal (the
diary's row or its place in the unique index, which an uncommitted INSERT holds),
and for each request its `pc`, its number of `files`, the `meal` at hand, its
`session` (the Diary objects with the counters they have in memory) and the `log`
of what became of its files.

| Action | Code |
|---|---|
| `Validate` | the checks of the endpoint |
| `GetDiary`, `CreateDiary` | SELECT and INSERT of `get_or_create_diary` |
| `CreatePhoto`, `RefusePhoto`, `StoreFails` | `save_user_photo` and `create_photo_for_diary`; a full diary; the disk refuses |
| `FlushFails`, `GetDiaryRaises` | a statement fails and spoils the session; every use after that raises, and the loop goes on |
| `DeadlockVictim` | PostgreSQL fails one of the transactions that wait in a circle |
| `AnswerSaved`, `AnswerNothingSaved`, `CommitFails` | the end of `batch_upload_photos` and of `get_session` |

What a new diary owes to the background task is `HandedOver`; the pipeline's
`Upload` continues from there, and `DiaryPhotos` has the same upload against edits
and deletions of one diary. Left out: `test_mode`, the content of files.

### Accounts

State: the rows of `users` and `devices`, for each request what it is, what it
has read and how it ended (`req`), and a `clock` that counts the starts and commits
that matter. now() is the start of a transaction in PostgreSQL, so `updated_at`
of a device tells when its registration began, not when it took effect.

| Action | Code |
|---|---|
| `BeginLogin`, `BeginDevLogin`, `RefuseLogin` | `verify_oauth_token` and the SELECT of `login`, `login_dev`; a token that does not verify |
| `CreateUser`, `UpdateLastLogin` | the rest of the login, with `upsert_device`, in one commit |
| `BeginRegister`, `CommitRegister` | `POST /members/me/device` |
| `VerifyToken`, `GetMe` | `GET /auth/verify`, `GET /users/me` |
| `BeginLeave`, `CommitLeave` | `DELETE /users/me`, rows only |
| `DispatchRetry`, `StartBackground`, `SendSilentNotification` | a push of the scheduler, with `get_device_id_for_user`; one of an upload; `send_silent_notification` |
| `Fail` | any request is rolled back |

The upload names the device of `StartBackground`, any at all: nothing between
`routers/photos.py:62` and the push asks whether it is registered, or whose it is.
Whom a push was `meant` for is therefore the diary's owner in a retry, and in an
upload whoever had that device when the analysis started.

A request may name the user of any account there has ever been: an access token
is a signed id and nothing is looked up (`Authenticated`). `Tokens` and `Verified`
are the checks of `services/oauth2.py` on a token's issuer, audience and claims.

### Startup

State: the `objects` of the script that exist, the `columns` of its tables (with
what the script says, or `bare`, without NOT NULL and DEFAULT), who has `locked` a
table by an ALTER, and for each process its `pc`, the `next` statement, the `plan`
of columns to add, what it has `added`, whether its transaction is `aborted`,
the `errors` it logged. `Lines` are the lines of init-db.sql that end a statement
or could; `ParseSqlStatements` splits them with the flags of the code.

| Action | Code |
|---|---|
| `ExecuteStatement`, `StatementFails`, `InitSqlDone` | the loop of `_execute_init_sql` |
| `ReadSchema` | `_get_current_schema`, `generate_schema_diff` |
| `AddColumn`, `AddColumnFails`, `Serve` | `auto_migrate_schema` and the end of `create_tables` |
| `Start`, `Crash` | the container starts, or dies |

`Init` is an empty database, or one of a release that lacked a column or a table.

### DiaryReads

State: the rows of `diaries`, `photos` and `diary_analysis` of one user, and the
`read` under way: what it asked for, when, and which of its SELECTs it has made.
A write is one transaction here, what writes do to each other being the business
of the other modules; up to `MaxWrites` of them commit between the SELECTs of a
read. The answer of a read is a set of operators over what it loaded
(`BuildDiaryWithPhotos`, `BuildDatePhotosResponse`, `Insights`).

| Action | Code |
|---|---|
| `Upload`, `AddPhoto`, `Edit`, `Delete` | the four writes of the user, with EXIF time and place |
| `SaveAnalysis` | `_save_analysis_result`, for the first time or again by a late worker: the result of `analyze_diary_photos` with a search and a reply (`Results`), and what becomes of the diary (`Analysed`) |
| `GetDiariesByDateRange`, `GetDiariesSummaryByDateRange`, `GetDiary`, `GenerateInsights` | the first SELECT of each read |
| `LoadPhotos`, `LoadCovers`, `SelectPrevious`, `Answer` | the SELECTs that follow, and the end |

`Edit` takes what a client may send: a restaurant the app could have shown it
(`Offered`), or any other `Bodies`, such as a name without the rest of its place
(`tests/test_diaries.py:732-781`). Nothing in the code asks whether a restaurant was
offered. `edited` is a history variable: the user has set part of the restaurant
since the last analysis. `MostCommon` is `Counter.most_common`: some choice of keys
that `Leads`, any one where counts are equal, since the rows come in no order. The
insights are an answer only with days enough (`HasSufficientData`), else a 400.

Left out: half hours (everything is in whole hours), the order of a list, the
note, the blog text.

## Runs

| Run | Instance | Shows |
|---|---|---|
| `pipeline_timely` | 2 processes, 2 diaries, 2 attempts, 1 fault (crash or database error), symmetry; 690 thousand states | all safety properties of the pipeline, and that it implements `DiaryLifecycle` |
| `pipeline_contended` | 2 processes, 1 diary, 3 attempts, 2 faults, `lock_loss` and `late_bg`; 930 thousand states | exclusion of analyses survives overlapping ticks; attempts exceed the limit by at most one for each process |
| `pipeline_everything` | 2 processes, 1 diary, 2 attempts, 1 fault of any kind, `stall` included; fair; 760 thousand states | `done` has its analysis, pushes do not outnumber attempts, every live diary settles |
| `pipeline_push_day` | 1 process, 1 diary, no fault | violation: the scheduler's pushes name the UTC day |
| `photos` | 3 requests of any kinds, limit 3, at most 2 files each, 6 photos; 80 thousand states | files, counter, cover and account deletion |
| `photos_limit` | 2 requests, limit 2 | violation: two uploads pass the limit together |
| `batch` | 2 uploads of up to 3 files into 2 meals, limit 2, 2 faults; fair; 380 thousand states | one failing file costs only itself, a failed flush the whole request; no deadlock lasts |
| `batch_answer` | 2 uploads of up to 2 files, no fault | violation: the answer of an upload whose session broke names diaries that do not exist |
| `accounts` | 3 requests of any kinds, 2 devices, 3 identities of which 2 share an address, symmetry; 1.05 million states | accounts and devices stay one; a push reaches whom it was meant for |
| `startup` | 2 processes, 2 faults, empty and older databases; fair; 190 thousand states | what a start leaves and logs; all processes serve in the end |
| `startup_triggers` | 1 process, no fault | violation: a start without an error leaves no trigger |
| `reads` | 2 diaries, 2 photos, 1 commit during a read, 2 days of one January, 2 days enough for insights, 1 hour told; 3.7 million states | days, times, statistics and restaurants shown |

Bounds. *Pipeline*: two processes and the background task are all the kinds of
actor that can meet on a diary; two diaries let a tick work through a list while
the other diary moves, and let a sweep hit two rows. Two attempts give a first, a
last and an exhausted state; the contended run uses the three of the code. One
fault can hit any step of any task; the contended run needs two, one to lose the
lock and one to disturb what follows. `MaxFaults` counts crashes, lost locks and
database errors together; failures of the model call and the time that passes are
not faults and are unbounded except by the attempts. *Photos*: three requests
allow an edit, an addition and an upload to meet, or one to spoil what two others
rely on; a limit of three photos is reached by one request or by two, and three
requests of two files each take six ids at most, so `NumPhotos = 6` never stops an
insert. *Batch*: two requests that share two meals can block each other, insert
the same diary, and wait in a circle; three files let a good file stand before
and after one that fails, and fill a diary of two. *Accounts*: three requests let
two overlap and a third come between them; two of the three identities share
their address, so both unique constraints can refuse, and an upload may name
either device, registered or not. *Startup*: two processes
can interleave every statement and wait for each other's tables; a second fault
hits a restart. *Reads*: one commit between two SELECTs is what can make them
disagree, and the picture taken an hour past midnight is one whose Korean day, UTC
day and filing day all differ; `MaxSpan` is 7 instead of the 42 of the code: just
enough for the range from the first of the two days to the second. These are New
Year's Day, whose UTC instant lies in the year before, and the last day of the
first week of January: one month has the two days that are enough for an answer
(`MinDays` is 2), so the statistics are checked in a month that is answered. One
hour is told instead of five, so two diaries of two hours are cut. That no hour
left out is busier needs three diaries to go wrong; with two the run cannot break
that conjunct, and the proof is what shows it. The run sends no category and no
tags in a PATCH.

Deadlock is checked in the pipeline runs and switched off in the others, where
every request is made once, every row inserted at most so often, or every process
serves in the end, and the system stops.

Fairness. `AnalysisPipeline`: each worker and each tick goes on when it can, a
dead process is restarted, and a row without a live worker grows stale. The event
loop resumes a task whose await is over and the scheduler loop never returns
(`diary_scheduler.py:26`); containers run under `restart: unless-stopped`;
`updated_at` is a clock. Nothing is assumed about the user or about the outcome of
analyses. Fairness is one weak condition per worker and per process, not per
action, so a worker may fail every time it is asked. Faults end because they are
bounded; with faults for ever no attempt need ever finish. `BatchUpload`: a request
goes on when it can, and PostgreSQL's deadlock detection fails a victim of a
circle that lasts; without the latter `EventuallyAnswered` is false. `Startup`: a
container is restarted and a statement that waits for nobody ends; there is no
fairness for a deadlock victim, since the order of the tables makes a circle
impossible.

## Proofs

The theorems about `AnalysisPipeline` hold for any finite or infinite sets of
processes and diaries, any `MAX_SEND_CNT`, any day, any `Adversity` and any number
of faults, under `ConstantsAssumption` alone, unless a premise is named.

* `TypeCorrect`: `Spec => []TypeOK`. `TypeOK` is not inductive: a step of a worker uses
  `current[p]` as a diary. `WorkersHaveDiaries` says that a process at a step that is
  about a diary has one; `TypeInv` is the conjunction. Lemmas for workers, ticks,
  processes and requests, one step per action.
* `FailedOnlyWhenExhaustedAlways`. The give-up reads the counter in one
  transaction and marks the row in another; `ExhaustInv` adds that a process on
  its way there has seen a counter at the limit, which only grows.
* `SchedulerExclusionAlways`, if no process loses its lock connection. `LockInv`:
  whoever is inside a tick is the holder.
* `DoneHasAnalysisAlways`. `AnalysisInv` adds that a row not yet inserted is
  pending, so that an upload cannot create a done diary.
* `OneAnalysisAtATimeAlways`, if no worker stalls. `HoldInv` adds that a diary some
  worker holds is not pending, so no claim succeeds on it, and not stale, so no
  sweep returns it to pending.
* `SettledStaysAlways`, `EditsAfterDoneSurviveAlways` and `Refinement`, if no lock is lost,
  no worker stalls and no background task comes late. With any of the three they are
  false: a late worker saves over a settled diary. `TimelyInv` is the reason they hold
  otherwise: a diary that a worker analyses is processing (`HeldInv`); a diary in the
  list of a tick, or at hand in it, is still pending, because nobody else can tick
  (`QueueInv`, `TurnInv`); and the background task claims before any scheduler has seen
  the diary (`BackgroundInv`). `LifecycleStep` maps each action: a claim to `Attempt`, a
  save to `Succeed`, a revert or a sweep to `GiveBack`, a give-up to `GiveUp`, the rest to
  a stutter, uploads and deletions to `Create` and `Remove`.
* `FailureAnnouncedOnceAlways`, under the same premise: the push is sent by the process
  that marked the diary, before its tick ends. `OnePushPerAttemptAlways` and
  `AttemptsBoundedAlways` hold under every adversity. Neither is inductive: a worker that has
  claimed will still send, a process that has read the counter will still claim.
  `CompleteInv` counts the pushes together with the workers that owe one, `ClaimInv` the
  attempts together with the processes that may still start one past the limit. The
  bound on attempts needs a finite set of processes.

The theorems about `DiaryPhotos` hold for any requests, limits and numbers of files and
photos, under `PhotosAssumption`. Requests do overlap in them.

* `PhotosTypeCorrect`, `PhotoCountReadableAlways`: every number a request writes into
  `photo_count` it has computed from one it read and checked itself (`StageInv`, `CountInv`);
  that overlapping requests lose each other's update makes the counter wrong, never
  unreadable.
* `RowHasFileAlways`: photo ids are given once (`OldInv`), a photo that waits for its commit is
  in nobody else's hands (`FreshInv`) and has its file already (`FileInv`), and a file that is
  removed after a commit has no row any more (`RemoveInv`).
* `CountCoversPhotosAlways`, `CoverIsAPhotoAlways`, `NothingLeftBehindAlways`, unless requests
  have overlapped that the code does not keep apart (the history variable `overlapped` in
  the properties themselves). `SerialInv`: as long as it is false, requests that run
  together are additions and workers (`AloneInv`), and what a request has read is what is
  there (`ReadInv`). The counts are cardinalities, of the photos of the diary and of those a
  session has added.

The theorems about `BatchUpload` hold for any requests, meals, faults and limits, under
`BatchAssumption`.

* `OneLiveDiaryAlways`, `FailureLeavesNothingAlways`. `LockInv`: whoever has inserted a diary
  and may still commit holds its meal in the unique index, and no row of the meal is
  committed; `SessionInv`: a session has one Diary object for a meal.
* `NewDiaryHandedOverAlways`, `UnspoiltAnswerTrueAlways`, `NoEmptyDiaryAlways`. What a request
  answers is about its session, what it commits is in the database: `LogInv` ties each
  result to the session's diary and says which one may claim to be new, `NewInv` why a
  session has inserted a diary at all, `StageInv` what a request at each step has in hand.
* `BatchTypeCorrect`.

The theorems about `Accounts` hold for any sets of requests, identities,
addresses and devices, under `AccountsAssumption`.

* `OneAccountPerIdentityAlways`, `FirstLoginOnceAlways`, `DeviceHasOneLivingOwnerAlways`.
  None of the three is inductive alone: a first login would be free to find the
  id it is about to give in use already, or to have said `is_first` before.
  `Inv` adds `MadeByRequest` (a user with a request's id exists only after that request),
  `OpenLogins` (a login under way has told nothing and has not found its own account)
  and `OpenUpserts` (who is going to upsert a device has one), beside the `Shape` of the
  rows, which is `TypeOK` without the bound on the clock. `CommitStep` and `UpsertOwns`
  carry the half that the three committing actions share, `RequestStep` the actions
  that write no row.
* `PushReachesOwnerAlways`, `RetryTakesLatestDeviceAlways`. `PushInv` adds that no request
  starts in the future (`Times`), that a row tells who wrote it and when that began
  (`RowsAreWritten`), and that a push under way whose device is not with whom the push
  was meant for has a registration to blame, which committed after the push started
  (`PushesAreRouted`, `ReachedIsRouted`). `PushQuiet` is the step that writes no device,
  `PushUpsert` the one that does.

* `AccountsTypeCorrect`, for finitely many requests. `ClockInv`: the clock is no later than
  the number of requests that have begun and of those that are over together.

The theorems about `Startup` hold for any processes and faults, under
`StartupAssumption`.

* `CleanStartCompleteAlways`, `QuietRestartAlways`, `StartupTypeCorrect`. `ScriptFact`: a start
  without an error has executed every statement before the one at hand. `PlanFact`: what
  such a start has not planned or added is there. `QuietFact`: a complete database stays
  complete, since tables are created whole and columns never dropped. All rest on
  `ScriptOrder`: what a statement needs comes in an earlier one.
* `NoTriggerIsMade`. `ScriptParsed` runs the parser over the lines: it makes statements of the
  first eleven and never gets out of the function that follows. This is the general
  form of what `startup_triggers` shows.
* `WaitsAscend`. A process never holds a table behind one it still has to alter
  (`OrderFact`), so whoever is waited for waits for a later table, if at all. TLC checks
  the consequence for two processes, with fairness, as `EventuallyServing`.

The theorems about `DiaryReads` hold for any pictures, filed days, replies of the
model, searches and numbers of writes during a read, under `ReadsAssumption`, and
`InsightsAddUpAlways` under `CalendarAssumption`. The first says what the fields of
those inputs are; the second is the calendar: months begin in their order, and each
filed day lies in a month that has a successor.

* `ShownTimeIsOfMealAlways`. A read has the cover's id from one SELECT and loads the photo
  with another; the cover may have been replaced and its photo deleted in between. Photo
  ids are given once (`Tables`), and whatever has the id a row holds, now or when it was
  read, is a photo of that diary (`CoverFact`); a photo with a time is in a diary of its
  meal (`PhotoFact`), and the meal is told by the hour alone (`MealOfHour`). `ReadStays` carries a read over the commits of others.
* `AnswerHoldsItsDaysAlways`, `InsightsAddUpAlways`. `ReadFact`: the rows of a read are those
  that lie in the days, or the month, it asked for. `MidnightsAscend` and `DayOfMidnight` turn
  the UTC bounds of the queries into Korean days, `MonthsInARow` and `InMonthIsMonthOf` into
  months. `SomeLead`: of finitely many counts there are n that lead, so `MostCommon` chooses
  some; `BusiestHoursTold` says of the distribution what that means.
* `UneditedShowsFirstSuggestionAlways`. `ParseKeeps`: what is kept of a reply begins with the
  item the diary takes its columns from, if that item can be shown at all. A save
  writes both (`SaveKeeps`), and an edit that changes the columns says so (`EditKeeps`).
* `ReadsTypeCorrect`. Diaries are numbered without gaps, so a new one has a new id, and no
  counter exceeds the photo ids given (`DiaryFact`).

Folds and sums. The statistics of a month, the suggestions and the statements of the script
are folds. A fold is CHOSEN for its equation: `FoldExists` says that the equation has a
solution, and `TotalCounts`, `ParseKeeps` and `ScriptParsed` what the solution is, on larger
and larger subsets or prefixes. Induction theorems with an operator for a parameter are out
of reach of the provers; `UpTo` is one with a set. `ParseDiaryAnalysis` is written as a fold,
and not with `SelectSeq`, because the provers know no definition of the latter.

Only model-checked: the liveness properties `EventuallySettled`, `EventuallyAnswered` and
`EventuallyServing`, which need ENABLED and fairness.

## What the models show beside the properties

The four violation runs are the disagreements of code and documents that a run
replays. The following came up as well. No run replays them: either another run
shows the same kind of mistake already, or one line of code beside one line of
text shows it.

* A failed analysis is announced with `analysis_complete` like a finished one
  (`usecases/diary.py:74`), where `routers/photos.py:99-100` has `analysis_failed` for a
  failure; that type is sent only when the last attempt was made.
* Two PATCHes that overlap may each keep the photos the other deletes and leave
  the diary none, where `routers/diaries.py:301` says that one must stay. One PATCH
  that lists a photo twice counts it twice (`schemas/diary.py:30-31`). A photo that is
  added while the diary is deleted stays attached to a diary nobody sees.
* An upload that is under way while the account is deleted writes its file into
  the directory that was just removed (`routers/users.py:39`).
* A person whose two providers tell the same address cannot log in with the
  second one: the unique constraint on `email` makes it a 500, while
  `tests/test_auth_oauth.py:298-307` expects two users of the same address. No
  property speaks of the address; `FreeIdentity` has the constraint as it is.
* An upload that names a device of another account sends its push there
  (`routers/photos.py:62`, `usecases/photos.py:42-47`).
* A column that the migration adds has neither the NOT NULL nor the DEFAULT the
  script gives it, and one ALTER that fails rolls back all of them without an
  error beyond its own.
* An item of the model's reply without a category makes the suggestions of its
  diary unreadable (500). Taking another suggestion sends no `address_name`, so the
  statistics by quarter keep the old place.
* `classify_time_type` gives lunch up to 16 o'clock where its docstring has a snack
  from 14 (`utils/time_classifier.py:13-18`, `31-38`). `ShownTimeIsOfMeal` takes neither
  side: it asks that a shown time, classified again, gives the diary's meal.
* The answer of an upload says "pending" where its documentation says
  "processing"; the range of "at most 42 days" has 43; the answer of a PATCH shows
  the time of the old cover (`usecases/diary.py:370`, `schemas/diary.py:21`);
  `_extract_dong` takes a road (a word that ends in 로) where its docstring says none.
* The blog text endpoint calls a method that `diary_service` does not have and
  fails for every diary.

## Not modelled, and why

Signatures, key sets and clocks of tokens, the language model's prompt, the map
service, the FCM client and the decoding of EXIF data: libraries and remote
services whose outcome is a choice in the models that use them. Mock endpoints
and `test_mode`: canned answers for client development. Name generator: a random
choice, and names need not differ. Application shell (configuration, metrics,
health probe): no state that others read. Blog text: its only caller fails.
`PROJECT.json` lists every component with its status and every known hazard with
the property that covers it or the reason none does.
