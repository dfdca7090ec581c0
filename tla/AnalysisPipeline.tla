-------------------------- MODULE AnalysisPipeline --------------------------
(***************************************************************************)
(* How an uploaded diary gets its analysis: the background task an upload  *)
(* leaves behind, the 60-second scheduler of every server process, the     *)
(* advisory lock between the processes, the compare-and-set claim on the   *)
(* diary row, the retry counter, stale recovery and the silent pushes.     *)
(*                                                                         *)
(* Each action is one database transaction, or one step between two of     *)
(* them, of one task: tasks interleave at every await and across           *)
(* processes, and PostgreSQL makes each transaction atomic.  A worker is   *)
(* one run of _claim_and_analyze: the background run for a diary is named  *)
(* after the diary (an upload starts one for every diary it creates, and a *)
(* diary is created once), the run a scheduler awaits inline is named      *)
(* after the process.                                                      *)
(*                                                                         *)
(* A definition whose name carries a suffix after "_" is a faulty variant  *)
(* of the definition it precedes.  Nothing uses it: it is there to be put  *)
(* in the place of the right one, to see which property notices.           *)
(***************************************************************************)
EXTENDS KstTime, Naturals, Sequences, FiniteSets

CONSTANTS
    Proc,        \* server processes, each with its own event loop
    Diary,       \* diaries the user may create
    None,        \* no process, no diary
    MaxSend,     \* MAX_SEND_CNT
    DayOf,       \* the calendar day (KST) the user files each diary under
    Adversity,   \* what may go wrong, a subset of Adversities
    MaxFaults    \* bound on crashes, lost locks and database errors together

\* "crash"     a process dies; it may be restarted
\* "lock_loss" the connection that holds the advisory lock dies under its tick
\* "db_error"  a statement of a task fails
\* "stall"     a live worker is held up beyond the stale threshold (5 minutes)
\* "late_bg"   an upload's background task has not yet tried its claim when a
\*             later scheduler tick lists the pending diaries
Adversities == {"crash", "lock_loss", "db_error", "stall", "late_bg"}

Worker == Proc \cup Diary

ASSUME ConstantsAssumption ==
    /\ Proc \cap Diary = {}
    /\ None \notin Worker
    /\ MaxSend \in Nat \ {0}
    /\ DayOf \in [Diary -> Day]
    /\ Adversity \subseteq Adversities
    /\ MaxFaults \in Nat

VARIABLES
    \* the diaries table
    row,              \* "absent", "active", "soft_deleted" (deleted_at set) or "purged"
    analysis_status,
    send_cnt,
    stale,            \* updated_at is older than the stale threshold
    analysis,         \* a diary_analysis row exists
    restaurant,       \* who wrote the restaurant columns last: "nobody", "llm" or "user"
    \* the processes
    up,
    lock,             \* holder of the advisory lock
    queue,            \* a tick's snapshot of pending diaries not yet dispatched
    current,          \* the diary a tick is dispatching
    pc,               \* where each worker, and each scheduler, is
    host,             \* the process that runs a diary's background task
    \* the outside
    pushes,           \* silent pushes about each diary, in sending order
    faults

diaryVars == <<row, analysis_status, send_cnt, stale, analysis, restaurant>>
tickVars  == <<lock, queue, current>>
vars == <<diaryVars, up, tickVars, pc, host, pushes, faults>>

Statuses  == {"pending", "processing", "done", "failed"}
WorkSteps == {"claim", "analyze", "save", "revert", "notify"}
TickSteps == {"expire", "list", "next", "exhaust", "notify_failed", "unlock"}
Push == [type : {"analysis_complete", "analysis_failed"}, diary_date : Day]

TypeOK ==
    /\ row \in [Diary -> {"absent", "active", "soft_deleted", "purged"}]
    /\ analysis_status \in [Diary -> Statuses]
    /\ send_cnt \in [Diary -> Nat]
    /\ stale \in [Diary -> BOOLEAN]
    /\ analysis \in [Diary -> BOOLEAN]
    /\ restaurant \in [Diary -> {"nobody", "llm", "user"}]
    /\ up \in [Proc -> BOOLEAN]
    /\ lock \in Proc \cup {None}
    /\ queue \in [Proc -> SUBSET Diary]
    /\ current \in [Proc -> Diary \cup {None}]
    /\ pc \in [Worker -> {"idle"} \cup WorkSteps \cup TickSteps]
    /\ \A d \in Diary : pc[d] \notin TickSteps
    /\ host \in [Diary -> Proc \cup {None}]
    /\ pushes \in [Diary -> Seq(Push)]
    /\ faults \in Nat

Init ==
    /\ row = [d \in Diary |-> "absent"]
    /\ analysis_status = [d \in Diary |-> "pending"]
    /\ send_cnt = [d \in Diary |-> 0]
    /\ stale = [d \in Diary |-> FALSE]
    /\ analysis = [d \in Diary |-> FALSE]
    /\ restaurant = [d \in Diary |-> "nobody"]
    /\ up = [p \in Proc |-> TRUE]
    /\ lock = None
    /\ queue = [p \in Proc |-> {}]
    /\ current = [p \in Proc |-> None]
    /\ pc = [w \in Worker |-> "idle"]
    /\ host = [d \in Diary |-> None]
    /\ pushes = [d \in Diary |-> <<>>]
    /\ faults = 0
-----------------------------------------------------------------------------
\* Rows an UPDATE ... WHERE reaches, and what it does to them: analysis_status
\* is set and onupdate moves updated_at, so the row is not stale any more.

Exists(d) == row[d] \in {"active", "soft_deleted"}

Update(ds, status) ==
    /\ analysis_status' = [d \in Diary |-> IF d \in ds THEN status ELSE analysis_status[d]]
    /\ stale' = [d \in Diary |-> stale[d] /\ d \notin ds]

\* The diary a worker is about.
On(w) == IF w \in Proc THEN current[w] ELSE w

\* A worker between its claim and the end of its pipeline.
Holds(w, d) == On(w) = d /\ pc[w] \in {"analyze", "save", "revert"}

Goto(w, step) == pc' = [pc EXCEPT ![w] = step]

\* Faulty: a background run goes on to a next diary it does not have.
Return_AlwaysNext(w) == /\ Goto(w, "next")
                        /\ host' = [d \in Diary |-> IF d = w THEN None ELSE host[d]]

\* Where a worker goes when _claim_and_analyze returns or raises (gather keeps
\* the exception): a background run is over, a tick takes its next diary.
Return(w) == /\ Goto(w, IF w \in Proc THEN "next" ELSE "idle")
             /\ host' = [d \in Diary |-> IF d = w THEN None ELSE host[d]]
-----------------------------------------------------------------------------
\* Requests of the user.

\* POST /photos/batch-upload commits diaries that did not exist, answers, and
\* hands them to the background task analyze_and_notify in the same process.
Upload(p, ds) ==
    /\ up[p] /\ ds # {}
    /\ \A d \in Diary : row[d] # "purged"
    /\ \A d \in ds : row[d] = "absent"
    /\ row' = [d \in Diary |-> IF d \in ds THEN "active" ELSE row[d]]
    /\ pc' = [w \in Worker |-> IF w \in ds THEN "claim" ELSE pc[w]]
    /\ host' = [d \in Diary |-> IF d \in ds THEN p ELSE host[d]]
    /\ UNCHANGED <<analysis_status, send_cnt, stale, analysis, restaurant,
                   up, tickVars, pushes, faults>>

\* PATCH /diaries/{id} sets the restaurant columns whatever the status is.  An
\* edit of columns that already hold the user's values is left out.
EditDiary(d) ==
    /\ row[d] = "active" /\ restaurant[d] # "user"
    /\ restaurant' = [restaurant EXCEPT ![d] = "user"]
    /\ stale' = [stale EXCEPT ![d] = FALSE]
    /\ UNCHANGED <<row, analysis_status, send_cnt, analysis, up, tickVars, pc, host,
                   pushes, faults>>

DeleteDiary(d) ==
    /\ row[d] = "active"
    /\ row' = [row EXCEPT ![d] = "soft_deleted"]
    /\ stale' = [stale EXCEPT ![d] = FALSE]
    /\ UNCHANGED <<analysis_status, send_cnt, analysis, restaurant, up, tickVars, pc,
                   host, pushes, faults>>

\* DELETE /users/me: the foreign keys cascade to the diaries and their analyses.
DeleteUser ==
    /\ \E d \in Diary : Exists(d)
    /\ row' = [d \in Diary |-> IF Exists(d) THEN "purged" ELSE row[d]]
    /\ analysis' = [d \in Diary |-> FALSE]
    /\ UNCHANGED <<analysis_status, send_cnt, stale, restaurant, up, tickVars, pc, host,
                   pushes, faults>>
-----------------------------------------------------------------------------
\* One worker: _claim_and_analyze.

\* Faulty: the claim does not look at the status.
Claimable_AnyStatus(d) == Exists(d)

\* WHERE of the claim; deleted_at is not part of it.
Claimable(d) == Exists(d) /\ analysis_status[d] = "pending"

\* Faulty: a refused worker still sends its push.
ClaimRefused_Notifies(w) == Goto(w, "notify") /\ UNCHANGED host

\* Another worker has the diary: this one leaves.
ClaimRefused(w) == Return(w)

\* claim_diary_for_processing, a transaction of its own.
ClaimDiary(w) ==
    /\ pc[w] = "claim"
    /\ LET claimed == {d \in Diary : d = On(w) /\ Claimable(d)}
       IN  /\ Update(claimed, "processing")
           /\ send_cnt' = [d \in Diary |-> IF d \in claimed THEN send_cnt[d] + 1
                                                            ELSE send_cnt[d]]
           /\ IF claimed = {} THEN ClaimRefused(w) ELSE Goto(w, "analyze") /\ UNCHANGED host
    /\ UNCHANGED <<row, analysis, restaurant, up, tickVars, pushes, faults>>

\* The photos are read in one session and sent to the model without one.  A
\* timeout, an exception and an empty answer all end as ValueError.
AnalyzeDiary(w) ==
    /\ pc[w] = "analyze"
    /\ \E step \in {"save", "revert"} : Goto(w, step)
    /\ UNCHANGED <<diaryVars, up, tickVars, host, pushes, faults>>

MarkedDone(d) == analysis_status[d] = "processing"

\* _save_analysis_result: the analysis, the restaurant columns and the done
\* mark commit together; the mark alone looks at the status.
SaveAnalysisResult(w) ==
    LET d == On(w)
    IN  /\ pc[w] = "save" /\ Exists(d)
        /\ analysis' = [analysis EXCEPT ![d] = TRUE]
        /\ restaurant' = [restaurant EXCEPT ![d] = "llm"]
        /\ analysis_status' = [analysis_status EXCEPT ![d] =
                                   IF MarkedDone(d) THEN "done" ELSE @]
        /\ stale' = [stale EXCEPT ![d] = FALSE]
        /\ Goto(w, "notify")
        /\ UNCHANGED <<row, send_cnt, up, tickVars, host, pushes, faults>>

\* Faulty: the done mark is committed before the analysis.
SaveFails_AfterDoneMark(w) ==
    /\ pc[w] = "save" /\ Exists(On(w))
    /\ analysis_status' = [analysis_status EXCEPT ![On(w)] = "done"]
    /\ Goto(w, "revert")
    /\ UNCHANGED <<row, send_cnt, stale, analysis, restaurant, up, tickVars, host,
                   pushes, faults>>

\* The transaction fails (the row is gone, or any database error): nothing of
\* it stays.
SaveFails(w) ==
    /\ pc[w] = "save"
    /\ Goto(w, "revert")
    /\ UNCHANGED <<diaryVars, up, tickVars, host, pushes, faults>>

Revertible(d) == Exists(d)

\* The except branch of _run_analysis_pipeline: mark_diaries_pending.
RevertToPending(w) ==
    /\ pc[w] = "revert"
    /\ Update({d \in Diary : d = On(w) /\ Revertible(d)}, "pending")
    /\ Goto(w, "notify")
    /\ UNCHANGED <<row, send_cnt, analysis, restaurant, up, tickVars, host, pushes, faults>>

SendPush(d, type, day) ==
    pushes' = [pushes EXCEPT ![d] = Append(@, [type |-> type, diary_date |-> day])]

\* The day dispatch_pending_diary and exhaust_failed_diary put into a push.
StoredDate(d) == UtcDate(KstDateToUtc(DayOf[d]))

\* The push that follows the pipeline, whichever way it ended.  A background
\* run was given the day of the request, a tick takes it from the row.
NotifyComplete(w) ==
    /\ pc[w] = "notify"
    /\ SendPush(On(w), "analysis_complete",
                IF w \in Proc THEN StoredDate(On(w)) ELSE DayOf[On(w)])
    /\ Return(w)
    /\ UNCHANGED <<diaryVars, up, tickVars, faults>>
-----------------------------------------------------------------------------
\* One tick of a process: _scheduler_loop, under the advisory lock.

\* Faulty: the tick does not look at what pg_try_advisory_lock answered.
LockFree_Ignored == TRUE

\* pg_try_advisory_lock answers true.
LockFree == lock = None

\* A tick that does not get the lock is skipped: no step.
TryAcquireLock(p) ==
    /\ up[p] /\ pc[p] = "idle" /\ LockFree
    /\ lock' = p
    /\ Goto(p, "expire")
    /\ UNCHANGED <<diaryVars, up, queue, current, host, pushes, faults>>

\* Faulty: one attempt too many; one too few.
AttemptsLeft_TooMany(d) == send_cnt[d] <= MaxSend
AttemptsLeft_TooFew(d)  == send_cnt[d] + 1 < MaxSend

AttemptsLeft(d) == send_cnt[d] < MaxSend

\* Faulty: the sweep takes every running analysis; it passes over the last
\* attempt.
Expired_AnyAge(d) == row[d] = "active" /\ analysis_status[d] = "processing"
Expired_RetriesOnly(d) == /\ row[d] = "active" /\ analysis_status[d] = "processing"
                          /\ stale[d] /\ AttemptsLeft(d)

\* WHERE of the sweep.
Expired(d) == row[d] = "active" /\ analysis_status[d] = "processing" /\ stale[d]

ExpireStaleDiaries(p) ==
    /\ pc[p] = "expire"
    /\ Update({d \in Diary : Expired(d)}, "pending")
    /\ Goto(p, "list")
    /\ UNCHANGED <<row, send_cnt, analysis, restaurant, up, tickVars, host, pushes, faults>>

\* Faulty: the listing takes whatever is not running; it takes failures again.
Pending_NotRunning(d) == row[d] = "active" /\ analysis_status[d] # "processing"
Pending_OrFailed(d) == row[d] = "active" /\ analysis_status[d] \in {"pending", "failed"}

\* WHERE of get_pending_diaries.
Pending(d) == row[d] = "active" /\ analysis_status[d] = "pending"

ListPendingDiaries(p) ==
    /\ pc[p] = "list"
    /\ "late_bg" \in Adversity \/ \A d \in Diary : pc[d] # "claim"
    /\ queue' = [queue EXCEPT ![p] = {d \in Diary : Pending(d)}]
    /\ Goto(p, "next")
    /\ UNCHANGED <<diaryVars, up, lock, current, host, pushes, faults>>

\* dispatch_pending_diary reads the row again, though not its status.  The list
\* has no ORDER BY, so any diary of it may be next.
DispatchDiary(p, d) ==
    /\ pc[p] = "next" /\ d \in queue[p]
    /\ queue' = [queue EXCEPT ![p] = @ \ {d}]
    /\ current' = [current EXCEPT ![p] = d]
    /\ Goto(p, IF row[d] # "active" THEN "next"
               ELSE IF AttemptsLeft(d) THEN "claim" ELSE "exhaust")
    /\ UNCHANGED <<diaryVars, up, lock, host, pushes, faults>>

\* exhaust_failed_diary: mark_diaries_failed commits before the push is sent.
ExhaustFailedDiary(p) ==
    /\ pc[p] = "exhaust"
    /\ LET exhausted == {d \in Diary : d = current[p] /\ row[d] = "active"}
       IN  /\ Update(exhausted, "failed")
           /\ Goto(p, IF exhausted = {} THEN "next" ELSE "notify_failed")
    /\ UNCHANGED <<row, send_cnt, analysis, restaurant, up, tickVars, host, pushes, faults>>

NotifyFailed(p) ==
    /\ pc[p] = "notify_failed"
    /\ SendPush(current[p], "analysis_failed", StoredDate(current[p]))
    /\ Goto(p, "next")
    /\ UNCHANGED <<diaryVars, up, tickVars, host, faults>>

QueueDone(p) ==
    /\ pc[p] = "next" /\ queue[p] = {}
    /\ Goto(p, "unlock")
    /\ UNCHANGED <<diaryVars, up, tickVars, host, pushes, faults>>

\* finally: pg_advisory_unlock.  If its connection is gone the call raises and
\* the tick still ends.
ReleaseLock(p) ==
    /\ pc[p] = "unlock"
    /\ lock' = IF lock = p THEN None ELSE lock
    /\ current' = [current EXCEPT ![p] = None]
    /\ Goto(p, "idle")
    /\ UNCHANGED <<diaryVars, up, queue, host, pushes, faults>>
-----------------------------------------------------------------------------
\* Time and faults.

\* Five minutes pass without an UPDATE of a row in processing.  Unless workers
\* may stall, a row with a live worker does not get that old: the model call is
\* cut off after 30 seconds and everything else is a short transaction.
GrowStale(d) ==
    /\ row[d] = "active" /\ analysis_status[d] = "processing" /\ ~stale[d]
    /\ "stall" \in Adversity \/ \A w \in Worker : ~Holds(w, d)
    /\ stale' = [stale EXCEPT ![d] = TRUE]
    /\ UNCHANGED <<row, analysis_status, send_cnt, analysis, restaurant, up, tickVars,
                   pc, host, pushes, faults>>

Fault(kind) == kind \in Adversity /\ faults < MaxFaults /\ faults' = faults + 1

\* A process dies with its tick and its background tasks.  The server drops
\* the advisory lock with the connection.
Crash(p) ==
    /\ Fault("crash")
    /\ up[p]
    /\ up' = [up EXCEPT ![p] = FALSE]
    /\ pc' = [w \in Worker |-> IF w = p \/ (w \in Diary /\ host[w] = p) THEN "idle"
                                                                        ELSE pc[w]]
    /\ host' = [d \in Diary |-> IF host[d] = p THEN None ELSE host[d]]
    /\ lock' = IF lock = p THEN None ELSE lock
    /\ queue' = [queue EXCEPT ![p] = {}]
    /\ current' = [current EXCEPT ![p] = None]
    /\ UNCHANGED <<diaryVars, pushes>>

Restart(p) ==
    /\ ~up[p]
    /\ up' = [up EXCEPT ![p] = TRUE]
    /\ UNCHANGED <<diaryVars, tickVars, pc, host, pushes, faults>>

\* The connection that holds the lock breaks; the tick does not notice.
LoseLock(p) ==
    /\ Fault("lock_loss")
    /\ lock = p
    /\ lock' = None
    /\ UNCHANGED <<diaryVars, up, queue, current, pc, host, pushes>>

\* An exception outside the pipeline's try leaves the worker: before the claim,
\* after it committed (the answer was lost), while reverting or while pushing.
WorkerRaises(w) ==
    /\ Fault("db_error")
    /\ pc[w] \in WorkSteps \ {"save"}
    /\ Return(w)
    /\ UNCHANGED <<diaryVars, up, tickVars, pushes>>

\* An exception of the tick itself: a failing sweep or listing ends it, a
\* failing dispatch goes on with the next diary.
TickRaises(p) ==
    /\ Fault("db_error")
    /\ \/ pc[p] \in {"expire", "list"} /\ Goto(p, "unlock") /\ UNCHANGED queue
       \/ pc[p] \in {"exhaust", "notify_failed"} /\ Goto(p, "next") /\ UNCHANGED queue
       \/ /\ pc[p] = "next"
          /\ \E d \in queue[p] : queue' = [queue EXCEPT ![p] = @ \ {d}]
          /\ UNCHANGED pc
    /\ UNCHANGED <<diaryVars, up, lock, current, host, pushes>>
-----------------------------------------------------------------------------
WorkerStep(w) == ClaimDiary(w) \/ AnalyzeDiary(w) \/ SaveAnalysisResult(w)
                 \/ SaveFails(w) \/ RevertToPending(w) \/ NotifyComplete(w)

TickStep(p) == \/ TryAcquireLock(p) \/ ExpireStaleDiaries(p) \/ ListPendingDiaries(p)
               \/ \E d \in Diary : DispatchDiary(p, d)
               \/ ExhaustFailedDiary(p) \/ NotifyFailed(p) \/ QueueDone(p) \/ ReleaseLock(p)

Next ==
    \/ \E w \in Worker : WorkerStep(w) \/ WorkerRaises(w)
    \/ \E p \in Proc : \/ TickStep(p) \/ TickRaises(p)
                       \/ Crash(p) \/ Restart(p) \/ LoseLock(p)
                       \/ \E ds \in SUBSET Diary : Upload(p, ds)
    \/ \E d \in Diary : GrowStale(d) \/ EditDiary(d) \/ DeleteDiary(d)
    \/ DeleteUser

\* The event loop resumes every task whose await is over, the scheduler loop
\* never returns, a supervisor restarts a dead process, and time passes.
Fairness ==
    /\ \A w \in Worker : WF_vars(WorkerStep(w))
    /\ \A p \in Proc : WF_vars(TickStep(p)) /\ WF_vars(Restart(p))
    /\ \A d \in Diary : WF_vars(GrowStale(d))

Spec == Init /\ [][Next]_vars

FairSpec == Spec /\ Fairness
-----------------------------------------------------------------------------
\* Properties.

Ticking(p) == pc[p] # "idle"

\* The advisory lock: no two processes are inside a tick at once, so no two
\* sweep or dispatch together.  It needs the lock's connection to stay up.
SchedulerExclusion == \A p, q \in Proc : Ticking(p) /\ Ticking(q) => p = q

\* A diary is never under analysis twice at once: claims, reverts, sweeps and
\* give-ups of all tasks leave at most one worker holding it.
OneAnalysisAtATime ==
    \A d \in Diary : \A v, w \in Worker : Holds(v, d) /\ Holds(w, d) => v = w

\* "1 initial attempt + 2 retries": the scheduler reads the counter in one
\* transaction and claims in another, so when ticks overlap each process, and the
\* background run, may pass the check before any of them claims, and no more.
\* (Where they do not, DiaryLifecycle allows MaxSend attempts and no other.)
AttemptsBounded == \A d \in Diary : send_cnt[d] <= MaxSend + Cardinality(Proc)

\* A diary is given up only after all its attempts were made.
FailedOnlyWhenExhausted ==
    \A d \in Diary : analysis_status[d] = "failed" => send_cnt[d] >= MaxSend

\* done never stands without the analysis it announces.
DoneHasAnalysis ==
    \A d \in Diary : Exists(d) /\ analysis_status[d] = "done" => analysis[d]

\* What a client has seen as done or failed stays that way.
SettledStays ==
    [][\A d \in Diary : analysis_status[d] \in {"done", "failed"} =>
                            analysis_status'[d] = analysis_status[d]]_vars

\* What the user wrote into a diary after its analysis is not overwritten.
EditsAfterDoneSurvive ==
    [][\A d \in Diary : restaurant[d] = "user" /\ analysis_status[d] = "done" =>
                            restaurant'[d] = "user"]_vars

\* The places of the pushes of one type in what was sent about a diary.
PushesOf(d, type) == {i \in DOMAIN pushes[d] : pushes[d][i].type = type}

\* No more completion pushes than attempts: retries do not repeat a push.
OnePushPerAttempt ==
    \A d \in Diary : Cardinality(PushesOf(d, "analysis_complete")) <= send_cnt[d]

\* A diary's failure is announced at most once: no tick gives up a diary that
\* another tick gave up, and none comes back from failed.
FailureAnnouncedOnce == \A d \in Diary : Cardinality(PushesOf(d, "analysis_failed")) <= 1

\* A live diary never waits for ever: attempts, sweeps and retries bring it to
\* done or failed, where it stays, whatever crashed on the way.
EventuallySettled ==
    \A d \in Diary : <>[](row[d] = "active" => analysis_status[d] \in {"done", "failed"})

\* DiaryLifecycle is all of it that a client can see.
Lifecycle == INSTANCE DiaryLifecycle WITH
    state <- [d \in Diary |-> CASE row[d] = "absent" -> "absent"
                                [] row[d] = "active" -> analysis_status[d]
                                [] OTHER -> "gone"],
    attempts <- [d \in Diary |-> IF row[d] = "active" THEN send_cnt[d] ELSE 0]

ImplementsLifecycle == Lifecycle!Spec

\* The push names the day to ask GET /diaries for.
PushNamesDiaryDay ==
    \A d \in Diary : \A i \in DOMAIN pushes[d] : pushes[d][i].diary_date = DayOf[d]
=============================================================================
