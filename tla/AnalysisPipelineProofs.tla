----------------------- MODULE AnalysisPipelineProofs -----------------------
(***************************************************************************)
(* Type correctness and safety theorems about AnalysisPipeline, for any    *)
(* processes, diaries and retry limit and for any number of faults.  Each  *)
(* safety theorem has an invariant that one step preserves, proved action  *)
(* by action, and says by its assumption on Adversity which kinds of fault *)
(* it does not survive.                                                    *)
(***************************************************************************)
EXTENDS AnalysisPipeline, TLAPS

\* The day a tick puts into a push is a day.
LEMMA StoredDateType == \A d \in Diary : StoredDate(d) \in Day
BY ConstantsAssumption DEF StoredDate, UtcDate, KstDateToUtc, KstOffset, Day

\* A push appended to a diary's pushes leaves them a sequence of pushes.
LEMMA SendPushType ==
    ASSUME TypeOK, NEW d \in Diary, NEW day \in Day,
           NEW type \in {"analysis_complete", "analysis_failed"},
           SendPush(d, type, day)
    PROVE  pushes' \in [Diary -> Seq(Push)]
<1>1. [type |-> type, diary_date |-> day] \in Push
  BY DEF Push
<1>2. pushes[d] \in Seq(Push)
  BY DEF TypeOK
<1>3. Append(pushes[d], [type |-> type, diary_date |-> day]) \in Seq(Push)
  BY <1>1, <1>2
<1>4. QED
  BY <1>3 DEF TypeOK, SendPush

\* A worker at a step of its run is about a diary.
WorkersHaveDiaries ==
    \A p \in Proc : pc[p] \in WorkSteps \cup {"exhaust", "notify_failed"} => current[p] \in Diary

TypeInv == TypeOK /\ WorkersHaveDiaries

LEMMA TypeInit == Init => TypeInv
BY ConstantsAssumption DEF Init, TypeInv, TypeOK, WorkersHaveDiaries, Statuses, WorkSteps,
   TickSteps, Worker

LEMMA TypeWorker ==
    ASSUME TypeInv, NEW w \in Worker, WorkerStep(w) \/ WorkerRaises(w)
    PROVE  TypeInv'
<1> USE ConstantsAssumption DEF TypeInv, TypeOK, WorkersHaveDiaries, Statuses, WorkSteps,
        TickSteps, Worker, On, Update, Goto, Return, tickVars, diaryVars
<1>0. pc[w] \in WorkSteps => On(w) \in Diary
  OBVIOUS
<1>1. CASE ClaimDiary(w)
  <2> DEFINE claimed == {d \in Diary : d = On(w) /\ Claimable(d)}
  <2>1. /\ Update(claimed, "processing")
        /\ send_cnt' = [d \in Diary |-> IF d \in claimed THEN send_cnt[d] + 1 ELSE send_cnt[d]]
        /\ \/ Return(w)
           \/ Goto(w, "analyze") /\ UNCHANGED host
        /\ UNCHANGED <<row, analysis, restaurant, up, lock, queue, current, pushes, faults>>
    BY <1>1 DEF ClaimDiary, ClaimRefused
  <2> HIDE DEF claimed
  <2>2. /\ analysis_status' \in [Diary -> Statuses]
        /\ stale' \in [Diary -> BOOLEAN]
        /\ send_cnt' \in [Diary -> Nat]
    BY <2>1
  <2>3. CASE Return(w)
    BY <1>1, <2>1, <2>2, <2>3 DEF ClaimDiary
  <2>4. CASE Goto(w, "analyze") /\ UNCHANGED host
    BY <1>1, <2>1, <2>2, <2>4 DEF ClaimDiary
  <2>5. QED
    BY <2>1, <2>3, <2>4
<1>2. CASE AnalyzeDiary(w)
  BY <1>2 DEF AnalyzeDiary
<1>3. CASE SaveAnalysisResult(w)
  BY <1>3 DEF SaveAnalysisResult
<1>4. CASE SaveFails(w)
  BY <1>4 DEF SaveFails
<1>5. CASE RevertToPending(w)
  BY <1>5 DEF RevertToPending
<1>6. CASE NotifyComplete(w)
  <2>1. pushes' \in [Diary -> Seq(Push)]
    BY <1>0, <1>6, SendPushType, StoredDateType DEF NotifyComplete
  <2>2. QED
    BY <1>6, <2>1 DEF NotifyComplete
<1>7. CASE WorkerRaises(w)
  BY <1>7 DEF WorkerRaises, Fault
<1>8. QED
  BY <1>1, <1>2, <1>3, <1>4, <1>5, <1>6, <1>7 DEF WorkerStep

LEMMA TypeTick ==
    ASSUME TypeInv, NEW p \in Proc, TickStep(p) \/ TickRaises(p)
    PROVE  TypeInv'
<1> USE ConstantsAssumption DEF TypeInv, TypeOK, WorkersHaveDiaries, Statuses, WorkSteps,
        TickSteps, Worker, Update, Goto, diaryVars, tickVars
<1>1. CASE TryAcquireLock(p)
  BY <1>1 DEF TryAcquireLock
<1>2. CASE ExpireStaleDiaries(p)
  BY <1>2 DEF ExpireStaleDiaries
<1>3. CASE ListPendingDiaries(p)
  BY <1>3 DEF ListPendingDiaries
<1>4. CASE \E d \in Diary : DispatchDiary(p, d)
  BY <1>4 DEF DispatchDiary
<1>5. CASE ExhaustFailedDiary(p)
  BY <1>5 DEF ExhaustFailedDiary
<1>6. CASE NotifyFailed(p)
  <2>1. pushes' \in [Diary -> Seq(Push)]
    BY <1>6, SendPushType, StoredDateType DEF NotifyFailed
  <2>2. QED
    BY <1>6, <2>1 DEF NotifyFailed
<1>7. CASE QueueDone(p)
  BY <1>7 DEF QueueDone
<1>8. CASE ReleaseLock(p)
  BY <1>8 DEF ReleaseLock
<1>9. CASE TickRaises(p)
  <2>1. CASE pc[p] \in {"expire", "list"} /\ Goto(p, "unlock") /\ UNCHANGED queue
    BY <1>9, <2>1 DEF TickRaises, Fault
  <2>2. CASE pc[p] \in {"exhaust", "notify_failed"} /\ Goto(p, "next") /\ UNCHANGED queue
    BY <1>9, <2>2 DEF TickRaises, Fault
  <2>3. CASE /\ \E d \in queue[p] : queue' = [queue EXCEPT ![p] = @ \ {d}]
             /\ UNCHANGED pc
    <3>1. queue' \in [Proc -> SUBSET Diary]
      BY <2>3
    <3>2. QED
      BY <1>9, <2>3, <3>1 DEF TickRaises, Fault
  <2>4. QED
    BY <1>9, <2>1, <2>2, <2>3 DEF TickRaises
<1>10. QED
  BY <1>1, <1>2, <1>3, <1>4, <1>5, <1>6, <1>7, <1>8, <1>9 DEF TickStep

LEMMA TypeProcess ==
    ASSUME TypeInv, NEW p \in Proc, Crash(p) \/ Restart(p) \/ LoseLock(p)
    PROVE  TypeInv'
<1> USE ConstantsAssumption DEF TypeInv, TypeOK, WorkersHaveDiaries, Statuses, WorkSteps,
        TickSteps, Worker, diaryVars, tickVars, Fault
<1>1. CASE Crash(p)
  BY <1>1 DEF Crash
<1>2. CASE Restart(p)
  BY <1>2 DEF Restart
<1>3. CASE LoseLock(p)
  BY <1>3 DEF LoseLock
<1>4. QED
  BY <1>1, <1>2, <1>3

LEMMA TypeRequest ==
    ASSUME TypeInv,
           \/ \E p \in Proc : \E ds \in SUBSET Diary : Upload(p, ds)
           \/ \E d \in Diary : GrowStale(d) \/ EditDiary(d) \/ DeleteDiary(d)
           \/ DeleteUser
    PROVE  TypeInv'
<1> USE ConstantsAssumption DEF TypeInv, TypeOK, WorkersHaveDiaries, Statuses, WorkSteps,
        TickSteps, Worker, tickVars
<1>1. ASSUME NEW p \in Proc, NEW ds \in SUBSET Diary, Upload(p, ds)
      PROVE  TypeInv'
  BY <1>1 DEF Upload
<1>2. ASSUME NEW d \in Diary, GrowStale(d)
      PROVE  TypeInv'
  BY <1>2 DEF GrowStale
<1>3. ASSUME NEW d \in Diary, EditDiary(d)
      PROVE  TypeInv'
  BY <1>3 DEF EditDiary
<1>4. ASSUME NEW d \in Diary, DeleteDiary(d)
      PROVE  TypeInv'
  BY <1>4 DEF DeleteDiary
<1>5. CASE DeleteUser
  BY <1>5 DEF DeleteUser, Exists
<1>6. QED
  BY <1>1, <1>2, <1>3, <1>4, <1>5

LEMMA TypeStep == TypeInv /\ [Next]_vars => TypeInv'
<1> SUFFICES ASSUME TypeInv, [Next]_vars
             PROVE  TypeInv'
  OBVIOUS
<1>1. CASE Next
  BY <1>1, TypeWorker, TypeTick, TypeProcess, TypeRequest DEF Next
<1>2. CASE UNCHANGED vars
  BY <1>2 DEF vars, diaryVars, tickVars, TypeInv, TypeOK, WorkersHaveDiaries
<1>3. QED
  BY <1>1, <1>2

\* Every variable keeps its type, and a worker at work always has its diary.
THEOREM TypeInvariance == Spec => []TypeInv
<1>1. QED
  BY TypeInit, TypeStep, PTL DEF Spec

\* Every variable keeps its type: no status outside the four the column
\* allows, no tick step in a background run.
THEOREM TypeCorrect == Spec => []TypeOK
<1>1. TypeInv => TypeOK
  BY DEF TypeInv
<1>2. QED
  BY <1>1, TypeInvariance, PTL
-----------------------------------------------------------------------------
\* A process on its way to give a diary up has seen its attempts used up.
ExhaustInv ==
    /\ FailedOnlyWhenExhausted
    /\ \A p \in Proc : pc[p] = "exhaust" => send_cnt[current[p]] >= MaxSend

LEMMA ExhaustInit == Init => ExhaustInv
BY ConstantsAssumption DEF Init, ExhaustInv, FailedOnlyWhenExhausted, Worker

LEMMA ExhaustStep == TypeInv /\ ExhaustInv /\ [Next]_vars => ExhaustInv'
<1> SUFFICES ASSUME TypeInv, ExhaustInv, [Next]_vars
             PROVE  ExhaustInv'
  OBVIOUS
<1> USE ConstantsAssumption DEF TypeInv, TypeOK, WorkersHaveDiaries, Statuses, WorkSteps,
        TickSteps, Worker, diaryVars, tickVars, ExhaustInv, FailedOnlyWhenExhausted
<1>1. ASSUME NEW w \in Worker, ClaimDiary(w)
      PROVE  ExhaustInv'
  BY <1>1 DEF ClaimDiary, ClaimRefused, Claimable, Update, On, Goto, Return
<1>2. ASSUME NEW w \in Worker, AnalyzeDiary(w)
      PROVE  ExhaustInv'
  BY <1>2 DEF AnalyzeDiary, Goto, On
<1>3. ASSUME NEW w \in Worker, SaveAnalysisResult(w)
      PROVE  ExhaustInv'
  BY <1>3 DEF SaveAnalysisResult, Goto, On, MarkedDone
<1>4. ASSUME NEW w \in Worker, SaveFails(w)
      PROVE  ExhaustInv'
  BY <1>4 DEF SaveFails, Goto, On
<1>5. ASSUME NEW w \in Worker, RevertToPending(w)
      PROVE  ExhaustInv'
  BY <1>5 DEF RevertToPending, Goto, On, Update, Revertible
<1>6. ASSUME NEW w \in Worker, NotifyComplete(w)
      PROVE  ExhaustInv'
  BY <1>6 DEF NotifyComplete, Return, Goto, On
<1>7. ASSUME NEW w \in Worker, WorkerRaises(w)
      PROVE  ExhaustInv'
  BY <1>7 DEF WorkerRaises, Fault, Return, Goto, On
<1>8. ASSUME NEW p \in Proc, TryAcquireLock(p)
      PROVE  ExhaustInv'
  BY <1>8 DEF TryAcquireLock, Goto, LockFree
<1>9. ASSUME NEW p \in Proc, ExpireStaleDiaries(p)
      PROVE  ExhaustInv'
  BY <1>9 DEF ExpireStaleDiaries, Goto, Update, Expired
<1>10. ASSUME NEW p \in Proc, ListPendingDiaries(p)
      PROVE  ExhaustInv'
  BY <1>10 DEF ListPendingDiaries, Goto
<1>11. ASSUME NEW p \in Proc, NEW d \in Diary, DispatchDiary(p, d)
      PROVE  ExhaustInv'
  BY <1>11 DEF DispatchDiary, Goto, AttemptsLeft
<1>12. ASSUME NEW p \in Proc, ExhaustFailedDiary(p)
      PROVE  ExhaustInv'
  BY <1>12 DEF ExhaustFailedDiary, Goto, Update
<1>13. ASSUME NEW p \in Proc, NotifyFailed(p)
      PROVE  ExhaustInv'
  BY <1>13 DEF NotifyFailed, Goto
<1>14. ASSUME NEW p \in Proc, QueueDone(p)
      PROVE  ExhaustInv'
  BY <1>14 DEF QueueDone, Goto
<1>15. ASSUME NEW p \in Proc, ReleaseLock(p)
      PROVE  ExhaustInv'
  BY <1>15 DEF ReleaseLock, Goto
<1>16. ASSUME NEW p \in Proc, TickRaises(p)
      PROVE  ExhaustInv'
  BY <1>16 DEF TickRaises, Fault, Goto
<1>17. ASSUME NEW p \in Proc, Crash(p)
      PROVE  ExhaustInv'
  BY <1>17 DEF Crash, Fault
<1>18. ASSUME NEW p \in Proc, Restart(p)
      PROVE  ExhaustInv'
  BY <1>18 DEF Restart
<1>19. ASSUME NEW p \in Proc, LoseLock(p)
      PROVE  ExhaustInv'
  BY <1>19 DEF LoseLock, Fault
<1>20. ASSUME NEW p \in Proc, NEW ds \in SUBSET Diary, Upload(p, ds)
      PROVE  ExhaustInv'
  BY <1>20 DEF Upload
<1>21. ASSUME NEW d \in Diary, GrowStale(d)
      PROVE  ExhaustInv'
  BY <1>21 DEF GrowStale
<1>22. ASSUME NEW d \in Diary, EditDiary(d)
      PROVE  ExhaustInv'
  BY <1>22 DEF EditDiary
<1>23. ASSUME NEW d \in Diary, DeleteDiary(d)
      PROVE  ExhaustInv'
  BY <1>23 DEF DeleteDiary
<1>24. CASE DeleteUser
  BY <1>24 DEF DeleteUser
<1>25. CASE UNCHANGED vars
  BY <1>25 DEF vars
<1>26. QED
  BY <1>1, <1>2, <1>3, <1>4, <1>5, <1>6, <1>7, <1>8, <1>9, <1>10, <1>11, <1>12,
     <1>13, <1>14, <1>15, <1>16, <1>17, <1>18, <1>19, <1>20, <1>21, <1>22, <1>23,
     <1>24, <1>25
     DEF Next, WorkerStep, TickStep

\* Whatever goes wrong, a diary is marked failed only after MAX_SEND_CNT
\* analyses were started for it.
THEOREM FailedOnlyWhenExhaustedAlways == Spec => []FailedOnlyWhenExhausted
<1>1. ExhaustInv => FailedOnlyWhenExhausted
  BY DEF ExhaustInv
<1>2. QED
  BY <1>1, TypeInvariance, ExhaustInit, ExhaustStep, PTL DEF Spec

\* Whoever is inside a tick has the lock.
LockInv == \A p \in Proc : Ticking(p) => lock = p

LEMMA LockInit == Init => LockInv
BY DEF Init, LockInv, Ticking, Worker

LEMMA LockStep ==
    ASSUME "lock_loss" \notin Adversity
    PROVE  TypeInv /\ LockInv /\ [Next]_vars => LockInv'
<1> SUFFICES ASSUME TypeInv, LockInv, [Next]_vars
             PROVE  LockInv'
  OBVIOUS
<1> USE ConstantsAssumption DEF TypeInv, TypeOK, WorkersHaveDiaries, Statuses, WorkSteps,
        TickSteps, Worker, diaryVars, tickVars, LockInv, Ticking
<1>1. ASSUME NEW w \in Worker, ClaimDiary(w)
      PROVE  LockInv'
  BY <1>1 DEF ClaimDiary, ClaimRefused, Claimable, Update, On, Goto, Return
<1>2. ASSUME NEW w \in Worker, AnalyzeDiary(w)
      PROVE  LockInv'
  BY <1>2 DEF AnalyzeDiary, Goto, On
<1>3. ASSUME NEW w \in Worker, SaveAnalysisResult(w)
      PROVE  LockInv'
  BY <1>3 DEF SaveAnalysisResult, Goto, On, MarkedDone
<1>4. ASSUME NEW w \in Worker, SaveFails(w)
      PROVE  LockInv'
  BY <1>4 DEF SaveFails, Goto, On
<1>5. ASSUME NEW w \in Worker, RevertToPending(w)
      PROVE  LockInv'
  BY <1>5 DEF RevertToPending, Goto, On, Update, Revertible
<1>6. ASSUME NEW w \in Worker, NotifyComplete(w)
      PROVE  LockInv'
  BY <1>6 DEF NotifyComplete, Return, Goto, On
<1>7. ASSUME NEW w \in Worker, WorkerRaises(w)
      PROVE  LockInv'
  BY <1>7 DEF WorkerRaises, Fault, Return, Goto, On
<1>8. ASSUME NEW p \in Proc, TryAcquireLock(p)
      PROVE  LockInv'
  BY <1>8 DEF TryAcquireLock, Goto, LockFree
<1>9. ASSUME NEW p \in Proc, ExpireStaleDiaries(p)
      PROVE  LockInv'
  BY <1>9 DEF ExpireStaleDiaries, Goto, Update, Expired
<1>10. ASSUME NEW p \in Proc, ListPendingDiaries(p)
      PROVE  LockInv'
  BY <1>10 DEF ListPendingDiaries, Goto
<1>11. ASSUME NEW p \in Proc, NEW d \in Diary, DispatchDiary(p, d)
      PROVE  LockInv'
  BY <1>11 DEF DispatchDiary, Goto, AttemptsLeft
<1>12. ASSUME NEW p \in Proc, ExhaustFailedDiary(p)
      PROVE  LockInv'
  BY <1>12 DEF ExhaustFailedDiary, Goto, Update
<1>13. ASSUME NEW p \in Proc, NotifyFailed(p)
      PROVE  LockInv'
  BY <1>13 DEF NotifyFailed, Goto
<1>14. ASSUME NEW p \in Proc, QueueDone(p)
      PROVE  LockInv'
  BY <1>14 DEF QueueDone, Goto
<1>15. ASSUME NEW p \in Proc, ReleaseLock(p)
      PROVE  LockInv'
  BY <1>15 DEF ReleaseLock, Goto
<1>16. ASSUME NEW p \in Proc, TickRaises(p)
      PROVE  LockInv'
  BY <1>16 DEF TickRaises, Fault, Goto
<1>17. ASSUME NEW p \in Proc, Crash(p)
      PROVE  LockInv'
  BY <1>17 DEF Crash, Fault
<1>18. ASSUME NEW p \in Proc, Restart(p)
      PROVE  LockInv'
  BY <1>18 DEF Restart
<1>19. ASSUME NEW p \in Proc, LoseLock(p)
      PROVE  LockInv'
  BY <1>19 DEF LoseLock, Fault
<1>20. ASSUME NEW p \in Proc, NEW ds \in SUBSET Diary, Upload(p, ds)
      PROVE  LockInv'
  BY <1>20 DEF Upload
<1>21. ASSUME NEW d \in Diary, GrowStale(d)
      PROVE  LockInv'
  BY <1>21 DEF GrowStale
<1>22. ASSUME NEW d \in Diary, EditDiary(d)
      PROVE  LockInv'
  BY <1>22 DEF EditDiary
<1>23. ASSUME NEW d \in Diary, DeleteDiary(d)
      PROVE  LockInv'
  BY <1>23 DEF DeleteDiary
<1>24. CASE DeleteUser
  BY <1>24 DEF DeleteUser
<1>25. CASE UNCHANGED vars
  BY <1>25 DEF vars
<1>26. QED
  BY <1>1, <1>2, <1>3, <1>4, <1>5, <1>6, <1>7, <1>8, <1>9, <1>10, <1>11, <1>12,
     <1>13, <1>14, <1>15, <1>16, <1>17, <1>18, <1>19, <1>20, <1>21, <1>22, <1>23,
     <1>24, <1>25
     DEF Next, WorkerStep, TickStep

\* As long as no process loses the connection that holds the advisory lock, at
\* most one process is inside a tick.
THEOREM SchedulerExclusionAlways ==
    ASSUME "lock_loss" \notin Adversity
    PROVE  Spec => []SchedulerExclusion
<1>1. LockInv => SchedulerExclusion
  BY DEF LockInv, SchedulerExclusion
<1>2. TypeInv /\ LockInv /\ [Next]_vars => LockInv'
  BY LockStep
<1>3. QED
  BY <1>1, <1>2, TypeInvariance, LockInit, PTL DEF Spec

\* A row that was never inserted still has the default status.
AnalysisInv ==
    /\ DoneHasAnalysis
    /\ \A d \in Diary : row[d] = "absent" => analysis_status[d] = "pending"

LEMMA AnalysisInit == Init => AnalysisInv
BY DEF Init, AnalysisInv, DoneHasAnalysis

LEMMA AnalysisStep == TypeInv /\ AnalysisInv /\ [Next]_vars => AnalysisInv'
<1> SUFFICES ASSUME TypeInv, AnalysisInv, [Next]_vars
             PROVE  AnalysisInv'
  OBVIOUS
<1> USE ConstantsAssumption DEF TypeInv, TypeOK, WorkersHaveDiaries, Statuses, WorkSteps,
        TickSteps, Worker, diaryVars, tickVars, AnalysisInv, DoneHasAnalysis, Exists
<1>1. ASSUME NEW w \in Worker, ClaimDiary(w)
      PROVE  AnalysisInv'
  BY <1>1 DEF ClaimDiary, ClaimRefused, Claimable, Update, On, Goto, Return
<1>2. ASSUME NEW w \in Worker, AnalyzeDiary(w)
      PROVE  AnalysisInv'
  BY <1>2 DEF AnalyzeDiary, Goto, On
<1>3. ASSUME NEW w \in Worker, SaveAnalysisResult(w)
      PROVE  AnalysisInv'
  BY <1>3 DEF SaveAnalysisResult, Goto, On, MarkedDone
<1>4. ASSUME NEW w \in Worker, SaveFails(w)
      PROVE  AnalysisInv'
  BY <1>4 DEF SaveFails, Goto, On
<1>5. ASSUME NEW w \in Worker, RevertToPending(w)
      PROVE  AnalysisInv'
  BY <1>5 DEF RevertToPending, Goto, On, Update, Revertible
<1>6. ASSUME NEW w \in Worker, NotifyComplete(w)
      PROVE  AnalysisInv'
  BY <1>6 DEF NotifyComplete, Return, Goto, On
<1>7. ASSUME NEW w \in Worker, WorkerRaises(w)
      PROVE  AnalysisInv'
  BY <1>7 DEF WorkerRaises, Fault, Return, Goto, On
<1>8. ASSUME NEW p \in Proc, TryAcquireLock(p)
      PROVE  AnalysisInv'
  BY <1>8 DEF TryAcquireLock, Goto, LockFree
<1>9. ASSUME NEW p \in Proc, ExpireStaleDiaries(p)
      PROVE  AnalysisInv'
  BY <1>9 DEF ExpireStaleDiaries, Goto, Update, Expired
<1>10. ASSUME NEW p \in Proc, ListPendingDiaries(p)
      PROVE  AnalysisInv'
  BY <1>10 DEF ListPendingDiaries, Goto
<1>11. ASSUME NEW p \in Proc, NEW d \in Diary, DispatchDiary(p, d)
      PROVE  AnalysisInv'
  BY <1>11 DEF DispatchDiary, Goto, AttemptsLeft
<1>12. ASSUME NEW p \in Proc, ExhaustFailedDiary(p)
      PROVE  AnalysisInv'
  BY <1>12 DEF ExhaustFailedDiary, Goto, Update
<1>13. ASSUME NEW p \in Proc, NotifyFailed(p)
      PROVE  AnalysisInv'
  BY <1>13 DEF NotifyFailed, Goto
<1>14. ASSUME NEW p \in Proc, QueueDone(p)
      PROVE  AnalysisInv'
  BY <1>14 DEF QueueDone, Goto
<1>15. ASSUME NEW p \in Proc, ReleaseLock(p)
      PROVE  AnalysisInv'
  BY <1>15 DEF ReleaseLock, Goto
<1>16. ASSUME NEW p \in Proc, TickRaises(p)
      PROVE  AnalysisInv'
  BY <1>16 DEF TickRaises, Fault, Goto
<1>17. ASSUME NEW p \in Proc, Crash(p)
      PROVE  AnalysisInv'
  BY <1>17 DEF Crash, Fault
<1>18. ASSUME NEW p \in Proc, Restart(p)
      PROVE  AnalysisInv'
  BY <1>18 DEF Restart
<1>19. ASSUME NEW p \in Proc, LoseLock(p)
      PROVE  AnalysisInv'
  BY <1>19 DEF LoseLock, Fault
<1>20. ASSUME NEW p \in Proc, NEW ds \in SUBSET Diary, Upload(p, ds)
      PROVE  AnalysisInv'
  BY <1>20 DEF Upload
<1>21. ASSUME NEW d \in Diary, GrowStale(d)
      PROVE  AnalysisInv'
  BY <1>21 DEF GrowStale
<1>22. ASSUME NEW d \in Diary, EditDiary(d)
      PROVE  AnalysisInv'
  BY <1>22 DEF EditDiary
<1>23. ASSUME NEW d \in Diary, DeleteDiary(d)
      PROVE  AnalysisInv'
  BY <1>23 DEF DeleteDiary
<1>24. CASE DeleteUser
  BY <1>24 DEF DeleteUser
<1>25. CASE UNCHANGED vars
  BY <1>25 DEF vars
<1>26. QED
  BY <1>1, <1>2, <1>3, <1>4, <1>5, <1>6, <1>7, <1>8, <1>9, <1>10, <1>11, <1>12,
     <1>13, <1>14, <1>15, <1>16, <1>17, <1>18, <1>19, <1>20, <1>21, <1>22, <1>23,
     <1>24, <1>25
     DEF Next, WorkerStep, TickStep

\* Under every adversity, a diary whose status is done has its analysis.
THEOREM DoneHasAnalysisAlways == Spec => []DoneHasAnalysis
<1>1. AnalysisInv => DoneHasAnalysis
  BY DEF AnalysisInv
<1>2. QED
  BY <1>1, TypeInvariance, AnalysisInit, AnalysisStep, PTL DEF Spec
-----------------------------------------------------------------------------
\* While workers do not stall: a diary under analysis waits for nobody and is
\* not swept, so no second worker gets hold of it.
HoldInv ==
    /\ OneAnalysisAtATime
    /\ \A d \in Diary : \A w \in Worker :
          Holds(w, d) => analysis_status[d] # "pending" /\ ~stale[d]

LEMMA HoldInit == Init => HoldInv
BY DEF Init, HoldInv, OneAnalysisAtATime, Holds, Worker

LEMMA HoldStep ==
    ASSUME "stall" \notin Adversity
    PROVE  TypeInv /\ HoldInv /\ [Next]_vars => HoldInv'
<1> SUFFICES ASSUME TypeInv, HoldInv, [Next]_vars
             PROVE  HoldInv'
  OBVIOUS
<1> USE ConstantsAssumption DEF TypeInv, TypeOK, WorkersHaveDiaries, Statuses, WorkSteps,
        TickSteps, Worker, diaryVars, tickVars, HoldInv, OneAnalysisAtATime, Holds, On
<1>1. ASSUME NEW w \in Worker, ClaimDiary(w)
      PROVE  HoldInv'
  <2>1. /\ pc[w] = "claim" /\ current' = current
        /\ \A v \in Worker : v # w => pc'[v] = pc[v]
        /\ pc'[w] \in {"analyze", "next", "idle"}
    BY <1>1 DEF ClaimDiary, ClaimRefused, Goto, Return
  <2>2. pc'[w] = "analyze" => Claimable(On(w)) /\ On(w) \in Diary
    BY <1>1 DEF ClaimDiary, ClaimRefused, Goto, Return
  <2>3. \A d \in Diary : d # On(w) \/ ~Claimable(d) =>
            analysis_status'[d] = analysis_status[d] /\ stale'[d] = stale[d]
    BY <1>1 DEF ClaimDiary, Update
  <2>4. \A d \in Diary : d = On(w) /\ Claimable(d) =>
            analysis_status'[d] = "processing" /\ ~stale'[d]
    BY <1>1 DEF ClaimDiary, Update
  <2>5. \A d \in Diary : Claimable(d) => \A v \in Worker : ~Holds(v, d)
    BY DEF Claimable
  <2>6. \A d \in Diary : \A v \in Worker : v # w => (Holds(v, d)' <=> Holds(v, d))
    BY <2>1
  <2>7. ASSUME NEW d \in Diary, Holds(w, d)'
        PROVE  d = On(w) /\ Claimable(d)
    <3>1. d = On(w) /\ pc'[w] = "analyze"
      BY <2>1, <2>7
    <3>2. Claimable(On(w))
      BY <2>2, <3>1
    <3> HIDE DEF On
    <3>3. QED
      BY <3>1, <3>2 DEF Claimable, Exists
  <2>8. ASSUME NEW d \in Diary, NEW u \in Worker, NEW v \in Worker,
               Holds(u, d)', Holds(v, d)'
        PROVE  u = v
    <3>1. CASE u # w /\ v # w
      <4>1. Holds(u, d) /\ Holds(v, d)
        BY <2>6, <2>8, <3>1
      <4>2. QED
        BY <4>1
    <3>2. CASE u = w /\ v # w
      BY <2>5, <2>6, <2>7, <2>8, <3>2
    <3>3. CASE u # w /\ v = w
      BY <2>5, <2>6, <2>7, <2>8, <3>3
    <3>4. QED
      BY <3>1, <3>2, <3>3
  <2>9. ASSUME NEW d \in Diary, NEW v \in Worker, Holds(v, d)'
        PROVE  analysis_status'[d] # "pending" /\ ~stale'[d]
    <3>1. CASE v = w
      BY <2>4, <2>7, <2>9, <3>1
    <3>2. CASE v # w
      <4>1. Holds(v, d)
        BY <2>6, <2>9, <3>2
      <4>2. ~Claimable(d)
        BY <2>5, <4>1
      <4>3. QED
        BY <2>3, <4>1, <4>2
    <3>3. QED
      BY <3>1, <3>2 DEF Claimable, Exists
  <2>10. QED
    BY <2>8, <2>9
<1>2. ASSUME NEW w \in Worker, AnalyzeDiary(w)
      PROVE  HoldInv'
  BY <1>2 DEF AnalyzeDiary, Goto, On
<1>3. ASSUME NEW w \in Worker, SaveAnalysisResult(w)
      PROVE  HoldInv'
  BY <1>3 DEF SaveAnalysisResult, Goto, On, MarkedDone
<1>4. ASSUME NEW w \in Worker, SaveFails(w)
      PROVE  HoldInv'
  BY <1>4 DEF SaveFails, Goto, On
<1>5. ASSUME NEW w \in Worker, RevertToPending(w)
      PROVE  HoldInv'
  BY <1>5 DEF RevertToPending, Goto, On, Update, Revertible
<1>6. ASSUME NEW w \in Worker, NotifyComplete(w)
      PROVE  HoldInv'
  BY <1>6 DEF NotifyComplete, Return, Goto, On
<1>7. ASSUME NEW w \in Worker, WorkerRaises(w)
      PROVE  HoldInv'
  BY <1>7 DEF WorkerRaises, Fault, Return, Goto, On
<1>8. ASSUME NEW p \in Proc, TryAcquireLock(p)
      PROVE  HoldInv'
  BY <1>8 DEF TryAcquireLock, Goto, LockFree
<1>9. ASSUME NEW p \in Proc, ExpireStaleDiaries(p)
      PROVE  HoldInv'
  BY <1>9 DEF ExpireStaleDiaries, Goto, Update, Expired
<1>10. ASSUME NEW p \in Proc, ListPendingDiaries(p)
      PROVE  HoldInv'
  BY <1>10 DEF ListPendingDiaries, Goto
<1>11. ASSUME NEW p \in Proc, NEW d \in Diary, DispatchDiary(p, d)
      PROVE  HoldInv'
  BY <1>11 DEF DispatchDiary, Goto, AttemptsLeft
<1>12. ASSUME NEW p \in Proc, ExhaustFailedDiary(p)
      PROVE  HoldInv'
  BY <1>12 DEF ExhaustFailedDiary, Goto, Update
<1>13. ASSUME NEW p \in Proc, NotifyFailed(p)
      PROVE  HoldInv'
  BY <1>13 DEF NotifyFailed, Goto
<1>14. ASSUME NEW p \in Proc, QueueDone(p)
      PROVE  HoldInv'
  BY <1>14 DEF QueueDone, Goto
<1>15. ASSUME NEW p \in Proc, ReleaseLock(p)
      PROVE  HoldInv'
  BY <1>15 DEF ReleaseLock, Goto
<1>16. ASSUME NEW p \in Proc, TickRaises(p)
      PROVE  HoldInv'
  <2>1. UNCHANGED <<analysis_status, stale, current>>
    BY <1>16 DEF TickRaises
  <2>2. \A v \in Worker : pc'[v] \in {"analyze", "save", "revert"} => pc'[v] = pc[v]
    BY <1>16 DEF TickRaises, Goto
  <2>3. \A d \in Diary : \A v \in Worker : Holds(v, d)' => Holds(v, d)
    BY <2>1, <2>2
  <2>4. QED
    BY <2>1, <2>3
<1>17. ASSUME NEW p \in Proc, Crash(p)
      PROVE  HoldInv'
  BY <1>17 DEF Crash, Fault
<1>18. ASSUME NEW p \in Proc, Restart(p)
      PROVE  HoldInv'
  BY <1>18 DEF Restart
<1>19. ASSUME NEW p \in Proc, LoseLock(p)
      PROVE  HoldInv'
  BY <1>19 DEF LoseLock, Fault
<1>20. ASSUME NEW p \in Proc, NEW ds \in SUBSET Diary, Upload(p, ds)
      PROVE  HoldInv'
  BY <1>20 DEF Upload
<1>21. ASSUME NEW d \in Diary, GrowStale(d)
      PROVE  HoldInv'
  BY <1>21 DEF GrowStale
<1>22. ASSUME NEW d \in Diary, EditDiary(d)
      PROVE  HoldInv'
  BY <1>22 DEF EditDiary
<1>23. ASSUME NEW d \in Diary, DeleteDiary(d)
      PROVE  HoldInv'
  BY <1>23 DEF DeleteDiary
<1>24. CASE DeleteUser
  BY <1>24 DEF DeleteUser
<1>25. CASE UNCHANGED vars
  BY <1>25 DEF vars
<1>26. QED
  BY <1>1, <1>2, <1>3, <1>4, <1>5, <1>6, <1>7, <1>8, <1>9, <1>10, <1>11, <1>12,
     <1>13, <1>14, <1>15, <1>16, <1>17, <1>18, <1>19, <1>20, <1>21, <1>22, <1>23,
     <1>24, <1>25
     DEF Next, WorkerStep, TickStep

\* Unless a worker stalls beyond the stale threshold, no two workers analyse a
\* diary at the same time, even when ticks overlap because the lock was lost
\* and the background task comes late.
THEOREM OneAnalysisAtATimeAlways ==
    ASSUME "stall" \notin Adversity
    PROVE  Spec => []OneAnalysisAtATime
<1>1. HoldInv => OneAnalysisAtATime
  BY DEF HoldInv
<1>2. TypeInv /\ HoldInv /\ [Next]_vars => HoldInv'
  BY HoldStep
<1>3. QED
  BY <1>1, <1>2, TypeInvariance, HoldInit, PTL DEF Spec
=============================================================================
