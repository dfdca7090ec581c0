----------------------- MODULE AnalysisLifecycleProofs -----------------------
(***************************************************************************)
(* What a client sees of AnalysisPipeline, where no lock is lost, no       *)
(* worker stalls and no background task comes late: it implements          *)
(* DiaryLifecycle, a diary that is settled stays so, and a failure is      *)
(* announced once.  And, whatever happens: completion pushes do not        *)
(* outnumber attempts, and attempts exceed the limit by at most one for    *)
(* each process.                                                           *)
(***************************************************************************)
EXTENDS AnalysisPipelineProofs, FiniteSetTheorems

\* A diary that waits for its turn, and not for its background run.
Waiting(d) == row[d] # "absent" /\ analysis_status[d] = "pending" /\ pc[d] # "claim"

\* What a tick has listed stays as it was listed until the tick gets there.
QueueInv == \A p \in Proc : \A d \in queue[p] : Waiting(d) /\ Ticking(p)

TurnInv ==
    \A p \in Proc :
        /\ pc[p] \in {"expire", "list", "unlock"} => queue[p] = {}
        /\ pc[p] \in {"claim", "exhaust"} => Waiting(current[p]) /\ current[p] \notin queue[p]
        /\ pc[p] = "claim" => AttemptsLeft(current[p])

\* The background run is the first to try, on a row nobody has touched.
BackgroundInv ==
    \A d \in Diary :
        /\ row[d] = "absent" => send_cnt[d] = 0 /\ analysis_status[d] = "pending"
        /\ pc[d] = "claim" => row[d] # "absent" /\ send_cnt[d] = 0 /\ analysis_status[d] = "pending"

HeldInv == \A d \in Diary : \A w \in Worker : Holds(w, d) => analysis_status[d] = "processing"

TimelyInv == QueueInv /\ TurnInv /\ BackgroundInv /\ HeldInv

LEMMA TimelyInit == Init => TimelyInv
BY ConstantsAssumption DEF Init, TimelyInv, QueueInv, TurnInv, BackgroundInv, HeldInv, Holds, Worker

LEMMA TimelyStep ==
    ASSUME Adversity \cap {"lock_loss", "stall", "late_bg"} = {},
           TypeInv, LockInv, HoldInv, TimelyInv, [Next]_vars
    PROVE  TimelyInv'
<1> USE ConstantsAssumption DEF TypeInv, TypeOK, WorkersHaveDiaries, Statuses, WorkSteps,
        TickSteps, Worker, diaryVars, tickVars, TimelyInv, QueueInv, TurnInv, BackgroundInv,
        HeldInv, HoldInv, OneAnalysisAtATime, LockInv, Ticking, Holds, On, Waiting, AttemptsLeft
<1>1. ASSUME NEW w \in Worker, ClaimDiary(w)
      PROVE  TimelyInv'
  BY <1>1 DEF ClaimDiary, ClaimRefused, Claimable, Update, On, Goto, Return
<1>2. ASSUME NEW w \in Worker, AnalyzeDiary(w)
      PROVE  TimelyInv'
  BY <1>2 DEF AnalyzeDiary, Goto, On
<1>3. ASSUME NEW w \in Worker, SaveAnalysisResult(w)
      PROVE  TimelyInv'
  BY <1>3 DEF SaveAnalysisResult, Goto, On, MarkedDone
<1>4. ASSUME NEW w \in Worker, SaveFails(w)
      PROVE  TimelyInv'
  BY <1>4 DEF SaveFails, Goto, On
<1>5. ASSUME NEW w \in Worker, RevertToPending(w)
      PROVE  TimelyInv'
  BY <1>5 DEF RevertToPending, Goto, On, Update, Revertible
<1>6. ASSUME NEW w \in Worker, NotifyComplete(w)
      PROVE  TimelyInv'
  BY <1>6 DEF NotifyComplete, Return, Goto, On
<1>7. ASSUME NEW w \in Worker, WorkerRaises(w)
      PROVE  TimelyInv'
  BY <1>7 DEF WorkerRaises, Fault, Return, Goto, On
<1>8. ASSUME NEW p \in Proc, TryAcquireLock(p)
      PROVE  TimelyInv'
  BY <1>8 DEF TryAcquireLock, Goto, LockFree
<1>9. ASSUME NEW p \in Proc, ExpireStaleDiaries(p)
      PROVE  TimelyInv'
  BY <1>9 DEF ExpireStaleDiaries, Goto, Update, Expired
<1>10. ASSUME NEW p \in Proc, ListPendingDiaries(p)
      PROVE  TimelyInv'
  BY <1>10 DEF ListPendingDiaries, Goto, Pending
<1>11. ASSUME NEW p \in Proc, NEW d \in Diary, DispatchDiary(p, d)
      PROVE  TimelyInv'
  BY <1>11 DEF DispatchDiary, Goto, AttemptsLeft
<1>12. ASSUME NEW p \in Proc, ExhaustFailedDiary(p)
      PROVE  TimelyInv'
  <2>1. /\ pc[p] = "exhaust" /\ pc'[p] \in {"next", "notify_failed"}
        /\ \A v \in Worker : v # p => pc'[v] = pc[v]
        /\ \A d \in Diary : d # current[p] => analysis_status'[d] = analysis_status[d]
        /\ UNCHANGED <<row, send_cnt, lock, queue, current>>
    BY <1>12 DEF ExhaustFailedDiary, Goto, Update
  <2>2. \A q \in Proc : q # p => pc[q] = "idle" /\ queue[q] = {}
    BY <2>1
  <2>3. Waiting(current[p]) /\ current[p] \in Diary /\ current[p] \notin queue[p]
    BY <2>1
  <2>4. \A v \in Worker : \A d \in Diary : Holds(v, d)' => Holds(v, d) /\ d # current[p]
    BY <2>1, <2>3
  <2>5. HeldInv'
    BY <2>1, <2>4
  <2>6. BackgroundInv'
    BY <2>1, <2>3
  <2>7. QueueInv'
    <3>1. ASSUME NEW q \in Proc, NEW d \in queue'[q]
          PROVE  Waiting(d)' /\ Ticking(q)'
      <4>1. q = p /\ d \in Diary /\ d \in queue[p] /\ d # current[p] /\ Waiting(d)
        BY <2>1, <2>2, <2>3, <3>1
      <4>2. Waiting(d)'
        BY <2>1, <4>1
      <4>3. Ticking(q)'
        BY <2>1, <4>1
      <4>4. QED
        BY <4>2, <4>3
    <3>2. QED
      BY <3>1
  <2>8. TurnInv'
    BY <2>1, <2>2
  <2>9. QED
    BY <2>5, <2>6, <2>7, <2>8
<1>13. ASSUME NEW p \in Proc, NotifyFailed(p)
      PROVE  TimelyInv'
  BY <1>13 DEF NotifyFailed, Goto
<1>14. ASSUME NEW p \in Proc, QueueDone(p)
      PROVE  TimelyInv'
  BY <1>14 DEF QueueDone, Goto
<1>15. ASSUME NEW p \in Proc, ReleaseLock(p)
      PROVE  TimelyInv'
  BY <1>15 DEF ReleaseLock, Goto
<1>16. ASSUME NEW p \in Proc, TickRaises(p)
      PROVE  TimelyInv'
  <2>1. /\ UNCHANGED <<row, analysis_status, send_cnt, stale, lock, current>>
        /\ \A q \in Proc : q # p => queue'[q] = queue[q]
        /\ queue'[p] \subseteq queue[p]
        /\ \A v \in Worker : v # p => pc'[v] = pc[v]
        /\ \/ pc[p] \in {"expire", "list"} /\ pc'[p] = "unlock"
           \/ pc[p] \in {"exhaust", "notify_failed", "next"} /\ pc'[p] = "next"
    BY <1>16 DEF TickRaises, Goto
  <2>2. \A v \in Worker : \A d \in Diary : Holds(v, d)' => Holds(v, d)
    BY <2>1
  <2>3. HeldInv' /\ BackgroundInv'
    BY <2>1, <2>2
  <2>4. QueueInv'
    <3>1. ASSUME NEW q \in Proc, NEW d \in queue'[q]
          PROVE  Waiting(d)' /\ Ticking(q)'
      <4>1. d \in queue[q]
        BY <2>1, <3>1
      <4>2. d \in Diary /\ Waiting(d) /\ Ticking(q)
        BY <4>1
      <4>3. Waiting(d)'
        BY <2>1, <4>2
      <4>4. Ticking(q)'
        BY <2>1, <4>2
      <4>5. QED
        BY <4>3, <4>4
    <3>2. QED
      BY <3>1
  <2>5. TurnInv'
    <3>1. \A q \in Proc : q # p => pc'[q] = "idle"
      BY <2>1
    <3>2. pc'[p] = "unlock" => queue'[p] = {}
      BY <2>1
    <3>3. pc'[p] \in {"unlock", "next"}
      BY <2>1
    <3>4. QED
      BY <3>1, <3>2, <3>3
  <2>6. QED
    BY <2>3, <2>4, <2>5
<1>17. ASSUME NEW p \in Proc, Crash(p)
      PROVE  TimelyInv'
  BY <1>17 DEF Crash, Fault
<1>18. ASSUME NEW p \in Proc, Restart(p)
      PROVE  TimelyInv'
  BY <1>18 DEF Restart
<1>19. ASSUME NEW p \in Proc, LoseLock(p)
      PROVE  TimelyInv'
  BY <1>19 DEF LoseLock, Fault
<1>20. ASSUME NEW p \in Proc, NEW ds \in SUBSET Diary, Upload(p, ds)
      PROVE  TimelyInv'
  BY <1>20 DEF Upload
<1>21. ASSUME NEW d \in Diary, GrowStale(d)
      PROVE  TimelyInv'
  BY <1>21 DEF GrowStale
<1>22. ASSUME NEW d \in Diary, EditDiary(d)
      PROVE  TimelyInv'
  BY <1>22 DEF EditDiary
<1>23. ASSUME NEW d \in Diary, DeleteDiary(d)
      PROVE  TimelyInv'
  BY <1>23 DEF DeleteDiary
<1>24. CASE DeleteUser
  BY <1>24 DEF DeleteUser, Exists
<1>25. CASE UNCHANGED vars
  BY <1>25 DEF vars
<1>26. QED
  BY <1>1, <1>2, <1>3, <1>4, <1>5, <1>6, <1>7, <1>8, <1>9, <1>10, <1>11, <1>12,
     <1>13, <1>14, <1>15, <1>16, <1>17, <1>18, <1>19, <1>20, <1>21, <1>22, <1>23,
     <1>24, <1>25
     DEF Next, WorkerStep, TickStep

\* What the theorems below are proved from.
ClientInv == TypeInv /\ LockInv /\ HoldInv /\ ExhaustInv /\ TimelyInv

LEMMA ClientInvariance ==
    ASSUME Adversity \cap {"lock_loss", "stall", "late_bg"} = {}
    PROVE  Spec => []ClientInv
<1>1. Init => ClientInv
  BY TypeInit, LockInit, HoldInit, ExhaustInit, TimelyInit DEF ClientInv
<1>2. TypeInv /\ LockInv /\ [Next]_vars => LockInv'
  BY LockStep
<1>3. TypeInv /\ HoldInv /\ [Next]_vars => HoldInv'
  BY HoldStep
<1>4. ClientInv /\ [Next]_vars => ClientInv'
  BY <1>2, <1>3, TypeStep, ExhaustStep, TimelyStep DEF ClientInv
<1>5. QED
  BY <1>1, <1>4, PTL DEF Spec
-----------------------------------------------------------------------------
\* A diary that is done or failed keeps its status, and if it is done what the
\* user wrote into it.
Kept == \A d \in Diary :
    /\ analysis_status[d] \in {"done", "failed"} => analysis_status'[d] = analysis_status[d]
    /\ restaurant[d] = "user" /\ analysis_status[d] = "done" => restaurant'[d] = "user"

\* Every step keeps them.
LEMMA KeptStep == ClientInv /\ [Next]_vars => Kept
<1> SUFFICES ASSUME ClientInv, [Next]_vars
             PROVE  Kept
  OBVIOUS
<1> USE ConstantsAssumption DEF ClientInv, TypeInv, TypeOK, WorkersHaveDiaries, Statuses,
        WorkSteps, TickSteps, Worker, diaryVars, tickVars, TimelyInv, TurnInv, BackgroundInv,
        HeldInv, Holds, On, Waiting, Kept
<1>1. ASSUME NEW w \in Worker, ClaimDiary(w)
      PROVE  Kept
  BY <1>1 DEF ClaimDiary, ClaimRefused, Claimable, Update, On, Goto, Return
<1>2. ASSUME NEW w \in Worker, AnalyzeDiary(w)
      PROVE  Kept
  BY <1>2 DEF AnalyzeDiary, Goto, On
<1>3. ASSUME NEW w \in Worker, SaveAnalysisResult(w)
      PROVE  Kept
  BY <1>3 DEF SaveAnalysisResult, Goto, On, MarkedDone
<1>4. ASSUME NEW w \in Worker, SaveFails(w)
      PROVE  Kept
  BY <1>4 DEF SaveFails, Goto, On
<1>5. ASSUME NEW w \in Worker, RevertToPending(w)
      PROVE  Kept
  BY <1>5 DEF RevertToPending, Goto, On, Update, Revertible
<1>6. ASSUME NEW w \in Worker, NotifyComplete(w)
      PROVE  Kept
  BY <1>6 DEF NotifyComplete, Return, Goto, On
<1>7. ASSUME NEW w \in Worker, WorkerRaises(w)
      PROVE  Kept
  BY <1>7 DEF WorkerRaises, Fault, Return, Goto, On
<1>8. ASSUME NEW p \in Proc, TryAcquireLock(p)
      PROVE  Kept
  BY <1>8 DEF TryAcquireLock, Goto, LockFree
<1>9. ASSUME NEW p \in Proc, ExpireStaleDiaries(p)
      PROVE  Kept
  BY <1>9 DEF ExpireStaleDiaries, Goto, Update, Expired
<1>10. ASSUME NEW p \in Proc, ListPendingDiaries(p)
      PROVE  Kept
  BY <1>10 DEF ListPendingDiaries, Goto, Pending
<1>11. ASSUME NEW p \in Proc, NEW d \in Diary, DispatchDiary(p, d)
      PROVE  Kept
  BY <1>11 DEF DispatchDiary, Goto, AttemptsLeft
<1>12. ASSUME NEW p \in Proc, ExhaustFailedDiary(p)
      PROVE  Kept
  BY <1>12 DEF ExhaustFailedDiary, Goto, Update
<1>13. ASSUME NEW p \in Proc, NotifyFailed(p)
      PROVE  Kept
  BY <1>13 DEF NotifyFailed, Goto
<1>14. ASSUME NEW p \in Proc, QueueDone(p)
      PROVE  Kept
  BY <1>14 DEF QueueDone, Goto
<1>15. ASSUME NEW p \in Proc, ReleaseLock(p)
      PROVE  Kept
  BY <1>15 DEF ReleaseLock, Goto
<1>16. ASSUME NEW p \in Proc, TickRaises(p)
      PROVE  Kept
  BY <1>16 DEF TickRaises, Fault, Goto
<1>17. ASSUME NEW p \in Proc, Crash(p)
      PROVE  Kept
  BY <1>17 DEF Crash, Fault
<1>18. ASSUME NEW p \in Proc, Restart(p)
      PROVE  Kept
  BY <1>18 DEF Restart
<1>19. ASSUME NEW p \in Proc, LoseLock(p)
      PROVE  Kept
  BY <1>19 DEF LoseLock, Fault
<1>20. ASSUME NEW p \in Proc, NEW ds \in SUBSET Diary, Upload(p, ds)
      PROVE  Kept
  BY <1>20 DEF Upload
<1>21. ASSUME NEW d \in Diary, GrowStale(d)
      PROVE  Kept
  BY <1>21 DEF GrowStale
<1>22. ASSUME NEW d \in Diary, EditDiary(d)
      PROVE  Kept
  BY <1>22 DEF EditDiary
<1>23. ASSUME NEW d \in Diary, DeleteDiary(d)
      PROVE  Kept
  BY <1>23 DEF DeleteDiary
<1>24. CASE DeleteUser
  BY <1>24 DEF DeleteUser, Exists
<1>25. CASE UNCHANGED vars
  BY <1>25 DEF vars
<1>26. QED
  BY <1>1, <1>2, <1>3, <1>4, <1>5, <1>6, <1>7, <1>8, <1>9, <1>10, <1>11, <1>12,
     <1>13, <1>14, <1>15, <1>16, <1>17, <1>18, <1>19, <1>20, <1>21, <1>22, <1>23,
     <1>24, <1>25
     DEF Next, WorkerStep, TickStep

\* While no lock is lost, no worker stalls and no background task comes late, a
\* diary that a client has seen as done or failed stays so.
THEOREM SettledStaysAlways ==
    ASSUME Adversity \cap {"lock_loss", "stall", "late_bg"} = {}
    PROVE  Spec => SettledStays
<1>1. ClientInv /\ [Next]_vars =>
        [\A d \in Diary : analysis_status[d] \in {"done", "failed"} =>
                              analysis_status'[d] = analysis_status[d]]_vars
  BY KeptStep DEF Kept
<1>2. Spec => []ClientInv
  BY ClientInvariance
<1>3. QED
  BY <1>1, <1>2, PTL DEF Spec, SettledStays

\* Under the same conditions no worker overwrites what the user wrote into a
\* diary after its analysis.
THEOREM EditsAfterDoneSurviveAlways ==
    ASSUME Adversity \cap {"lock_loss", "stall", "late_bg"} = {}
    PROVE  Spec => EditsAfterDoneSurvive
<1>1. ClientInv /\ [Next]_vars =>
        [\A d \in Diary : restaurant[d] = "user" /\ analysis_status[d] = "done" =>
                              restaurant'[d] = "user"]_vars
  BY KeptStep DEF Kept
<1>2. Spec => []ClientInv
  BY ClientInvariance
<1>3. QED
  BY <1>1, <1>2, PTL DEF Spec, EditsAfterDoneSurvive
-----------------------------------------------------------------------------
\* The refinement of DiaryLifecycle.  A step that leaves status, counter and
\* presence of every row alone is no step of a diary's life.
LEMMA LifecycleStutter ==
    UNCHANGED <<row, analysis_status, send_cnt>> => UNCHANGED Lifecycle!vars
BY DEF Lifecycle!vars

\* A step of one diary, or of several, is a step of DiaryLifecycle.
LEMMA OneMoves ==
    ASSUME NEW d \in Diary,
           Lifecycle!Attempt(d) \/ Lifecycle!Succeed(d) \/ Lifecycle!GiveUp(d)
    PROVE  Lifecycle!Next
BY DEF Lifecycle!Next

LEMMA ManyMove ==
    ASSUME NEW ds \in SUBSET Diary,
           Lifecycle!Create(ds) \/ Lifecycle!GiveBack(ds) \/ Lifecycle!Remove(ds)
    PROVE  Lifecycle!Next
BY DEF Lifecycle!Next

\* No diary exists, and none has been tried.
LEMMA LifecycleInit == Init => Lifecycle!Init
BY DEF Init, Lifecycle!Init

\* A claim of a live diary is an attempt it still has; a tick has checked so,
\* and a background run is the first to come.
LEMMA ClaimIsAttempt ==
    ASSUME ClientInv, NEW w \in Worker, NEW d \in Diary, d = On(w), ClaimDiary(w)
    PROVE  Lifecycle!Attempt(d) \/ UNCHANGED Lifecycle!vars
<1> USE ConstantsAssumption DEF ClientInv, TypeInv, TypeOK
<1>1. CASE row[d] # "active" \/ ~Claimable(d)
  BY <1>1 DEF ClaimDiary, Lifecycle!vars, Update, Claimable, Exists
<1>2. CASE row[d] = "active" /\ Claimable(d)
  <2>1. send_cnt[d] < MaxSend
    BY DEF ClaimDiary, WorkersHaveDiaries, WorkSteps, On, Worker, TimelyInv, TurnInv,
       BackgroundInv, AttemptsLeft
  <2>2. /\ analysis_status[d] = "pending"
        /\ UNCHANGED row
        /\ analysis_status' = [analysis_status EXCEPT ![d] = "processing"]
        /\ send_cnt' = [send_cnt EXCEPT ![d] = @ + 1]
    BY <1>2, <2>1 DEF ClaimDiary, Update, Claimable, Exists
  <2>3. QED
    BY <1>2, <2>1, <2>2 DEF Lifecycle!Attempt, Lifecycle!Move
<1>3. QED
  BY <1>1, <1>2

\* A save of a live diary ends an attempt, which was under way.
LEMMA SaveIsSuccess ==
    ASSUME ClientInv, NEW w \in Worker, NEW d \in Diary, d = On(w), SaveAnalysisResult(w)
    PROVE  Lifecycle!Succeed(d) \/ UNCHANGED Lifecycle!vars
<1> USE ConstantsAssumption DEF ClientInv, TypeInv, TypeOK, SaveAnalysisResult
<1>1. CASE row[d] # "active"
  BY <1>1 DEF Lifecycle!vars
<1>2. CASE row[d] = "active"
  <2>1. analysis_status[d] = "processing"
    BY DEF TimelyInv, HeldInv, Holds, WorkersHaveDiaries, WorkSteps, On, Worker
  <2>2. /\ UNCHANGED <<row, send_cnt>>
        /\ \A e \in Diary :
               analysis_status'[e] = IF e = d THEN "done" ELSE analysis_status[e]
    BY <2>1 DEF MarkedDone, Statuses
  <2>3. QED
    BY <1>2, <2>1, <2>2 DEF Lifecycle!Succeed, Lifecycle!Move
<1>3. QED
  BY <1>1, <1>2

\* A revert of a live diary gives it back.
LEMMA RevertIsGiveBack ==
    ASSUME ClientInv, NEW w \in Worker, NEW d \in Diary, d = On(w), RevertToPending(w)
    PROVE  Lifecycle!GiveBack({d}) \/ UNCHANGED Lifecycle!vars
<1> USE ConstantsAssumption DEF ClientInv, TypeInv, TypeOK, RevertToPending
<1>1. analysis_status[d] = "processing"
  BY DEF TimelyInv, HeldInv, Holds, WorkersHaveDiaries, WorkSteps, On, Worker
<1>2. /\ UNCHANGED <<row, send_cnt>>
      /\ \A e \in Diary : analysis_status'[e] =
             IF e = d /\ Revertible(e) THEN "pending" ELSE analysis_status[e]
      /\ analysis_status' \in [Diary -> Statuses]
  BY DEF Update, Statuses
<1>3. CASE row[d] # "active"
  BY <1>1, <1>2, <1>3 DEF Lifecycle!vars
<1>4. CASE row[d] = "active"
  BY <1>1, <1>2, <1>4 DEF Lifecycle!GiveBack, Revertible, Exists
<1>5. QED
  BY <1>3, <1>4

\* A diary marked failed was pending, with no attempt left.
LEMMA ExhaustIsGiveUp ==
    ASSUME ClientInv, NEW p \in Proc, NEW d \in Diary, d = current[p], ExhaustFailedDiary(p)
    PROVE  Lifecycle!GiveUp(d) \/ UNCHANGED Lifecycle!vars
<1> USE ConstantsAssumption DEF ClientInv, TypeInv, TypeOK, ExhaustFailedDiary
<1>1. analysis_status[d] = "pending" /\ send_cnt[d] >= MaxSend
  BY DEF TimelyInv, TurnInv, Waiting, ExhaustInv, WorkersHaveDiaries
<1>2. /\ UNCHANGED <<row, send_cnt>>
      /\ \A e \in Diary : analysis_status'[e] =
             IF e = d /\ row[e] = "active" THEN "failed" ELSE analysis_status[e]
      /\ analysis_status' \in [Diary -> Statuses]
  BY DEF Update, Statuses
<1>3. CASE row[d] # "active"
  BY <1>1, <1>2, <1>3 DEF Lifecycle!vars
<1>4. CASE row[d] = "active"
  <2>1. Lifecycle!Move(d, "pending", "failed")
    BY <1>1, <1>2, <1>4 DEF Lifecycle!Move
  <2>2. QED
    BY <1>1, <1>2, <1>4, <2>1 DEF Lifecycle!GiveUp
<1>5. QED
  BY <1>3, <1>4

\* Every step of the pipeline is a step of DiaryLifecycle or none.
LEMMA LifecycleStep == ClientInv /\ [Next]_vars => [Lifecycle!Next]_(Lifecycle!vars)
<1> SUFFICES ASSUME ClientInv, [Next]_vars
             PROVE  Lifecycle!Next \/ UNCHANGED Lifecycle!vars
  OBVIOUS
<1> USE DEF diaryVars, tickVars
<1>1. ASSUME NEW w \in Worker, ClaimDiary(w)
      PROVE  Lifecycle!Next \/ UNCHANGED Lifecycle!vars
  <2>1. PICK d \in Diary : d = On(w)
    BY <1>1 DEF ClaimDiary, ClientInv, TypeInv, WorkersHaveDiaries, WorkSteps, On, Worker
  <2>2. QED
    BY <1>1, <2>1, ClaimIsAttempt, OneMoves
<1>2. ASSUME NEW w \in Worker, AnalyzeDiary(w)
      PROVE  Lifecycle!Next \/ UNCHANGED Lifecycle!vars
  BY <1>2, LifecycleStutter DEF AnalyzeDiary
<1>3. ASSUME NEW w \in Worker, SaveAnalysisResult(w)
      PROVE  Lifecycle!Next \/ UNCHANGED Lifecycle!vars
  <2>1. PICK d \in Diary : d = On(w)
    BY <1>3 DEF SaveAnalysisResult, ClientInv, TypeInv, WorkersHaveDiaries, WorkSteps, On, Worker
  <2>2. QED
    BY <1>3, <2>1, SaveIsSuccess, OneMoves
<1>4. ASSUME NEW w \in Worker, SaveFails(w)
      PROVE  Lifecycle!Next \/ UNCHANGED Lifecycle!vars
  BY <1>4, LifecycleStutter DEF SaveFails
<1>5. ASSUME NEW w \in Worker, RevertToPending(w)
      PROVE  Lifecycle!Next \/ UNCHANGED Lifecycle!vars
  <2>1. PICK d \in Diary : d = On(w)
    BY <1>5 DEF RevertToPending, ClientInv, TypeInv, WorkersHaveDiaries, WorkSteps, On, Worker
  <2>2. Lifecycle!GiveBack({d}) \/ UNCHANGED Lifecycle!vars
    BY <1>5, <2>1, RevertIsGiveBack
  <2>3. {d} \in SUBSET Diary
    OBVIOUS
  <2>4. QED
    BY <2>2, <2>3, ManyMove
<1>6. ASSUME NEW w \in Worker, NotifyComplete(w)
      PROVE  Lifecycle!Next \/ UNCHANGED Lifecycle!vars
  BY <1>6, LifecycleStutter DEF NotifyComplete
<1>7. ASSUME NEW w \in Worker, WorkerRaises(w)
      PROVE  Lifecycle!Next \/ UNCHANGED Lifecycle!vars
  BY <1>7, LifecycleStutter DEF WorkerRaises
<1>8. ASSUME NEW p \in Proc, TryAcquireLock(p)
      PROVE  Lifecycle!Next \/ UNCHANGED Lifecycle!vars
  BY <1>8, LifecycleStutter DEF TryAcquireLock
<1>9. ASSUME NEW p \in Proc, ExpireStaleDiaries(p)
      PROVE  Lifecycle!Next \/ UNCHANGED Lifecycle!vars
  <2>1. PICK ds \in SUBSET Diary : ds = {d \in Diary : Expired(d)}
    OBVIOUS
  <2>2. Lifecycle!GiveBack(ds)
    BY <1>9, <2>1 DEF ExpireStaleDiaries, Lifecycle!GiveBack, ClientInv, TypeInv, TypeOK,
       Expired, Update
  <2>3. QED
    BY <2>2, ManyMove
<1>10. ASSUME NEW p \in Proc, ListPendingDiaries(p)
      PROVE  Lifecycle!Next \/ UNCHANGED Lifecycle!vars
  BY <1>10, LifecycleStutter DEF ListPendingDiaries
<1>11. ASSUME NEW p \in Proc, NEW d \in Diary, DispatchDiary(p, d)
      PROVE  Lifecycle!Next \/ UNCHANGED Lifecycle!vars
  BY <1>11, LifecycleStutter DEF DispatchDiary
<1>12. ASSUME NEW p \in Proc, ExhaustFailedDiary(p)
      PROVE  Lifecycle!Next \/ UNCHANGED Lifecycle!vars
  <2>1. PICK d \in Diary : d = current[p]
    BY <1>12 DEF ExhaustFailedDiary, ClientInv, TypeInv, WorkersHaveDiaries
  <2>2. QED
    BY <1>12, <2>1, ExhaustIsGiveUp, OneMoves
<1>13. ASSUME NEW p \in Proc, NotifyFailed(p)
      PROVE  Lifecycle!Next \/ UNCHANGED Lifecycle!vars
  BY <1>13, LifecycleStutter DEF NotifyFailed
<1>14. ASSUME NEW p \in Proc, QueueDone(p)
      PROVE  Lifecycle!Next \/ UNCHANGED Lifecycle!vars
  BY <1>14, LifecycleStutter DEF QueueDone
<1>15. ASSUME NEW p \in Proc, ReleaseLock(p)
      PROVE  Lifecycle!Next \/ UNCHANGED Lifecycle!vars
  BY <1>15, LifecycleStutter DEF ReleaseLock
<1>16. ASSUME NEW p \in Proc, TickRaises(p)
      PROVE  Lifecycle!Next \/ UNCHANGED Lifecycle!vars
  BY <1>16, LifecycleStutter DEF TickRaises
<1>17. ASSUME NEW p \in Proc, Crash(p)
      PROVE  Lifecycle!Next \/ UNCHANGED Lifecycle!vars
  BY <1>17, LifecycleStutter DEF Crash
<1>18. ASSUME NEW p \in Proc, Restart(p)
      PROVE  Lifecycle!Next \/ UNCHANGED Lifecycle!vars
  BY <1>18, LifecycleStutter DEF Restart
<1>19. ASSUME NEW p \in Proc, LoseLock(p)
      PROVE  Lifecycle!Next \/ UNCHANGED Lifecycle!vars
  BY <1>19, LifecycleStutter DEF LoseLock
<1>20. ASSUME NEW p \in Proc, NEW ds \in SUBSET Diary, Upload(p, ds)
      PROVE  Lifecycle!Next \/ UNCHANGED Lifecycle!vars
  <2>1. Lifecycle!Create(ds)
    BY <1>20 DEF Upload, Lifecycle!Create, ClientInv, TypeInv, TypeOK, TimelyInv, BackgroundInv
  <2>2. QED
    BY <2>1, ManyMove
<1>21. ASSUME NEW d \in Diary, GrowStale(d)
      PROVE  Lifecycle!Next \/ UNCHANGED Lifecycle!vars
  BY <1>21, LifecycleStutter DEF GrowStale
<1>22. ASSUME NEW d \in Diary, EditDiary(d)
      PROVE  Lifecycle!Next \/ UNCHANGED Lifecycle!vars
  BY <1>22, LifecycleStutter DEF EditDiary
<1>23. ASSUME NEW d \in Diary, DeleteDiary(d)
      PROVE  Lifecycle!Next \/ UNCHANGED Lifecycle!vars
  <2>1. Lifecycle!Remove({d})
    BY <1>23 DEF DeleteDiary, Lifecycle!Remove, ClientInv, TypeInv, TypeOK
  <2>2. QED
    BY <2>1, ManyMove
<1>24. CASE DeleteUser
  <2>1. PICK ds \in SUBSET Diary : ds = {d \in Diary : Exists(d)}
    OBVIOUS
  <2>2. Lifecycle!Remove(ds)
    BY <1>24, <2>1 DEF DeleteUser, Lifecycle!Remove, ClientInv, TypeInv, TypeOK, Exists
  <2>3. QED
    BY <2>2, ManyMove
<1>25. CASE UNCHANGED vars
  BY <1>25, LifecycleStutter DEF vars
<1>26. QED
  BY <1>1, <1>2, <1>3, <1>4, <1>5, <1>6, <1>7, <1>8, <1>9, <1>10, <1>11, <1>12,
     <1>13, <1>14, <1>15, <1>16, <1>17, <1>18, <1>19, <1>20, <1>21, <1>22, <1>23,
     <1>24, <1>25
     DEF Next, WorkerStep, TickStep

\* As long as no lock is lost, no worker stalls and no background task comes
\* late, the pipeline implements DiaryLifecycle: a diary goes through its
\* statuses in order, is analysed at most MAX_SEND_CNT times, and is given up
\* only after that, whatever crashes and errors happen on the way.
THEOREM Refinement ==
    ASSUME Adversity \cap {"lock_loss", "stall", "late_bg"} = {}
    PROVE  Spec => ImplementsLifecycle
<1>1. Spec => []ClientInv
  BY ClientInvariance
<1>2. QED
  BY <1>1, LifecycleInit, LifecycleStep, PTL DEF Spec, ImplementsLifecycle, Lifecycle!Spec
-----------------------------------------------------------------------------
\* What the pipeline counts.  Each bound counts the workers that may still add to it
\* together with what is there already.

\* The places of pushes are finitely many, and new ones come last.
LEMMA PlacesFinite ==
    ASSUME TypeOK, NEW d \in Diary, NEW type
    PROVE  IsFiniteSet(PushesOf(d, type)) /\ PushesOf(d, type) \subseteq 1 .. Len(pushes[d])
<1>1. pushes[d] \in Seq(Push) /\ Len(pushes[d]) \in Nat
  BY DEF TypeOK
<1>2. PushesOf(d, type) \subseteq 1 .. Len(pushes[d])
  BY <1>1 DEF PushesOf
<1>3. IsFiniteSet(1 .. Len(pushes[d]))
  BY <1>1, FS_Interval
<1>4. QED
  BY <1>2, <1>3, FS_Subset

\* A push adds its own place to those of its diary and type, and to no other.
LEMMA SendPushPlace ==
    ASSUME TypeOK, NEW d \in Diary, NEW day \in Day,
           NEW type \in {"analysis_complete", "analysis_failed"},
           SendPush(d, type, day),
           NEW e \in Diary, NEW t
    PROVE  /\ e = d /\ t = type =>
                 PushesOf(e, t)' = PushesOf(e, t) \cup {Len(pushes[d]) + 1}
           /\ e # d \/ t # type => PushesOf(e, t)' = PushesOf(e, t)
<1> DEFINE push == [type |-> type, diary_date |-> day]
<1>1. pushes[d] \in Seq(Push) /\ pushes[e] \in Seq(Push) /\ push \in Push
  BY DEF TypeOK, Push
<1>2. pushes'[e] = IF e = d THEN Append(pushes[d], push) ELSE pushes[e]
  BY DEF SendPush, TypeOK
<1>3. push.type = type
  OBVIOUS
<1> HIDE DEF push
<1>4. CASE e = d
  <2>1. /\ Len(Append(pushes[d], push)) = Len(pushes[d]) + 1
        /\ \A i \in 1 .. Len(pushes[d]) : Append(pushes[d], push)[i] = pushes[d][i]
        /\ Append(pushes[d], push)[Len(pushes[d]) + 1] = push
        /\ DOMAIN Append(pushes[d], push) = 1 .. Len(pushes[d]) + 1
        /\ DOMAIN pushes[d] = 1 .. Len(pushes[d])
        /\ Len(pushes[d]) \in Nat
    BY <1>1
  <2>2. QED
    BY <1>2, <1>3, <1>4, <2>1 DEF PushesOf
<1>5. CASE e # d
  BY <1>2, <1>5 DEF PushesOf
<1>6. QED
  BY <1>4, <1>5
-----------------------------------------------------------------------------
\* A failure is announced by the tick that has just given the diary up.
AnnounceInv ==
    /\ \A d \in Diary : analysis_status[d] # "failed" => PushesOf(d, "analysis_failed") = {}
    /\ \A p \in Proc : pc[p] = "notify_failed" =>
          analysis_status[current[p]] = "failed" /\ PushesOf(current[p], "analysis_failed") = {}
    /\ \A d \in Diary : \A i, j \in PushesOf(d, "analysis_failed") : i = j

LEMMA AnnounceInit == Init => AnnounceInv
BY ConstantsAssumption DEF Init, AnnounceInv, PushesOf, Worker

LEMMA AnnounceStep == ClientInv /\ AnnounceInv /\ [Next]_vars => AnnounceInv'
<1> SUFFICES ASSUME ClientInv, AnnounceInv, [Next]_vars
             PROVE  AnnounceInv'
  OBVIOUS
<1>0. pushes' = pushes =>
         \A d \in Diary : PushesOf(d, "analysis_failed")' = PushesOf(d, "analysis_failed")
  BY DEF PushesOf
<1> USE ConstantsAssumption DEF ClientInv, TypeInv, TypeOK, WorkersHaveDiaries, Statuses,
        WorkSteps, TickSteps, Worker, diaryVars, tickVars, TimelyInv, TurnInv, BackgroundInv,
        HeldInv, Holds, On, Waiting, LockInv, Ticking, AnnounceInv
<1>1. ASSUME NEW w \in Worker, ClaimDiary(w)
      PROVE  AnnounceInv'
  BY <1>1, <1>0 DEF ClaimDiary, ClaimRefused, Claimable, Update, On, Goto, Return
<1>2. ASSUME NEW w \in Worker, AnalyzeDiary(w)
      PROVE  AnnounceInv'
  BY <1>2, <1>0 DEF AnalyzeDiary, Goto, On
<1>3. ASSUME NEW w \in Worker, SaveAnalysisResult(w)
      PROVE  AnnounceInv'
  BY <1>3, <1>0 DEF SaveAnalysisResult, Goto, On, MarkedDone
<1>4. ASSUME NEW w \in Worker, SaveFails(w)
      PROVE  AnnounceInv'
  BY <1>4, <1>0 DEF SaveFails, Goto, On
<1>5. ASSUME NEW w \in Worker, RevertToPending(w)
      PROVE  AnnounceInv'
  BY <1>5, <1>0 DEF RevertToPending, Goto, On, Update, Revertible
<1>6. ASSUME NEW w \in Worker, NotifyComplete(w)
      PROVE  AnnounceInv'
  <2>1. PICK d \in Diary, day \in Day : SendPush(d, "analysis_complete", day)
    BY <1>6, StoredDateType DEF NotifyComplete
  <2>2. \A e \in Diary : PushesOf(e, "analysis_failed")' = PushesOf(e, "analysis_failed")
    BY <2>1, SendPushPlace
  <2>3. /\ \A p \in Proc : pc'[p] = "notify_failed" => pc[p] = "notify_failed"
        /\ UNCHANGED <<analysis_status, current>>
    BY <1>6 DEF NotifyComplete, Return, Goto
  <2>4. QED
    BY <2>2, <2>3
<1>7. ASSUME NEW w \in Worker, WorkerRaises(w)
      PROVE  AnnounceInv'
  BY <1>7, <1>0 DEF WorkerRaises, Fault, Return, Goto, On
<1>8. ASSUME NEW p \in Proc, TryAcquireLock(p)
      PROVE  AnnounceInv'
  BY <1>8, <1>0 DEF TryAcquireLock, Goto, LockFree
<1>9. ASSUME NEW p \in Proc, ExpireStaleDiaries(p)
      PROVE  AnnounceInv'
  BY <1>9, <1>0 DEF ExpireStaleDiaries, Goto, Update, Expired
<1>10. ASSUME NEW p \in Proc, ListPendingDiaries(p)
      PROVE  AnnounceInv'
  BY <1>10, <1>0 DEF ListPendingDiaries, Goto, Pending
<1>11. ASSUME NEW p \in Proc, NEW d \in Diary, DispatchDiary(p, d)
      PROVE  AnnounceInv'
  BY <1>11, <1>0 DEF DispatchDiary, Goto, AttemptsLeft
<1>12. ASSUME NEW p \in Proc, ExhaustFailedDiary(p)
      PROVE  AnnounceInv'
  <2>1. PICK d \in Diary : d = current[p]
    BY <1>12 DEF ExhaustFailedDiary
  <2>2. /\ pc[p] = "exhaust" /\ UNCHANGED <<current, pushes>>
        /\ \A q \in Proc : q # p => pc'[q] = "idle"
        /\ pc'[p] = "notify_failed" => analysis_status'[d] = "failed"
        /\ \A e \in Diary : e # d => analysis_status'[e] = analysis_status[e]
    BY <1>12, <2>1 DEF ExhaustFailedDiary, Goto, Update
  <2>3. PushesOf(d, "analysis_failed") = {}
    BY <2>1, <2>2
  <2>4. ASSUME NEW e \in Diary
        PROVE  /\ analysis_status'[e] # "failed" => PushesOf(e, "analysis_failed")' = {}
               /\ \A i, j \in PushesOf(e, "analysis_failed")' : i = j
    <3>1. CASE e = d
      BY <1>0, <2>2, <2>3, <3>1
    <3>2. CASE e # d
      BY <1>0, <2>2, <3>2
    <3>3. QED
      BY <3>1, <3>2
  <2>5. ASSUME NEW q \in Proc, pc'[q] = "notify_failed"
        PROVE  analysis_status'[current'[q]] = "failed" /\ current'[q] = d
    BY <2>1, <2>2, <2>5
  <2>6. PushesOf(d, "analysis_failed")' = {}
    BY <1>0, <2>2, <2>3
  <2>7. QED
    BY <2>4, <2>5, <2>6
<1>13. ASSUME NEW p \in Proc, NotifyFailed(p)
      PROVE  AnnounceInv'
  <2>1. PICK d \in Diary, day \in Day : d = current[p] /\ SendPush(d, "analysis_failed", day)
    BY <1>13, StoredDateType DEF NotifyFailed
  <2>2. \A e \in Diary : e # d => PushesOf(e, "analysis_failed")' = PushesOf(e, "analysis_failed")
    BY <2>1, SendPushPlace
  <2>3. PushesOf(d, "analysis_failed")' = {Len(pushes[d]) + 1}
    <3>1. PushesOf(d, "analysis_failed")' =
              PushesOf(d, "analysis_failed") \cup {Len(pushes[d]) + 1}
      BY <2>1, SendPushPlace
    <3>2. PushesOf(d, "analysis_failed") = {}
      BY <1>13, <2>1 DEF NotifyFailed
    <3>3. QED
      BY <3>1, <3>2
  <2>4. /\ \A q \in Proc : pc'[q] # "notify_failed"
        /\ UNCHANGED analysis_status /\ analysis_status[d] = "failed"
    BY <1>13, <2>1 DEF NotifyFailed, Goto
  <2>5. ASSUME NEW e \in Diary
        PROVE  /\ analysis_status'[e] # "failed" => PushesOf(e, "analysis_failed")' = {}
               /\ \A i, j \in PushesOf(e, "analysis_failed")' : i = j
    <3>1. CASE e = d
      BY <2>3, <2>4, <3>1
    <3>2. CASE e # d
      BY <2>2, <2>4, <3>2
    <3>3. QED
      BY <3>1, <3>2
  <2>6. QED
    BY <2>4, <2>5
<1>14. ASSUME NEW p \in Proc, QueueDone(p)
      PROVE  AnnounceInv'
  BY <1>14, <1>0 DEF QueueDone, Goto
<1>15. ASSUME NEW p \in Proc, ReleaseLock(p)
      PROVE  AnnounceInv'
  BY <1>15, <1>0 DEF ReleaseLock, Goto
<1>16. ASSUME NEW p \in Proc, TickRaises(p)
      PROVE  AnnounceInv'
  BY <1>16, <1>0 DEF TickRaises, Fault, Goto
<1>17. ASSUME NEW p \in Proc, Crash(p)
      PROVE  AnnounceInv'
  BY <1>17, <1>0 DEF Crash, Fault
<1>18. ASSUME NEW p \in Proc, Restart(p)
      PROVE  AnnounceInv'
  BY <1>18, <1>0 DEF Restart
<1>19. ASSUME NEW p \in Proc, LoseLock(p)
      PROVE  AnnounceInv'
  BY <1>19, <1>0 DEF LoseLock, Fault
<1>20. ASSUME NEW p \in Proc, NEW ds \in SUBSET Diary, Upload(p, ds)
      PROVE  AnnounceInv'
  BY <1>20, <1>0 DEF Upload
<1>21. ASSUME NEW d \in Diary, GrowStale(d)
      PROVE  AnnounceInv'
  BY <1>21, <1>0 DEF GrowStale
<1>22. ASSUME NEW d \in Diary, EditDiary(d)
      PROVE  AnnounceInv'
  BY <1>22, <1>0 DEF EditDiary
<1>23. ASSUME NEW d \in Diary, DeleteDiary(d)
      PROVE  AnnounceInv'
  BY <1>23, <1>0 DEF DeleteDiary
<1>24. CASE DeleteUser
  BY <1>24, <1>0 DEF DeleteUser, Exists
<1>25. CASE UNCHANGED vars
  BY <1>25, <1>0 DEF vars
<1>26. QED
  BY <1>1, <1>2, <1>3, <1>4, <1>5, <1>6, <1>7, <1>8, <1>9, <1>10, <1>11, <1>12,
     <1>13, <1>14, <1>15, <1>16, <1>17, <1>18, <1>19, <1>20, <1>21, <1>22, <1>23,
     <1>24, <1>25
     DEF Next, WorkerStep, TickStep
\* While no lock is lost, no worker stalls and no background task comes late,
\* a diary's failure is announced at most once.
THEOREM FailureAnnouncedOnceAlways ==
    ASSUME Adversity \cap {"lock_loss", "stall", "late_bg"} = {}
    PROVE  Spec => []FailureAnnouncedOnce
<1>1. AnnounceInv => FailureAnnouncedOnce
  <2> SUFFICES ASSUME AnnounceInv, NEW d \in Diary
               PROVE  Cardinality(PushesOf(d, "analysis_failed")) <= 1
    BY DEF FailureAnnouncedOnce
  <2>1. CASE PushesOf(d, "analysis_failed") = {}
    BY <2>1, FS_EmptySet
  <2>2. CASE PushesOf(d, "analysis_failed") # {}
    <3>1. PICK i : PushesOf(d, "analysis_failed") = {i}
      BY <2>2 DEF AnnounceInv
    <3>2. QED
      <4>1. Cardinality({i}) = 1
        BY FS_Singleton
      <4>2. QED
        BY <3>1, <4>1
  <2>3. QED
    BY <2>1, <2>2
<1>2. Spec => []ClientInv
  BY ClientInvariance
<1>3. QED
  BY <1>1, <1>2, AnnounceInit, AnnounceStep, PTL DEF Spec
-----------------------------------------------------------------------------
\* Workers that run an analysis of a diary, up to its push, and workers about to
\* claim it.
Analysing(d) == {w \in Worker : On(w) = d /\ pc[w] \in {"analyze", "save", "revert", "notify"}}
Claiming(d)  == {w \in Worker : On(w) = d /\ pc[w] = "claim"}

AbsentInv == \A d \in Diary : row[d] = "absent" => send_cnt[d] = 0

Completions(d) == PushesOf(d, "analysis_complete")

\* The three ways a step can move the counts of attempts and pushes: a worker
\* claims, a worker announces the end of its run, or nobody does either.
Claims(w, d) ==
    /\ w \in Claiming(d) /\ row[d] # "absent"
    /\ send_cnt' = [send_cnt EXCEPT ![d] = @ + 1]
    /\ \A e \in Diary : /\ Analysing(e)' = IF e = d THEN Analysing(e) \cup {w} ELSE Analysing(e)
                        /\ Claiming(e)' = IF e = d THEN Claiming(e) \ {w} ELSE Claiming(e)
                        /\ Completions(e)' = Completions(e)

Completes(w, d) ==
    /\ w \in Analysing(d)
    /\ UNCHANGED send_cnt
    /\ \A e \in Diary : /\ Analysing(e)' = IF e = d THEN Analysing(e) \ {w} ELSE Analysing(e)
                        /\ Claiming(e)' = Claiming(e)
                        /\ Completions(e)' = IF e = d THEN Completions(e) \cup {Len(pushes[e]) + 1}
                                                      ELSE Completions(e)

Quiet ==
    /\ UNCHANGED send_cnt
    /\ \A e \in Diary : /\ Analysing(e)' \subseteq Analysing(e)
                        /\ Claiming(e)' \subseteq Claiming(e) \/ send_cnt[e] < MaxSend
                        /\ Completions(e)' = Completions(e)

Counted == \/ Quiet
           \/ \E w \in Worker : \E d \in Diary : Claims(w, d) \/ Completes(w, d)

\* There is no other way.
LEMMA CountedStep == TypeInv /\ AbsentInv /\ [Next]_vars => Counted
<1> SUFFICES ASSUME TypeInv, AbsentInv, [Next]_vars
             PROVE  Counted
  OBVIOUS
<1>0. pushes' = pushes => \A d \in Diary : Completions(d)' = Completions(d)
  BY DEF PushesOf, Completions
<1> USE ConstantsAssumption DEF TypeInv, TypeOK, WorkersHaveDiaries, Statuses,
        WorkSteps, TickSteps, Worker, diaryVars, tickVars, On, AbsentInv
<1>1. ASSUME NEW w \in Worker, ClaimDiary(w)
      PROVE  Counted
  <2>1. PICK d \in Diary : d = On(w)
    BY <1>1 DEF ClaimDiary
  <2>2. /\ pc[w] = "claim" /\ UNCHANGED <<current, pushes>>
        /\ \A v \in Worker : v # w => pc'[v] = pc[v]
    BY <1>1 DEF ClaimDiary, ClaimRefused, Goto, Return
  <2>3. CASE ~Claimable(d)
    <3>1. send_cnt' = send_cnt /\ pc'[w] \in {"next", "idle"}
      BY <1>1, <2>1, <2>3 DEF ClaimDiary, ClaimRefused, Goto, Return
    <3>2. Quiet
      BY <1>0, <2>2, <3>1 DEF Quiet, Analysing, Claiming
    <3>3. QED
      BY <3>2 DEF Counted
  <2>4. CASE Claimable(d)
    <3>1. /\ send_cnt' = [send_cnt EXCEPT ![d] = @ + 1]
          /\ pc'[w] = "analyze" /\ row[d] # "absent"
      <4>1. {e \in Diary : e = On(w) /\ Claimable(e)} = {d}
        BY <2>1, <2>4
      <4>2. send_cnt' = [e \in Diary |-> IF e \in {d} THEN send_cnt[e] + 1 ELSE send_cnt[e]]
        BY <1>1, <4>1 DEF ClaimDiary
      <4>3. pc' = [pc EXCEPT ![w] = "analyze"]
        BY <1>1, <4>1 DEF ClaimDiary, Goto
      <4>4. QED
        BY <2>4, <4>2, <4>3 DEF Claimable, Exists
    <3>2. \A e \in Diary : /\ Analysing(e)' = IF e = d THEN Analysing(e) \cup {w} ELSE Analysing(e)
                           /\ Claiming(e)' = IF e = d THEN Claiming(e) \ {w} ELSE Claiming(e)
      BY <2>1, <2>2, <3>1 DEF Analysing, Claiming
    <3>3. w \in Claiming(d)
      BY <2>1, <2>2 DEF Claiming
    <3>4. Claims(w, d)
      BY <1>0, <2>2, <3>1, <3>2, <3>3 DEF Claims
    <3>5. QED
      BY <3>4 DEF Counted
  <2>5. QED
    BY <2>3, <2>4
<1>2. ASSUME NEW w \in Worker, AnalyzeDiary(w)
      PROVE  Quiet
  BY <1>2, <1>0 DEF AnalyzeDiary, Goto, Quiet, Analysing, Claiming, On
<1>3. ASSUME NEW w \in Worker, SaveAnalysisResult(w)
      PROVE  Quiet
  BY <1>3, <1>0 DEF SaveAnalysisResult, Goto, Quiet, Analysing, Claiming, On, MarkedDone
<1>4. ASSUME NEW w \in Worker, SaveFails(w)
      PROVE  Quiet
  BY <1>4, <1>0 DEF SaveFails, Goto, Quiet, Analysing, Claiming, On
<1>5. ASSUME NEW w \in Worker, RevertToPending(w)
      PROVE  Quiet
  BY <1>5, <1>0 DEF RevertToPending, Goto, Quiet, Analysing, Claiming, On, Update, Revertible
<1>6. ASSUME NEW w \in Worker, NotifyComplete(w)
      PROVE  Counted
  <2>1. PICK d \in Diary, day \in Day : d = On(w) /\ SendPush(d, "analysis_complete", day)
    BY <1>6, StoredDateType DEF NotifyComplete
  <2>2. \A e \in Diary : Completions(e)' = IF e = d THEN Completions(e) \cup {Len(pushes[e]) + 1}
                                                     ELSE Completions(e)
    BY <2>1, SendPushPlace DEF Completions
  <2>3. /\ w \in Analysing(d) /\ UNCHANGED send_cnt
        /\ \A e \in Diary : Analysing(e)' = IF e = d THEN Analysing(e) \ {w} ELSE Analysing(e)
        /\ \A e \in Diary : Claiming(e)' = Claiming(e)
    BY <1>6, <2>1 DEF NotifyComplete, Return, Goto, Analysing, Claiming
  <2>4. Completes(w, d)
    BY <2>2, <2>3 DEF Completes
  <2>5. QED
    BY <2>4 DEF Counted
<1>7. ASSUME NEW w \in Worker, WorkerRaises(w)
      PROVE  Quiet
  BY <1>7, <1>0 DEF WorkerRaises, Fault, Return, Goto, Quiet, Analysing, Claiming, On
<1>8. ASSUME NEW p \in Proc, TryAcquireLock(p)
      PROVE  Quiet
  BY <1>8, <1>0 DEF TryAcquireLock, Goto, Quiet, Analysing, Claiming, LockFree
<1>9. ASSUME NEW p \in Proc, ExpireStaleDiaries(p)
      PROVE  Quiet
  BY <1>9, <1>0 DEF ExpireStaleDiaries, Goto, Quiet, Analysing, Claiming, Update, Expired
<1>10. ASSUME NEW p \in Proc, ListPendingDiaries(p)
      PROVE  Quiet
  BY <1>10, <1>0 DEF ListPendingDiaries, Goto, Quiet, Analysing, Claiming, Pending
<1>11. ASSUME NEW p \in Proc, NEW d \in Diary, DispatchDiary(p, d)
      PROVE  Quiet
  BY <1>11, <1>0 DEF DispatchDiary, Goto, Quiet, Analysing, Claiming, AttemptsLeft
<1>12. ASSUME NEW p \in Proc, ExhaustFailedDiary(p)
      PROVE  Quiet
  BY <1>12, <1>0 DEF ExhaustFailedDiary, Goto, Quiet, Analysing, Claiming, Update
<1>13. ASSUME NEW p \in Proc, NotifyFailed(p)
      PROVE  Quiet
  <2>1. PICK d \in Diary, day \in Day : SendPush(d, "analysis_failed", day)
    BY <1>13, StoredDateType DEF NotifyFailed
  <2>2. \A e \in Diary : Completions(e)' = Completions(e)
    BY <2>1, SendPushPlace DEF Completions
  <2>3. QED
    BY <1>13, <2>2 DEF NotifyFailed, Goto, Quiet, Analysing, Claiming
<1>14. ASSUME NEW p \in Proc, QueueDone(p)
      PROVE  Quiet
  BY <1>14, <1>0 DEF QueueDone, Goto, Quiet, Analysing, Claiming
<1>15. ASSUME NEW p \in Proc, ReleaseLock(p)
      PROVE  Quiet
  BY <1>15, <1>0 DEF ReleaseLock, Goto, Quiet, Analysing, Claiming
<1>16. ASSUME NEW p \in Proc, TickRaises(p)
      PROVE  Quiet
  BY <1>16, <1>0 DEF TickRaises, Fault, Goto, Quiet, Analysing, Claiming
<1>17. ASSUME NEW p \in Proc, Crash(p)
      PROVE  Quiet
  BY <1>17, <1>0 DEF Crash, Fault, Quiet, Analysing, Claiming
<1>18. ASSUME NEW p \in Proc, Restart(p)
      PROVE  Quiet
  BY <1>18, <1>0 DEF Restart, Quiet, Analysing, Claiming
<1>19. ASSUME NEW p \in Proc, LoseLock(p)
      PROVE  Quiet
  BY <1>19, <1>0 DEF LoseLock, Fault, Quiet, Analysing, Claiming
<1>20. ASSUME NEW p \in Proc, NEW ds \in SUBSET Diary, Upload(p, ds)
      PROVE  Quiet
  BY <1>20, <1>0 DEF Upload, Quiet, Analysing, Claiming
<1>21. ASSUME NEW d \in Diary, GrowStale(d)
      PROVE  Quiet
  BY <1>21, <1>0 DEF GrowStale, Quiet, Analysing, Claiming
<1>22. ASSUME NEW d \in Diary, EditDiary(d)
      PROVE  Quiet
  BY <1>22, <1>0 DEF EditDiary, Quiet, Analysing, Claiming
<1>23. ASSUME NEW d \in Diary, DeleteDiary(d)
      PROVE  Quiet
  BY <1>23, <1>0 DEF DeleteDiary, Quiet, Analysing, Claiming
<1>24. CASE DeleteUser
  BY <1>24, <1>0 DEF DeleteUser, Exists, Counted, Quiet, Analysing, Claiming
<1>25. CASE UNCHANGED vars
  BY <1>25, <1>0 DEF vars, Counted, Quiet, Analysing, Claiming
<1>26. QED
  BY <1>1, <1>2, <1>3, <1>4, <1>5, <1>6, <1>7, <1>8, <1>9, <1>10, <1>11, <1>12,
     <1>13, <1>14, <1>15, <1>16, <1>17, <1>18, <1>19, <1>20, <1>21, <1>22, <1>23,
     <1>24, <1>25
     DEF Counted, Next, WorkerStep, TickStep

\* No step takes a row back to before its insertion.
LEMMA RowStays ==
    TypeInv /\ [Next]_vars => \A d \in Diary : row'[d] = "absent" => row[d] = "absent"
<1> SUFFICES ASSUME TypeInv, [Next]_vars, NEW e \in Diary, row'[e] = "absent"
             PROVE  row[e] = "absent"
  OBVIOUS
<1>1. ASSUME NEW p \in Proc, NEW ds \in SUBSET Diary, Upload(p, ds)
      PROVE  row[e] = "absent"
  BY <1>1 DEF Upload
<1>2. ASSUME NEW d \in Diary, DeleteDiary(d)
      PROVE  row[e] = "absent"
  BY <1>2 DEF DeleteDiary, TypeInv, TypeOK
<1>3. CASE DeleteUser
  BY <1>3 DEF DeleteUser
<1>4. CASE UNCHANGED row
  BY <1>4
<1>5. ASSUME NEW w \in Worker, WorkerStep(w) \/ WorkerRaises(w)
      PROVE  UNCHANGED row
  BY <1>5 DEF diaryVars, WorkerStep, ClaimDiary, AnalyzeDiary, SaveAnalysisResult, SaveFails,
     RevertToPending, NotifyComplete, WorkerRaises
<1>6. ASSUME NEW p \in Proc,
             \/ TickStep(p) \/ TickRaises(p)
             \/ Crash(p) \/ Restart(p) \/ LoseLock(p)
      PROVE  UNCHANGED row
  BY <1>6 DEF diaryVars, TickStep, TryAcquireLock, ExpireStaleDiaries, ListPendingDiaries,
     DispatchDiary, ExhaustFailedDiary, NotifyFailed, QueueDone, ReleaseLock, TickRaises,
     Crash, Restart, LoseLock
<1>7. ASSUME NEW d \in Diary, GrowStale(d) \/ EditDiary(d)
      PROVE  UNCHANGED row
  BY <1>7 DEF GrowStale, EditDiary
<1>8. CASE UNCHANGED vars
  BY <1>8 DEF vars, diaryVars
<1>9. QED
  BY <1>1, <1>2, <1>3, <1>4, <1>5, <1>6, <1>7, <1>8 DEF Next

LEMMA AbsentInit == Init => AbsentInv
BY DEF Init, AbsentInv

LEMMA AbsentStep == TypeInv /\ AbsentInv /\ [Next]_vars => AbsentInv'
<1> SUFFICES ASSUME TypeInv, AbsentInv, [Next]_vars, NEW d \in Diary, row'[d] = "absent"
             PROVE  send_cnt'[d] = 0
  BY DEF AbsentInv
<1>1. row[d] = "absent" /\ send_cnt[d] = 0
  BY RowStays DEF AbsentInv
<1>2. send_cnt'[d] = send_cnt[d]
  BY <1>1, CountedStep DEF Counted, Quiet, Claims, Completes, TypeInv, TypeOK
<1>3. QED
  BY <1>1, <1>2
-----------------------------------------------------------------------------
\* Every run that may still send its push has an attempt of its own.
CompleteInv ==
    \A d \in Diary :
        /\ IsFiniteSet(Analysing(d))
        /\ Cardinality(Completions(d)) + Cardinality(Analysing(d)) <= send_cnt[d]

LEMMA CompleteInit == Init => CompleteInv
<1> SUFFICES ASSUME Init, NEW d \in Diary
             PROVE  /\ IsFiniteSet(Analysing(d))
                    /\ Cardinality(Completions(d)) + Cardinality(Analysing(d)) <= send_cnt[d]
  BY DEF CompleteInv
<1>1. Analysing(d) = {} /\ Completions(d) = {} /\ send_cnt[d] = 0
  BY DEF Init, Analysing, Completions, PushesOf
<1>2. QED
  BY <1>1, FS_EmptySet

LEMMA CompleteStep == TypeInv /\ AbsentInv /\ CompleteInv /\ [Next]_vars => CompleteInv'
<1> SUFFICES ASSUME TypeInv, AbsentInv, CompleteInv, [Next]_vars, NEW e \in Diary
             PROVE  /\ IsFiniteSet(Analysing(e)')
                    /\ Cardinality(Completions(e)') + Cardinality(Analysing(e)') <= send_cnt'[e]
  BY DEF CompleteInv
<1>1. /\ IsFiniteSet(Analysing(e)) /\ IsFiniteSet(Completions(e))
      /\ Completions(e) \subseteq 1 .. Len(pushes[e]) /\ Len(pushes[e]) \in Nat
      /\ Cardinality(Completions(e)) + Cardinality(Analysing(e)) <= send_cnt[e]
      /\ send_cnt[e] \in Nat
  BY PlacesFinite DEF CompleteInv, Completions, TypeInv, TypeOK
<1>2. Cardinality(Completions(e)) \in Nat /\ Cardinality(Analysing(e)) \in Nat
  BY <1>1, FS_CardinalityType
<1>3. CASE Quiet
  <2>1. /\ Analysing(e)' \in SUBSET Analysing(e) /\ Completions(e)' = Completions(e)
        /\ send_cnt'[e] = send_cnt[e]
    BY <1>3 DEF Quiet
  <2>2. IsFiniteSet(Analysing(e)') /\ Cardinality(Analysing(e)') <= Cardinality(Analysing(e))
    BY <1>1, <2>1, FS_Subset
  <2>3. Cardinality(Analysing(e)') \in Nat
    BY <2>2, FS_CardinalityType
  <2>4. QED
    BY <1>1, <1>2, <2>1, <2>2, <2>3
<1>4. ASSUME NEW w \in Worker, NEW d \in Diary, Claims(w, d)
      PROVE  /\ IsFiniteSet(Analysing(e)')
             /\ Cardinality(Completions(e)') + Cardinality(Analysing(e)') <= send_cnt'[e]
  <2>1. Completions(e)' = Completions(e)
    BY <1>4 DEF Claims
  <2>2. CASE e = d
    <3>1. Analysing(e)' = Analysing(e) \cup {w} /\ send_cnt'[e] = send_cnt[e] + 1
      BY <1>4, <2>2 DEF Claims, TypeInv, TypeOK
    <3>2. /\ IsFiniteSet(Analysing(e)')
          /\ Cardinality(Analysing(e)') \in
                 {Cardinality(Analysing(e)), Cardinality(Analysing(e)) + 1}
      BY <1>1, <3>1, FS_AddElement
    <3>3. QED
      BY <1>1, <1>2, <2>1, <3>1, <3>2
  <2>3. CASE e # d
    <3>1. Analysing(e)' = Analysing(e) /\ send_cnt'[e] = send_cnt[e]
      BY <1>4, <2>3 DEF Claims, TypeInv, TypeOK
    <3>2. QED
      BY <1>1, <2>1, <3>1
  <2>4. QED
    BY <2>2, <2>3
<1>5. ASSUME NEW w \in Worker, NEW d \in Diary, Completes(w, d)
      PROVE  /\ IsFiniteSet(Analysing(e)')
             /\ Cardinality(Completions(e)') + Cardinality(Analysing(e)') <= send_cnt'[e]
  <2>1. send_cnt'[e] = send_cnt[e]
    BY <1>5 DEF Completes
  <2>2. CASE e = d
    <3>1. /\ w \in Analysing(e) /\ Analysing(e)' = Analysing(e) \ {w}
          /\ Completions(e)' = Completions(e) \cup {Len(pushes[e]) + 1}
      BY <1>5, <2>2 DEF Completes
    <3>2. IsFiniteSet(Analysing(e)') /\ Cardinality(Analysing(e)') = Cardinality(Analysing(e)) - 1
      BY <1>1, <3>1, FS_RemoveElement
    <3>3. Cardinality(Completions(e)') = Cardinality(Completions(e)) + 1
      <4>1. Len(pushes[e]) + 1 \notin Completions(e)
        BY <1>1
      <4>2. QED
        BY <1>1, <3>1, <4>1, FS_AddElement
    <3>4. QED
      BY <1>1, <1>2, <2>1, <3>2, <3>3
  <2>3. CASE e # d
    <3>1. Analysing(e)' = Analysing(e) /\ Completions(e)' = Completions(e)
      BY <1>5, <2>3 DEF Completes
    <3>2. QED
      BY <1>1, <2>1, <3>1
  <2>4. QED
    BY <2>2, <2>3
<1>6. QED
  BY <1>3, <1>4, <1>5, CountedStep DEF Counted

\* Whatever goes wrong, stalled workers included, the client is sent no more
\* completion pushes about a diary than analyses were started for it.
THEOREM OnePushPerAttemptAlways == Spec => []OnePushPerAttempt
<1>1. TypeInv /\ CompleteInv => OnePushPerAttempt
  <2> SUFFICES ASSUME TypeInv, CompleteInv, NEW d \in Diary
               PROVE  Cardinality(PushesOf(d, "analysis_complete")) <= send_cnt[d]
    BY DEF OnePushPerAttempt
  <2>1. /\ IsFiniteSet(Analysing(d)) /\ IsFiniteSet(Completions(d))
        /\ Cardinality(Completions(d)) + Cardinality(Analysing(d)) <= send_cnt[d]
        /\ send_cnt[d] \in Nat
    BY PlacesFinite DEF CompleteInv, Completions, TypeInv, TypeOK
  <2>2. Cardinality(Completions(d)) \in Nat /\ Cardinality(Analysing(d)) \in Nat
    BY <2>1, FS_CardinalityType
  <2>3. QED
    BY <2>1, <2>2 DEF Completions
<1>2. QED
  BY <1>1, TypeInvariance, AbsentInit, AbsentStep, CompleteInit, CompleteStep, PTL DEF Spec
-----------------------------------------------------------------------------
\* Once the attempts are used up, those that may still follow come from workers
\* that are past the check of the counter.
ClaimInv ==
    \A d \in Diary : send_cnt[d] >= MaxSend =>
        send_cnt[d] + Cardinality(Claiming(d)) <= MaxSend + Cardinality(Proc)

\* Who can be about to claim a diary: a tick of each process, and its own run.
LEMMA ClaimingFinite ==
    ASSUME IsFiniteSet(Proc), NEW d \in Diary
    PROVE  /\ IsFiniteSet(Claiming(d)) /\ Cardinality(Claiming(d)) \in Nat
           /\ Cardinality(Claiming(d)) <= Cardinality(Proc) + 1
           /\ Cardinality(Proc) \in Nat
<1>1. Claiming(d) \in SUBSET (Proc \cup {d})
  BY DEF Claiming, On, Worker
<1>2. /\ IsFiniteSet(Proc \cup {d})
      /\ Cardinality(Proc \cup {d}) \in {Cardinality(Proc), Cardinality(Proc) + 1}
  BY FS_AddElement
<1>3. IsFiniteSet(Claiming(d)) /\ Cardinality(Claiming(d)) <= Cardinality(Proc \cup {d})
  BY <1>1, <1>2, FS_Subset
<1>4. Cardinality(Claiming(d)) \in Nat /\ Cardinality(Proc) \in Nat
  BY <1>3, FS_CardinalityType
<1>5. QED
  BY <1>2, <1>3, <1>4

LEMMA ClaimInit == Init => ClaimInv
BY ConstantsAssumption DEF Init, ClaimInv

LEMMA ClaimStep ==
    ASSUME IsFiniteSet(Proc)
    PROVE  TypeInv /\ AbsentInv /\ ClaimInv /\ [Next]_vars => ClaimInv'
<1> SUFFICES ASSUME TypeInv, AbsentInv, ClaimInv, [Next]_vars,
                    NEW e \in Diary, send_cnt'[e] >= MaxSend
             PROVE  send_cnt'[e] + Cardinality(Claiming(e)') <= MaxSend + Cardinality(Proc)
  BY DEF ClaimInv
<1>1. /\ IsFiniteSet(Claiming(e)) /\ Cardinality(Claiming(e)) \in Nat
      /\ Cardinality(Claiming(e)) <= Cardinality(Proc) + 1
      /\ Cardinality(Proc) \in Nat /\ send_cnt[e] \in Nat /\ MaxSend \in Nat
  BY ClaimingFinite, ConstantsAssumption DEF TypeInv, TypeOK
<1>2. ASSUME send_cnt'[e] = send_cnt[e], Claiming(e)' \subseteq Claiming(e)
      PROVE  send_cnt'[e] + Cardinality(Claiming(e)') <= MaxSend + Cardinality(Proc)
  <2>1. IsFiniteSet(Claiming(e)') /\ Cardinality(Claiming(e)') <= Cardinality(Claiming(e))
    BY <1>1, <1>2, FS_Subset
  <2>2. Cardinality(Claiming(e)') \in Nat
    BY <2>1, FS_CardinalityType
  <2>3. send_cnt[e] + Cardinality(Claiming(e)) <= MaxSend + Cardinality(Proc)
    BY <1>2 DEF ClaimInv
  <2>4. QED
    BY <1>1, <1>2, <2>1, <2>2, <2>3
<1>3. CASE Quiet
  BY <1>1, <1>2, <1>3 DEF Quiet
<1>4. ASSUME NEW w \in Worker, NEW d \in Diary, Claims(w, d)
      PROVE  send_cnt'[e] + Cardinality(Claiming(e)') <= MaxSend + Cardinality(Proc)
  <2>1. CASE e = d
    <3>1. /\ w \in Claiming(e) /\ Claiming(e)' = Claiming(e) \ {w}
          /\ send_cnt'[e] = send_cnt[e] + 1
      BY <1>4, <2>1 DEF Claims, TypeInv, TypeOK
    <3>2. Cardinality(Claiming(e)') = Cardinality(Claiming(e)) - 1
      BY <1>1, <3>1, FS_RemoveElement
    <3>3. CASE send_cnt[e] >= MaxSend
      <4>1. send_cnt[e] + Cardinality(Claiming(e)) <= MaxSend + Cardinality(Proc)
        BY <3>3 DEF ClaimInv
      <4>2. QED
        BY <1>1, <3>1, <3>2, <4>1
    <3>4. CASE send_cnt[e] + 1 = MaxSend
      BY <1>1, <3>1, <3>2, <3>4
    <3>5. QED
      BY <1>1, <3>1, <3>3, <3>4
  <2>2. CASE e # d
    BY <1>2, <1>4, <2>2 DEF Claims, TypeInv, TypeOK
  <2>3. QED
    BY <2>1, <2>2
<1>5. ASSUME NEW w \in Worker, NEW d \in Diary, Completes(w, d)
      PROVE  send_cnt'[e] + Cardinality(Claiming(e)') <= MaxSend + Cardinality(Proc)
  BY <1>2, <1>5 DEF Completes
<1>6. QED
  BY <1>3, <1>4, <1>5, CountedStep DEF Counted

\* Whatever goes wrong, a diary is analysed at most once more for each process
\* than MAX_SEND_CNT says.
THEOREM AttemptsBoundedAlways ==
    ASSUME IsFiniteSet(Proc)
    PROVE  Spec => []AttemptsBounded
<1>1. TypeInv /\ ClaimInv => AttemptsBounded
  <2> SUFFICES ASSUME TypeInv, ClaimInv, NEW d \in Diary
               PROVE  send_cnt[d] <= MaxSend + Cardinality(Proc)
    BY DEF AttemptsBounded
  <2>1. /\ Cardinality(Claiming(d)) \in Nat /\ Cardinality(Proc) \in Nat
        /\ send_cnt[d] \in Nat /\ MaxSend \in Nat
    BY ClaimingFinite, ConstantsAssumption DEF TypeInv, TypeOK
  <2>2. CASE send_cnt[d] >= MaxSend
    BY <2>1, <2>2 DEF ClaimInv
  <2>3. CASE send_cnt[d] < MaxSend
    BY <2>1, <2>3
  <2>4. QED
    BY <2>1, <2>2, <2>3
<1>2. TypeInv /\ AbsentInv /\ ClaimInv /\ [Next]_vars => ClaimInv'
  BY ClaimStep
<1>3. QED
  BY <1>1, <1>2, TypeInvariance, AbsentInit, AbsentStep, ClaimInit, PTL DEF Spec
=============================================================================
