---------------------------- MODULE BatchUpload ----------------------------
(***************************************************************************)
(* POST /photos/batch-upload for one user and one day: several requests,   *)
(* each with several files, each file put into the diary of its meal.      *)
(*                                                                         *)
(* A request has one session and one transaction for all its files, and    *)
(* the loop over the files catches every exception.  Two kinds must be     *)
(* told apart.  A disk error or a full diary costs the file.  A failed     *)
(* flush makes SQLAlchemy roll the transaction back on the spot, refuse    *)
(* every later use of the session, and end the `async with` of get_session *)
(* without a commit and without an error: the whole request is lost, the   *)
(* results of its earlier files are not.                                   *)
(*                                                                         *)
(* FastAPI leaves get_session, and so commits, after the endpoint has      *)
(* returned and before it answers or starts the background task.           *)
(***************************************************************************)
EXTENDS FiniteSets, Integers, Sequences

CONSTANTS
    Request,      \* uploads
    Past,         \* stands for the requests made before
    Meal,         \* time types
    MaxFiles,     \* bound on the files of a request
    MaxPhotos,    \* MAX_PHOTOS_PER_DIARY
    MaxFaults     \* bound on disk and database errors

ASSUME BatchAssumption ==
    /\ Past \notin Request /\ Meal # {}
    /\ MaxFiles \in Nat \ {0} /\ MaxPhotos \in Nat \ {0} /\ MaxFaults \in Nat

VARIABLES
    diaries,      \* ids of the live diary rows: <<request that inserted it, meal>>
    photos,       \* photo rows: <<request, number of the file, diary>>
    photo_count,  \* of each diary
    lock,         \* who holds a meal: its diary row, or its place in the unique index
    pc,           \* where a request is, or the answer it got
    files,        \* number of files of a request
    meal,         \* meal of the file at hand
    session,      \* for each meal the Diary object in the session: {} or one [id, count]
    log,          \* what became of the files so far
    faults

vars == <<diaries, photos, photo_count, lock, pc, files, meal, session, log, faults>>

DiaryId == (Request \cup {Past}) \X Meal
Answers == {"ok", "bad_request", "unprocessable", "error"}
Outcomes == {"saved", "refused", "unwritten", "failed"}
FileResult == [outcome : Outcomes, diary : DiaryId, is_new_diary : BOOLEAN]

TypeOK ==
    /\ diaries \subseteq DiaryId
    /\ photos \subseteq Request \X (1 .. MaxFiles) \X DiaryId
    /\ photo_count \in [DiaryId -> 0 .. MaxPhotos]
    /\ lock \in [Meal -> Request \cup {Past}]
    /\ pc \in [Request -> {"ready", "next", "insert", "save_new", "save"} \cup Answers]
    /\ files \in [Request -> 0 .. MaxFiles]
    /\ meal \in [Request -> Meal]
    /\ session \in [Request -> [Meal -> SUBSET [id : DiaryId, count : 0 .. MaxPhotos]]]
    /\ log \in [Request -> Seq(FileResult)]
    /\ \A r \in Request : Len(log[r]) <= files[r]
    /\ faults \in 0 .. MaxFaults

\* Some meals of the day have a diary, with one photo of an earlier upload.
Init ==
    /\ diaries \in SUBSET ({Past} \X Meal)
    /\ photos = {}
    /\ photo_count = [d \in DiaryId |-> IF d \in diaries THEN 1 ELSE 0]
    /\ lock = [m \in Meal |-> Past]
    /\ pc = [r \in Request |-> "ready"]
    /\ files = [r \in Request |-> 0]
    /\ meal = [r \in Request |-> CHOOSE m \in Meal : TRUE]
    /\ session = [r \in Request |-> [m \in Meal |-> {}]]
    /\ log = [r \in Request |-> <<>>]
    /\ faults = 0

rows == <<diaries, photos, photo_count>>
-----------------------------------------------------------------------------
\* The session of r, after a flush that failed.
Spoilt(r) == \E i \in DOMAIN log[r] : log[r][i].outcome = "failed"

DiaryOf(r) == CHOOSE d \in session[r][meal[r]] : TRUE

Write(r, outcome, diary, is_new) ==
    log' = [log EXCEPT ![r] = Append(@, [outcome |-> outcome, diary |-> diary,
                                         is_new_diary |-> is_new])]

Go(r, step) == pc' = [pc EXCEPT ![r] = step]

\* An INSERT waits for the transaction that inserted the same meal before it, an
\* UPDATE for the one that updated the row.
Free(r) == lock[meal[r]] \in {Past, r}
Take(r) == lock' = [lock EXCEPT ![meal[r]] = r]

Released(r) == [m \in Meal |-> IF lock[m] = r THEN Past ELSE lock[m]]

\* Faulty: the transaction of a finished request stays open.
EndTransaction_Leaks(r) == UNCHANGED lock

\* The transaction of r is over, one way or the other.
EndTransaction(r) == lock' = Released(r)

Fault == faults < MaxFaults /\ faults' = faults + 1
-----------------------------------------------------------------------------
\* The endpoint: a request with no file, with a file that is no image, or with a
\* malformed date is refused; all files are read before the first is handled.
Validate(r, n) ==
    /\ pc[r] = "ready"
    /\ \/ n > 0 /\ files' = [files EXCEPT ![r] = n] /\ Go(r, "next")
       \/ UNCHANGED files /\ Go(r, "bad_request")
    /\ UNCHANGED <<rows, lock, meal, session, log, faults>>

\* The SELECT of get_or_create_diary.  A Diary object the session has already is
\* given again, with the counter it has in memory.
GetDiary(r, m) ==
    /\ pc[r] = "next" /\ Len(log[r]) < files[r] /\ ~Spoilt(r)
    /\ meal' = [meal EXCEPT ![r] = m]
    /\ LET found == {d \in diaries : d[2] = m}
       IN  /\ session' = [session EXCEPT ![r][m] =
                  IF @ # {} THEN @ ELSE {[id |-> d, count |-> photo_count[d]] : d \in found}]
           /\ Go(r, IF session'[r][m] = {} THEN "insert" ELSE "save")
    /\ UNCHANGED <<rows, lock, files, log, faults>>

\* In a spoilt session the SELECT raises PendingRollbackError.
GetDiaryRaises(r, m) ==
    /\ pc[r] = "next" /\ Len(log[r]) < files[r] /\ Spoilt(r)
    /\ Write(r, "failed", <<r, m>>, FALSE)
    /\ UNCHANGED <<rows, lock, pc, files, meal, session, faults>>

\* A flush that fails: the loop goes on, the transaction does not.
Spoil(r) ==
    /\ Write(r, "failed", <<r, meal[r]>>, FALSE)
    /\ Go(r, "next")
    /\ EndTransaction(r)
    /\ UNCHANGED <<rows, files, meal, session>>

\* Faulty: unique_user_date_time_active is missing, as it is in models/diary.py.
CreateDiary_NoIndex(r) ==
    /\ pc[r] = "insert"
    /\ session' = [session EXCEPT ![r][meal[r]] = {[id |-> <<r, meal[r]>>, count |-> 0]}]
    /\ UNCHANGED <<rows, lock, files, meal, log, faults>>
    /\ Go(r, "save_new")

\* The INSERT of get_or_create_diary; the unique index refuses it when another
\* request has committed a diary of the meal since the SELECT.
CreateDiary(r) ==
    /\ pc[r] = "insert" /\ Free(r)
    /\ IF \E d \in diaries : d[2] = meal[r]
       THEN Spoil(r) /\ UNCHANGED faults
       ELSE /\ session' = [session EXCEPT ![r][meal[r]] = {[id |-> <<r, meal[r]>>, count |-> 0]}]
            /\ Take(r) /\ Go(r, "save_new")
            /\ UNCHANGED <<rows, files, meal, log, faults>>

AtFile(r) == pc[r] \in {"save", "save_new"}

\* Faulty: the limit itself passes.
HasRoom_OffByOne(r) == DiaryOf(r).count <= MaxPhotos

HasRoom(r) == DiaryOf(r).count < MaxPhotos

\* PhotoLimitExceededError, before anything is written.
RefusePhoto(r) ==
    /\ AtFile(r) /\ ~HasRoom(r)
    /\ Write(r, "refused", DiaryOf(r).id, FALSE) /\ Go(r, "next")
    /\ UNCHANGED <<rows, lock, files, meal, session, faults>>

\* save_user_photo raises: the diary, if it was inserted for this file, stays.
StoreFails(r) ==
    /\ AtFile(r) /\ HasRoom(r) /\ Fault
    /\ Write(r, "unwritten", DiaryOf(r).id, FALSE) /\ Go(r, "next")
    /\ UNCHANGED <<rows, lock, files, meal, session>>

\* Faulty: every photo is committed as soon as it is written.
CreatePhoto_Commits(r) ==
    LET d == DiaryOf(r).id
    IN  /\ AtFile(r) /\ HasRoom(r) /\ Free(r) /\ Take(r)
        /\ session' = [session EXCEPT ![r][meal[r]] = {[id |-> d, count |-> DiaryOf(r).count + 1]}]
        /\ Write(r, "saved", d, pc[r] = "save_new") /\ Go(r, "next")
        /\ diaries' = diaries \cup {d}
        /\ photos' = photos \cup {<<r, Len(log'[r]), d>>}
        /\ UNCHANGED <<photo_count, files, meal, faults>>

\* save_user_photo and create_photo_for_diary: a file, a photo row, and a
\* counter one higher than in memory.
CreatePhoto(r) ==
    LET d == DiaryOf(r).id
    IN  /\ AtFile(r) /\ HasRoom(r) /\ Free(r) /\ Take(r)
        /\ session' = [session EXCEPT ![r][meal[r]] = {[id |-> d, count |-> DiaryOf(r).count + 1]}]
        /\ Write(r, "saved", d, pc[r] = "save_new") /\ Go(r, "next")
        /\ UNCHANGED <<rows, files, meal, faults>>

Flushing(r) == pc[r] = "insert" \/ (AtFile(r) /\ HasRoom(r))

\* A statement fails: the connection, a timeout, a row that is gone.
FlushFails(r) ==
    /\ Flushing(r)
    /\ Fault /\ Spoil(r)

\* PostgreSQL breaks a circle of waiting transactions by failing one of them.
WaitsFor(r, q) ==
    /\ Flushing(r)
    /\ q # r /\ lock[meal[r]] = q

DeadlockVictim(r) ==
    /\ \E S \in SUBSET Request : r \in S /\ \A q \in S : \E s \in S : WaitsFor(q, s)
    /\ Spoil(r) /\ UNCHANGED faults
-----------------------------------------------------------------------------
Results(r) == {i \in DOMAIN log[r] : log[r][i].outcome = "saved"}

\* Faulty: every diary of the answer is handed over, those of old included.
HandedOver_All(r) ==
    IF pc[r] = "ok" THEN {log[r][i].diary : i \in Results(r)} ELSE {}

\* The diaries whose analysis the background task starts.
HandedOver(r) ==
    IF pc[r] = "ok" THEN {log[r][i].diary : i \in {j \in Results(r) : log[r][j].is_new_diary}}
                    ELSE {}

\* The diaries the answer names.
Answered(r) == IF pc[r] = "ok" THEN {log[r][i].diary : i \in Results(r)} ELSE {}

AtEnd(r) == pc[r] = "next" /\ Len(log[r]) = files[r]

\* Diaries the session inserted; among them those whose file was not written.
Inserted(r) == {d \in {<<r, m>> : m \in Meal} : \E o \in session[r][d[2]] : o.id = d}

Commit(r) ==
    /\ diaries' = diaries \cup Inserted(r)
    /\ photos' = photos \cup {<<r, i, log[r][i].diary>> : i \in Results(r)}
    /\ photo_count' = [d \in DiaryId |->
          IF \E i \in Results(r) : log[r][i].diary = d
          THEN (CHOOSE o \in session[r][d[2]] : TRUE).count ELSE photo_count[d]]

Answer(r, status) ==
    /\ Go(r, status) /\ EndTransaction(r)
    /\ UNCHANGED <<files, meal, session, log>>

\* No file was saved: HTTPException rolls back what there is.
AnswerNothingSaved_Commits(r) ==
    /\ AtEnd(r) /\ Results(r) = {} /\ UNCHANGED faults
    /\ IF Spoilt(r) THEN UNCHANGED rows ELSE Commit(r)
    /\ Answer(r, "unprocessable")

AnswerNothingSaved(r) ==
    /\ AtEnd(r) /\ Results(r) = {} /\ UNCHANGED <<rows, faults>>
    /\ Answer(r, "unprocessable")

\* get_session commits, unless the session is spoilt: then it just closes.
AnswerSaved(r) ==
    /\ AtEnd(r) /\ Results(r) # {} /\ UNCHANGED faults
    /\ IF Spoilt(r) THEN UNCHANGED rows ELSE Commit(r)
    /\ Answer(r, "ok")

\* Faulty: the answer goes out before the commit.
CommitFails_Late(r) ==
    /\ AtEnd(r) /\ Results(r) # {} /\ ~Spoilt(r)
    /\ Fault /\ UNCHANGED rows
    /\ Answer(r, "ok")

\* The commit raises, or the process dies on the way to it.
CommitFails(r) ==
    /\ AtEnd(r) /\ Results(r) # {} /\ ~Spoilt(r)
    /\ Fault /\ UNCHANGED rows
    /\ Answer(r, "error")

Step(r) ==
    \/ \E n \in 0 .. MaxFiles : Validate(r, n)
    \/ \E m \in Meal : GetDiary(r, m) \/ GetDiaryRaises(r, m)
    \/ CreateDiary(r) \/ RefusePhoto(r) \/ CreatePhoto(r)
    \/ AnswerNothingSaved(r) \/ AnswerSaved(r)

Next == \E r \in Request :
    \/ Step(r)
    \/ StoreFails(r) \/ FlushFails(r) \/ CommitFails(r) \/ DeadlockVictim(r)

\* The event loop resumes every request that can go on; the database looks for
\* deadlocks.
Fairness == \A r \in Request : WF_vars(Step(r)) /\ WF_vars(DeadlockVictim(r))

Spec == Init /\ [][Next]_vars /\ Fairness
-----------------------------------------------------------------------------
\* Properties.

Rows(r) == {<<p[2], p[3]>> : p \in {q \in photos : q[1] = r}}

\* An answer of a request whose session was not spoilt is true: each diary it
\* names exists, and so does each photo it counted, whatever happened to the
\* other files and to other requests.
UnspoiltAnswerTrue ==
    \A r \in Request : pc[r] = "ok" /\ ~Spoilt(r) =>
        /\ Answered(r) \subseteq diaries
        /\ Rows(r) = {<<i, log[r][i].diary>> : i \in Results(r)}

\* A request that is refused, fails or has a spoilt session, whether it is over
\* or not, has put nothing into the database.
FailureLeavesNothing ==
    \A r \in Request : pc[r] # "ok" \/ Spoilt(r) =>
        Rows(r) = {} /\ \A d \in diaries : d[1] # r

\* A user has one live diary for each day and meal, whoever inserts at once.
OneLiveDiaryPerMeal == \A d, e \in diaries : d[2] = e[2] => d = e

\* Every diary in the database has a photo, except one: the request saved some
\* other file, and the disk refused a file of this meal.
NoEmptyDiary ==
    \A d \in diaries :
        \/ d[1] = Past
        \/ \E p \in photos : p[3] = d
        \/ /\ Results(d[1]) # {}
           /\ \E i \in DOMAIN log[d[1]] : log[d[1]][i].outcome = "unwritten" /\ log[d[1]][i].diary = d

\* A new diary is handed to the background task by the request that made it and
\* by no other; only one whose first file the disk refused is left to the
\* scheduler.
NewDiaryHandedOverOnce ==
    \A d \in diaries : \A r \in Request :
        d \in HandedOver(r) <=>
            /\ d[1] = r
            /\ \E i \in DOMAIN log[r] :
                  /\ log[r][i].diary = d /\ log[r][i].outcome = "saved"
                  /\ \A j \in 1 .. i - 1 : log[r][j].diary # d

\* Every request is answered: uploads that wait for each other's meals do not
\* wait for ever.
EventuallyAnswered == <>(\A r \in Request : pc[r] \in Answers)

=============================================================================
