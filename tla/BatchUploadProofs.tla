-------------------------- MODULE BatchUploadProofs --------------------------
(***************************************************************************)
(* Proofs about BatchUpload, for any requests, meals, limits and numbers   *)
(* of errors.                                                              *)
(*                                                                         *)
(* Inv is inductive.  Its core is LockInv: a meal for which a session that *)
(* can still commit has inserted a diary is locked by it and has no other  *)
(* diary.  The rest says what the entries of a log tell of the session.    *)
(***************************************************************************)
EXTENDS BatchUpload, TLAPS

\* A file is at hand.
Working(r) == pc[r] \in {"insert", "save", "save_new"}

\* What a request has at each step; a diary just inserted is not in the log.
StageFact(r) ==
    /\ pc[r] \in {"ready", "bad_request"} => log[r] = <<>>
    /\ Working(r) => Len(log[r]) < files[r] /\ ~Spoilt(r)
    /\ pc[r] = "insert" => session[r][meal[r]] = {}
    /\ pc[r] = "save" => session[r][meal[r]] # {}
    /\ pc[r] = "save_new" =>
          /\ session[r][meal[r]] = {[id |-> <<r, meal[r]>>, count |-> 0]}
          /\ \A i \in DOMAIN log[r] : log[r][i].diary # <<r, meal[r]>>

StageInv == \A r \in Request : StageFact(r)

\* A session has one Diary object for a meal, of a row that exists or its own.
SessionInv ==
    \A r \in Request, m \in Meal : \A o \in session[r][m] :
        /\ \A p \in session[r][m] : p = o
        /\ o.id[2] = m
        /\ o.id \in diaries \/ o.id = <<r, m>>

\* A diary a session has inserted, and may commit, is the only one of its meal.
LockInv ==
    \A r \in Request, m \in Meal : \A o \in session[r][m] :
        o.id = <<r, m>> /\ ~Spoilt(r) /\ pc[r] \notin Answers =>
            lock[m] = r /\ \A e \in diaries : e[2] # m

\* What became of file i of r: it is in the diary of the session, and that diary is
\* new where r made it and this is its first file.
LogFact(r, i) ==
    /\ log[r][i].outcome # "failed" =>
          \E o \in session[r][log[r][i].diary[2]] : o.id = log[r][i].diary
    /\ log[r][i].outcome = "saved" =>
          (log[r][i].is_new_diary <=> log[r][i].diary[1] = r /\
              \A j \in 1 .. i - 1 : log[r][j].diary # log[r][i].diary)

\* The entries of every log.
LogInv == \A r \in Request : \A i \in DOMAIN log[r] : LogFact(r, i)

\* Why r has inserted a diary of this meal.
NewFact(r, m) ==
    \/ pc[r] = "save_new" /\ meal[r] = m
    \/ Spoilt(r)
    \/ \E i \in DOMAIN log[r] :
           log[r][i].diary = <<r, m>> /\ log[r][i].outcome \in {"saved", "unwritten"}

\* Every diary a session has inserted has a reason.
NewInv ==
    \A r \in Request, m \in Meal : \A o \in session[r][m] :
        o.id = <<r, m>> => NewFact(r, m)

\* The inductive invariant.
Inv ==
    /\ TypeOK /\ StageInv /\ SessionInv /\ LockInv /\ LogInv /\ NewInv
    /\ FailureLeavesNothing /\ OneLiveDiaryPerMeal

\* What TypeOK says of a Diary object, and of pc.
Place == {"ready", "next", "insert", "save_new", "save"} \cup Answers
Object == [id : DiaryId, count : 0 .. MaxPhotos]

\* It holds at first.
LEMMA InvInit == Init => Inv
<1> SUFFICES ASSUME Init PROVE Inv
  OBVIOUS
<1> USE BatchAssumption DEF Init
<1>1. TypeOK
  <2>1. diaries \subseteq DiaryId /\ photos \subseteq Request \X (1 .. MaxFiles) \X DiaryId
    BY DEF DiaryId
  <2>2. photo_count \in [DiaryId -> 0 .. MaxPhotos]
    BY DEF DiaryId
  <2>3. lock \in [Meal -> Request \cup {Past}] /\ meal \in [Request -> Meal]
    OBVIOUS
  <2>4. /\ pc \in [Request -> Place]
        /\ files \in [Request -> 0 .. MaxFiles]
        /\ faults \in 0 .. MaxFaults
    BY DEF Answers, Place
  <2>5. session \in [Request -> [Meal -> SUBSET Object]]
    OBVIOUS
  <2>6. /\ log \in [Request -> Seq(FileResult)]
        /\ \A r \in Request : Len(log[r]) <= files[r]
    OBVIOUS
  <2>7. QED
    BY <2>1, <2>2, <2>3, <2>4, <2>5, <2>6, Zenon DEF TypeOK, Object
<1>2. StageInv
  BY DEF StageInv, StageFact, Working
<1>3. SessionInv /\ LockInv /\ NewInv
  BY DEF SessionInv, LockInv, NewInv
<1>4. LogInv
  BY DEF LogInv, LogFact
<1>5. FailureLeavesNothing
  <2>1. \A d \in diaries : d[1] = Past
    OBVIOUS
  <2>2. QED
    BY <2>1 DEF FailureLeavesNothing, Rows
<1>6. OneLiveDiaryPerMeal
  BY DEF OneLiveDiaryPerMeal
<1>7. QED
  BY <1>1, <1>2, <1>3, <1>4, <1>5, <1>6 DEF Inv

\* What Write adds to the log of a request.
Wrote(r, outcome, diary, is_new) ==
    /\ log' \in [Request -> Seq(FileResult)]
    /\ \A q \in Request : q # r => log'[q] = log[q]
    /\ Len(log'[r]) = Len(log[r]) + 1
    /\ DOMAIN log'[r] = DOMAIN log[r] \cup {Len(log[r]) + 1}
    /\ \A i \in DOMAIN log[r] : i \in 1 .. Len(log[r]) /\ log'[r][i] = log[r][i]
    /\ log'[r][Len(log[r]) + 1].outcome = outcome
    /\ log'[r][Len(log[r]) + 1].diary = diary
    /\ log'[r][Len(log[r]) + 1].is_new_diary = is_new

\* Write does that.
LEMMA WriteFacts ==
    ASSUME TypeOK, NEW r \in Request, NEW outcome \in Outcomes, NEW diary \in DiaryId,
           NEW is_new \in BOOLEAN, Write(r, outcome, diary, is_new)
    PROVE  Wrote(r, outcome, diary, is_new)
<1> DEFINE e == [outcome |-> outcome, diary |-> diary, is_new_diary |-> is_new]
<1>1. log' = [log EXCEPT ![r] = Append(log[r], e)]
  BY DEF Write, TypeOK
<1>2. e \in FileResult
  BY DEF FileResult
<1>3. e.outcome = outcome /\ e.diary = diary /\ e.is_new_diary = is_new
  OBVIOUS
<1> HIDE DEF e
<1>4. log \in [Request -> Seq(FileResult)]
  BY DEF TypeOK
<1>5. QED
  BY <1>1, <1>2, <1>3, <1>4 DEF Wrote

\* A request at a file has the Diary object of its meal.
LEMMA DiaryOfFacts ==
    ASSUME Inv, NEW r \in Request, AtFile(r)
    PROVE  /\ DiaryOf(r) \in session[r][meal[r]]
           /\ DiaryOf(r).id \in DiaryId /\ DiaryOf(r).count \in 0 .. MaxPhotos
           /\ session[r][meal[r]] = {DiaryOf(r)}
           /\ DiaryOf(r).id[2] = meal[r]
           /\ pc[r] = "save_new" => DiaryOf(r).id = <<r, meal[r]>> /\ DiaryOf(r).count = 0
<1>1. session[r][meal[r]] # {}
  BY DEF AtFile, Inv, StageInv, StageFact
<1>2. DiaryOf(r) \in session[r][meal[r]]
  BY <1>1 DEF DiaryOf
<1>3. meal[r] \in Meal /\ session[r][meal[r]] \subseteq Object
  BY DEF Inv, TypeOK, Object
<1>4. DiaryOf(r) \in Object
  BY <1>2, <1>3
<1>5. DiaryOf(r).id \in DiaryId /\ DiaryOf(r).count \in 0 .. MaxPhotos
  BY <1>4 DEF Object
<1>6. session[r][meal[r]] = {DiaryOf(r)} /\ DiaryOf(r).id[2] = meal[r]
  BY <1>2, <1>3 DEF Inv, SessionInv
<1>7. pc[r] = "save_new" => DiaryOf(r).id = <<r, meal[r]>> /\ DiaryOf(r).count = 0
  BY <1>2 DEF Inv, StageInv, StageFact
<1>8. QED
  BY <1>2, <1>5, <1>6, <1>7

\* A request that is refused or begins has written nothing.
LEMMA ValidateKeeps ==
    ASSUME Inv, NEW r \in Request, NEW n \in 0 .. MaxFiles, Validate(r, n)
    PROVE  Inv'
<1> USE DEF Validate, rows, Go
<1>1. TypeOK'
  <2>1. /\ files' \in [Request -> 0 .. MaxFiles]
        /\ pc' \in [Request -> Place]
    BY DEF Inv, TypeOK, Answers, Place
  <2>2. \A q \in Request : Len(log'[q]) <= files'[q]
    <3>1. Len(log[r]) = 0
      BY DEF Inv, StageInv, StageFact
    <3>2. files'[r] >= 0 /\ \A q \in Request : q # r => files'[q] = files[q]
      BY <2>1, BatchAssumption DEF Inv, TypeOK
    <3>3. QED
      BY <3>1, <3>2 DEF Inv, TypeOK
  <2>3. QED
    BY <2>1, <2>2 DEF Inv, TypeOK, Place
<1>2. StageInv'
  BY DEF Inv, TypeOK, StageInv, StageFact, Working, Spoilt, Answers
<1>3. (SessionInv /\ LogInv)'
  BY DEF Inv, SessionInv, LogInv, LogFact
<1>4. LockInv'
  <2>1. \A q \in Request : /\ Spoilt(q)' <=> Spoilt(q)
                           /\ pc'[q] \notin Answers => pc[q] \notin Answers
    BY DEF Inv, TypeOK, Spoilt, Answers
  <2>2. QED
    BY <2>1 DEF Inv, LockInv
<1>5. NewInv'
  <2>1. /\ UNCHANGED <<session, log, meal>>
        /\ \A q \in Request : pc[q] = "save_new" => pc'[q] = "save_new"
        /\ \A q \in Request : Spoilt(q)' <=> Spoilt(q)
    BY DEF Inv, TypeOK, Spoilt
  <2>2. QED
    BY <2>1 DEF Inv, NewInv, NewFact
<1>6. FailureLeavesNothing'
  BY DEF Inv, FailureLeavesNothing, Spoilt, Rows, TypeOK
<1>7. OneLiveDiaryPerMeal'
  BY DEF Inv, OneLiveDiaryPerMeal
<1>8. QED
  BY <1>1, <1>2, <1>3, <1>4, <1>5, <1>6, <1>7 DEF Inv

\* An object that is read is of a committed row: the request has none of its own there.
LEMMA GetDiaryKeeps ==
    ASSUME Inv, NEW r \in Request, NEW m \in Meal, GetDiary(r, m)
    PROVE  Inv'
<1> DEFINE objects == IF session[r][m] # {} THEN session[r][m]
                      ELSE {[id |-> d, count |-> photo_count[d]] :
                               d \in {e \in diaries : e[2] = m}}
<1>1. /\ session' = [session EXCEPT ![r] = [session[r] EXCEPT ![m] = objects]]
      /\ pc' = [pc EXCEPT ![r] = IF session'[r][m] = {} THEN "insert" ELSE "save"]
      /\ meal' = [meal EXCEPT ![r] = m]
      /\ pc[r] = "next" /\ Len(log[r]) < files[r] /\ ~Spoilt(r)
      /\ UNCHANGED <<rows, lock, files, log, faults>>
  BY DEF GetDiary, Go, Inv, TypeOK
<1>2. objects \subseteq Object
  BY DEF Inv, TypeOK, Object
<1>3. session \in [Request -> [Meal -> SUBSET Object]]
  BY DEF Inv, TypeOK, Object
<1>4. /\ session[r][m] # {} => objects = session[r][m]
      /\ session[r][m] = {} => \A o \in objects : o.id \in diaries /\ o.id[2] = m
  OBVIOUS
<1>5. \A o, p \in objects : o = p
  <2>1. CASE session[r][m] # {}
    BY <1>4, <2>1 DEF Inv, SessionInv
  <2>2. CASE session[r][m] = {}
    <3>1. \A d, e \in diaries : d[2] = m /\ e[2] = m => d = e
      BY DEF Inv, OneLiveDiaryPerMeal
    <3>2. QED
      BY <2>2, <3>1
  <2>3. QED
    BY <2>1, <2>2
<1> HIDE DEF objects
<1>6. /\ session' \in [Request -> [Meal -> SUBSET Object]]
      /\ session'[r][m] = objects
      /\ \A q \in Request, n \in Meal : q # r \/ n # m => session'[q][n] = session[q][n]
  BY <1>1, <1>2, <1>3
<1>7. /\ pc' \in [Request -> Place]
      /\ pc'[r] = IF session'[r][m] = {} THEN "insert" ELSE "save"
      /\ \A q \in Request : q # r => pc'[q] = pc[q]
      /\ meal' \in [Request -> Meal]
      /\ meal'[r] = m /\ \A q \in Request : q # r => meal'[q] = meal[q]
  BY <1>1 DEF Inv, TypeOK, Place
<1>8. \A q \in Request : /\ Spoilt(q)' <=> Spoilt(q)
                         /\ pc'[q] \notin Answers => pc[q] \notin Answers
  BY <1>1, <1>7 DEF Spoilt, Answers
<1>9. \A d \in diaries : d # <<r, m>>
  BY <1>1 DEF Inv, FailureLeavesNothing
<1>10. ASSUME NEW q \in Request, NEW n \in Meal, NEW o \in session'[q][n], o.id = <<q, n>>
       PROVE  o \in session[q][n]
  <2>1. CASE q = r /\ n = m
    BY <1>4, <1>6, <1>9, <1>10, <2>1
  <2>2. CASE q # r \/ n # m
    BY <1>6, <2>2
  <2>3. QED
    BY <2>1, <2>2
<1>11. \A q \in Request : \A n \in Meal :
          pc[q] = "save_new" /\ meal[q] = n => pc'[q] = "save_new" /\ meal'[q] = n
  BY <1>1, <1>7
<1>12. TypeOK'
  BY <1>1, <1>6, <1>7 DEF Inv, TypeOK, rows, Object
<1>13. StageInv'
  BY <1>1, <1>6, <1>7, <1>8 DEF Inv, StageInv, StageFact, Working
<1>14. SessionInv'
  BY <1>1, <1>4, <1>5, <1>6 DEF Inv, SessionInv, rows
<1>15. LockInv'
  BY <1>1, <1>8, <1>10 DEF Inv, LockInv, rows
<1>16. LogInv'
  BY <1>1, <1>4, <1>6 DEF Inv, LogInv, LogFact
<1>17. NewInv'
  <2> SUFFICES ASSUME NEW q \in Request, NEW n \in Meal, NEW o \in session'[q][n],
                      o.id = <<q, n>>
               PROVE  NewFact(q, n)'
    BY DEF NewInv
  <2>1. o \in session[q][n]
    BY <1>10
  <2>2. NewFact(q, n)
    BY <2>1 DEF Inv, NewInv
  <2>3. QED
    BY <1>1, <1>8, <1>11, <2>2 DEF NewFact
<1>18. FailureLeavesNothing' /\ OneLiveDiaryPerMeal'
  BY <1>1, <1>7, <1>8 DEF Inv, FailureLeavesNothing, OneLiveDiaryPerMeal, Rows, rows
<1>19. QED
  BY <1>12, <1>13, <1>14, <1>15, <1>16, <1>17, <1>18 DEF Inv

\* The entries of a log.
LEMMA LogEntry ==
    ASSUME TypeOK, NEW r \in Request, NEW i \in DOMAIN log[r]
    PROVE  /\ i \in Nat /\ log[r][i] \in FileResult
           /\ log[r][i].diary \in DiaryId /\ log[r][i].diary[2] \in Meal
           /\ \A j \in 1 .. i - 1 : j \in DOMAIN log[r]
<1>1. log[r] \in Seq(FileResult)
  BY DEF TypeOK
<1>2. DOMAIN log[r] = 1 .. Len(log[r]) /\ Len(log[r]) \in Nat
  BY <1>1
<1>3. i \in Nat /\ log[r][i] \in FileResult
  BY <1>1, <1>2
<1>4. log[r][i].diary \in DiaryId
  BY <1>3 DEF FileResult
<1>5. log[r][i].diary[2] \in Meal
  BY <1>4 DEF DiaryId
<1>6. QED
  BY <1>2, <1>3, <1>4, <1>5

\* Only a failed flush spoils a session.
LEMMA SpoiltFacts ==
    ASSUME TypeOK, NEW r \in Request, NEW outcome, NEW diary, NEW is_new,
           Wrote(r, outcome, diary, is_new)
    PROVE  /\ Spoilt(r)' <=> Spoilt(r) \/ outcome = "failed"
           /\ \A q \in Request : q # r => (Spoilt(q)' <=> Spoilt(q))
  BY DEF Wrote, Spoilt, TypeOK

\* A file that is refused, unwritten or failed changes the log, and the locks if the
\* transaction is lost with it.
LEMMA WriteKeeps ==
    ASSUME Inv, NEW r \in Request, NEW outcome \in {"refused", "unwritten", "failed"},
           NEW diary \in DiaryId, Write(r, outcome, diary, FALSE), Go(r, "next"),
           pc[r] \in {"next", "insert", "save", "save_new"}, Len(log[r]) < files[r],
           UNCHANGED <<rows, files, meal, session>>, faults' \in 0 .. MaxFaults,
           outcome = "failed" => lock' \in {lock, Released(r)},
           outcome # "failed" =>
               /\ lock' = lock
               /\ \E o \in session[r][diary[2]] : o.id = diary
               /\ pc[r] = "save_new" => outcome = "unwritten" /\ diary = <<r, meal[r]>>
    PROVE  Inv'
<1>1. Wrote(r, outcome, diary, FALSE)
  BY WriteFacts DEF Inv, Outcomes
<1>2. /\ Spoilt(r)' <=> Spoilt(r) \/ outcome = "failed"
      /\ \A q \in Request : q # r => (Spoilt(q)' <=> Spoilt(q))
  BY <1>1, SpoiltFacts DEF Inv
<1>3. /\ pc' \in [Request -> Place]
      /\ pc'[r] = "next"
      /\ \A q \in Request : q # r => pc'[q] = pc[q]
      /\ pc[r] \notin Answers
  BY DEF Go, Inv, TypeOK, Answers, Place
<1>4. /\ lock' \in [Meal -> Request \cup {Past}]
      /\ outcome # "failed" => lock' = lock
      /\ \A q \in Request, m \in Meal : q # r /\ lock[m] = q => lock'[m] = q
  BY BatchAssumption DEF Inv, TypeOK, Released
<1>5. TypeOK'
  <2>1. \A q \in Request : Len(log'[q]) <= files'[q]
    <3>1. Len(log[r]) \in Nat /\ files[r] \in Nat
      BY DEF Inv, TypeOK
    <3>2. Len(log'[r]) = Len(log[r]) + 1 /\ \A q \in Request : q # r => log'[q] = log[q]
      BY <1>1 DEF Wrote
    <3>3. Len(log'[r]) <= files'[r]
      BY <3>1, <3>2
    <3>4. \A q \in Request : Len(log[q]) <= files[q]
      BY DEF Inv, TypeOK
    <3>5. QED
      BY <3>2, <3>3, <3>4
  <2>2. QED
    BY <1>1, <1>3, <1>4, <2>1 DEF Wrote, Inv, TypeOK, rows, Place
<1>6. StageInv'
  <2>1. ASSUME NEW q \in Request, q # r
        PROVE  log'[q] = log[q] /\ pc'[q] = pc[q] /\ (Spoilt(q)' <=> Spoilt(q))
    BY <1>1, <1>2, <1>3, <2>1 DEF Wrote
  <2>2. ASSUME NEW q \in Request, q # r
        PROVE  StageFact(q)'
    <3>1. StageFact(q)
      BY DEF Inv, StageInv
    <3>2. QED
      BY <2>1, <2>2, <3>1 DEF StageFact, Working
  <2>3. StageFact(r)'
    BY <1>3 DEF StageFact, Working
  <2>4. QED
    BY <2>2, <2>3 DEF StageInv
<1>7. SessionInv'
  BY DEF Inv, SessionInv, rows
<1>8. LockInv'
  BY <1>2, <1>3, <1>4 DEF Inv, LockInv, rows
<1>9. LogInv'
  <2> SUFFICES ASSUME NEW q \in Request, NEW i \in DOMAIN log'[q]
               PROVE  LogFact(q, i)'
    BY DEF LogInv
  <2>1. CASE q # r
    <3>1. log'[q] = log[q]
      BY <1>1, <2>1 DEF Wrote
    <3>2. LogFact(q, i)
      BY <3>1 DEF Inv, LogInv
    <3>3. QED
      BY <3>1, <3>2 DEF LogFact
  <2>2. CASE q = r /\ i \in DOMAIN log[r]
    <3>1. LogFact(r, i)
      BY <2>2 DEF Inv, LogInv
    <3>2. log'[r][i] = log[r][i] /\ \A j \in 1 .. i - 1 : log'[r][j] = log[r][j]
      BY <1>1, <2>2 DEF Wrote, Inv, TypeOK
    <3>3. QED
      BY <2>2, <3>1, <3>2 DEF LogFact
  <2>3. CASE q = r /\ i = Len(log[r]) + 1
    BY <1>1, <2>3 DEF LogFact, Wrote
  <2>4. QED
    BY <1>1, <2>1, <2>2, <2>3 DEF Wrote
<1>10. NewInv'
  <2> SUFFICES ASSUME NEW q \in Request, NEW m \in Meal, NEW o \in session[q][m],
                      o.id = <<q, m>>
               PROVE  NewFact(q, m)'
    BY DEF NewInv
  <2>1. NewFact(q, m)
    BY DEF Inv, NewInv
  <2>2. CASE q # r
    BY <1>1, <1>2, <1>3, <2>1, <2>2 DEF NewFact, Wrote
  <2>3. CASE q = r
    <3>1. CASE pc[r] = "save_new" /\ meal[r] = m
      <4>1. CASE outcome = "failed"
        BY <1>2, <2>3, <4>1 DEF NewFact
      <4>2. CASE outcome # "failed"
        <5>1. outcome = "unwritten" /\ diary = <<r, m>>
          BY <3>1, <4>2
        <5>2. QED
          BY <1>1, <2>3, <5>1 DEF NewFact, Wrote
      <4>3. QED
        BY <4>1, <4>2
    <3>2. CASE Spoilt(r)
      BY <1>2, <2>3, <3>2 DEF NewFact
    <3>3. ASSUME NEW i \in DOMAIN log[r], log[r][i].diary = <<r, m>>,
                 log[r][i].outcome \in {"saved", "unwritten"}
          PROVE  NewFact(q, m)'
      BY <1>1, <2>3, <3>3 DEF NewFact, Wrote
    <3>4. QED
      BY <2>1, <2>3, <3>1, <3>2, <3>3 DEF NewFact
  <2>4. QED
    BY <2>2, <2>3
<1>11. (FailureLeavesNothing /\ OneLiveDiaryPerMeal)'
  BY <1>2, <1>3 DEF Inv, FailureLeavesNothing, OneLiveDiaryPerMeal, Rows, rows, Answers
<1>12. QED
  BY <1>5, <1>6, <1>7, <1>8, <1>9, <1>10, <1>11 DEF Inv

\* The steps that only write an entry.
LEMMA GetDiaryRaisesKeeps ==
    ASSUME Inv, NEW r \in Request, NEW m \in Meal, GetDiaryRaises(r, m)
    PROVE  Inv'
<1>1. Go(r, "next")
  BY DEF GetDiaryRaises, Go, Inv, TypeOK
<1>2. <<r, m>> \in DiaryId /\ faults' \in 0 .. MaxFaults
  BY DEF DiaryId, GetDiaryRaises, Inv, TypeOK
<1>3. QED
  BY <1>1, <1>2, WriteKeeps DEF GetDiaryRaises

LEMMA RefusePhotoKeeps ==
    ASSUME Inv, NEW r \in Request, RefusePhoto(r)
    PROVE  Inv'
<1>1. /\ AtFile(r) /\ ~HasRoom(r) /\ Write(r, "refused", DiaryOf(r).id, FALSE)
      /\ Go(r, "next") /\ UNCHANGED <<rows, lock, files, meal, session, faults>>
  BY DEF RefusePhoto
<1>2. PICK o : o = DiaryOf(r)
  OBVIOUS
<1>3. /\ o \in session[r][meal[r]] /\ o.id \in DiaryId /\ o.id[2] = meal[r]
      /\ pc[r] = "save_new" => o.count = 0
  BY <1>1, <1>2, DiaryOfFacts
<1>4. pc[r] # "save_new"
  BY <1>1, <1>2, <1>3, BatchAssumption DEF HasRoom
<1>5. pc[r] = "save" /\ Len(log[r]) < files[r]
  BY <1>1, <1>4 DEF AtFile, Inv, StageInv, StageFact, Working
<1>6. faults' \in 0 .. MaxFaults /\ \E p \in session[r][o.id[2]] : p.id = o.id
  BY <1>1, <1>3 DEF Inv, TypeOK
<1>7. QED
  BY <1>1, <1>2, <1>3, <1>5, <1>6, WriteKeeps

LEMMA StoreFailsKeeps ==
    ASSUME Inv, NEW r \in Request, StoreFails(r)
    PROVE  Inv'
<1>1. /\ AtFile(r) /\ Write(r, "unwritten", DiaryOf(r).id, FALSE)
      /\ Go(r, "next") /\ UNCHANGED <<rows, lock, files, meal, session>>
  BY DEF StoreFails
<1>2. PICK o : o = DiaryOf(r)
  OBVIOUS
<1>3. /\ o \in session[r][meal[r]] /\ o.id \in DiaryId /\ o.id[2] = meal[r]
      /\ pc[r] = "save_new" => o.id = <<r, meal[r]>>
  BY <1>1, <1>2, DiaryOfFacts
<1>4. pc[r] \in {"save", "save_new"} /\ Len(log[r]) < files[r]
  BY <1>1 DEF AtFile, Inv, StageInv, StageFact, Working
<1>5. faults' \in 0 .. MaxFaults
  BY BatchAssumption DEF StoreFails, Fault, Inv, TypeOK
<1>6. \E p \in session[r][o.id[2]] : p.id = o.id
  BY <1>3
<1>7. QED
  BY <1>1, <1>2, <1>3, <1>4, <1>5, <1>6, WriteKeeps

LEMMA SpoilKeeps ==
    ASSUME Inv, NEW r \in Request, Flushing(r), Spoil(r), faults' \in 0 .. MaxFaults
    PROVE  Inv'
<1>1. pc[r] \in {"insert", "save", "save_new"} /\ Len(log[r]) < files[r]
  BY DEF Flushing, AtFile, Inv, StageInv, StageFact, Working
<1>2. <<r, meal[r]>> \in DiaryId /\ lock' = Released(r)
  BY DEF DiaryId, Inv, TypeOK, Spoil, EndTransaction
<1>3. QED
  BY <1>1, <1>2, WriteKeeps DEF Spoil

LEMMA FlushFailsKeeps ==
    ASSUME Inv, NEW r \in Request, FlushFails(r)
    PROVE  Inv'
<1>1. faults' \in 0 .. MaxFaults
  BY BatchAssumption DEF FlushFails, Fault, Inv, TypeOK
<1>2. QED
  BY <1>1, SpoilKeeps DEF FlushFails

LEMMA DeadlockVictimKeeps ==
    ASSUME Inv, NEW r \in Request, DeadlockVictim(r)
    PROVE  Inv'
<1>1. Flushing(r) /\ Spoil(r) /\ faults' = faults
  BY DEF DeadlockVictim, WaitsFor
<1>2. faults' \in 0 .. MaxFaults
  BY <1>1 DEF Inv, TypeOK
<1>3. QED
  BY <1>1, <1>2, SpoilKeeps

\* The INSERT spoils the session, or makes a diary of a meal that has none and locks it.
LEMMA CreateDiaryKeeps ==
    ASSUME Inv, NEW r \in Request, CreateDiary(r)
    PROVE  Inv'
<1>1. CASE \E d \in diaries : d[2] = meal[r]
  <2>1. Flushing(r) /\ Spoil(r) /\ faults' \in 0 .. MaxFaults
    BY <1>1 DEF CreateDiary, Flushing, Inv, TypeOK
  <2>2. QED
    BY <2>1, SpoilKeeps
<1>2. CASE ~ \E d \in diaries : d[2] = meal[r]
  <2> DEFINE o == [id |-> <<r, meal[r]>>, count |-> 0]
             m == meal[r]
  <2>1. /\ pc[r] = "insert" /\ Free(r) /\ Take(r) /\ Go(r, "save_new")
        /\ UNCHANGED <<rows, files, meal, log, faults>>
        /\ session' = [session EXCEPT ![r] = [session[r] EXCEPT ![m] = {o}]]
    BY <1>2 DEF CreateDiary, Inv, TypeOK
  <2>2. o \in Object /\ o.id = <<r, m>> /\ m \in Meal
    BY BatchAssumption DEF Object, DiaryId, Inv, TypeOK
  <2>3. m = meal[r] /\ session[r][m] = {} /\ ~Spoilt(r) /\ Len(log[r]) < files[r]
    BY <2>1 DEF Inv, StageInv, StageFact, Working
  <2>4. session \in [Request -> [Meal -> SUBSET Object]]
    BY DEF Inv, TypeOK, Object
  <2>5. o = [id |-> <<r, meal[r]>>, count |-> 0]
    OBVIOUS
  <2> HIDE DEF o, m
  <2>6. /\ session' \in [Request -> [Meal -> SUBSET Object]]
        /\ session'[r][m] = {o}
        /\ \A q \in Request, n \in Meal : q # r \/ n # m => session'[q][n] = session[q][n]
    BY <2>1, <2>2, <2>4
  <2>7. /\ pc' \in [Request -> Place]
        /\ pc'[r] = "save_new"
        /\ \A q \in Request : q # r => pc'[q] = pc[q]
        /\ lock' \in [Meal -> Request \cup {Past}]
        /\ lock[m] \in {Past, r} /\ lock'[m] = r
        /\ \A n \in Meal : n # m => lock'[n] = lock[n]
    BY <2>1, <2>2, <2>3 DEF Go, Take, Free, Inv, TypeOK, Place
  <2>8. \A q \in Request : /\ Spoilt(q)' <=> Spoilt(q)
                           /\ pc'[q] \notin Answers => pc[q] \notin Answers
    BY <2>1, <2>7 DEF Spoilt, Answers
  <2>9. TypeOK'
    BY <2>1, <2>6, <2>7 DEF Inv, TypeOK, rows, Object, Place
  <2>10. StageInv'
    <3>1. \A i \in DOMAIN log[r] : log[r][i].diary # <<r, meal[r]>>
      <4> SUFFICES ASSUME NEW i \in DOMAIN log[r], log[r][i].diary = <<r, meal[r]>>
                   PROVE  FALSE
        OBVIOUS
      <4>1. LogFact(r, i) /\ log[r][i].outcome # "failed"
        BY <2>3 DEF Inv, LogInv, Spoilt
      <4>2. \E p \in session[r][meal[r]] : TRUE
        BY <4>1 DEF LogFact
      <4>3. QED
        BY <2>3, <4>2
    <3>2. session'[r][meal'[r]] = {[id |-> <<r, meal'[r]>>, count |-> 0]}
      BY <2>1, <2>3, <2>5, <2>6
    <3>3. ASSUME NEW q \in Request, q # r
          PROVE  session'[q] [meal'[q]] = session[q][meal[q]] /\ meal[q] \in Meal
      BY <2>1, <2>6, <3>3 DEF Inv, TypeOK
    <3>4. QED
      BY <2>1, <2>3, <2>7, <2>8, <3>1, <3>2, <3>3 DEF Inv, StageInv, StageFact, Working
  <2>11. SessionInv'
    BY <2>1, <2>2, <2>6 DEF Inv, SessionInv, rows
  <2>12. LockInv'
    BY <1>2, <2>1, <2>2, <2>3, <2>6, <2>7, <2>8, BatchAssumption DEF Inv, LockInv, rows
  <2>13. LogInv'
    BY <2>1, <2>3, <2>6 DEF Inv, LogInv, LogFact
  <2>14. NewInv'
    <3> SUFFICES ASSUME NEW q \in Request, NEW n \in Meal, NEW p \in session'[q][n],
                        p.id = <<q, n>>
                 PROVE  NewFact(q, n)'
      BY DEF NewInv
    <3>1. CASE q = r /\ n = m
      BY <2>1, <2>3, <2>7, <3>1 DEF NewFact
    <3>2. CASE q # r \/ n # m
      <4>1. NewFact(q, n)
        BY <2>6, <3>2 DEF Inv, NewInv
      <4>2. pc[q] = "save_new" => pc'[q] = "save_new"
        BY <2>7
      <4>3. QED
        BY <2>1, <2>8, <4>1, <4>2 DEF NewFact
    <3>3. QED
      BY <3>1, <3>2
  <2>15. (FailureLeavesNothing /\ OneLiveDiaryPerMeal)'
    BY <2>1, <2>7, <2>8 DEF Inv, FailureLeavesNothing, OneLiveDiaryPerMeal, Rows, rows
  <2>16. QED
    BY <2>9, <2>10, <2>11, <2>12, <2>13, <2>14, <2>15 DEF Inv
<1>3. QED
  BY <1>1, <1>2

\* A saved file changes the counter in memory; the diary it is in has its reason.
LEMMA CreatePhotoKeeps ==
    ASSUME Inv, NEW r \in Request, CreatePhoto(r)
    PROVE  Inv'
<1> DEFINE m == meal[r]
           d == DiaryOf(r).id
           o == [id |-> d, count |-> DiaryOf(r).count + 1]
<1>1. /\ AtFile(r) /\ HasRoom(r) /\ Free(r) /\ Take(r) /\ Go(r, "next")
      /\ Write(r, "saved", d, pc[r] = "save_new")
      /\ UNCHANGED <<rows, files, meal, faults>>
      /\ session' = [session EXCEPT ![r] = [session[r] EXCEPT ![m] = {o}]]
  BY DEF CreatePhoto, Inv, TypeOK
<1>2. /\ session[r][m] = {DiaryOf(r)} /\ d \in DiaryId /\ d[2] = m
      /\ pc[r] = "save_new" => d = <<r, m>>
      /\ DiaryOf(r).count \in 0 .. MaxPhotos /\ DiaryOf(r).count < MaxPhotos
  BY <1>1, DiaryOfFacts DEF HasRoom
<1>3. o \in Object /\ o.id = d /\ m \in Meal
  BY <1>2, BatchAssumption DEF Object, Inv, TypeOK
<1>4. m = meal[r] /\ \E p : session[r][m] = {p} /\ p.id = d
  BY <1>2
<1>5. (d[1] = r => d = <<r, m>>) /\ d[1] \in Request \cup {Past}
  BY <1>2 DEF DiaryId
<1> HIDE DEF m, d, o
<1>6. session \in [Request -> [Meal -> SUBSET Object]]
  BY DEF Inv, TypeOK, Object
<1>7. /\ session' \in [Request -> [Meal -> SUBSET Object]]
      /\ session'[r][m] = {o}
      /\ \A q \in Request, n \in Meal : q # r \/ n # m => session'[q][n] = session[q][n]
  BY <1>1, <1>3, <1>6
<1>8. Wrote(r, "saved", d, pc[r] = "save_new")
  BY <1>1, <1>2, WriteFacts DEF Inv, Outcomes
<1>9. \A q \in Request : Spoilt(q)' <=> Spoilt(q)
  BY <1>8, SpoiltFacts DEF Inv
<1>10. pc[r] \in {"save", "save_new"} /\ Len(log[r]) < files[r] /\ ~Spoilt(r)
  BY <1>1 DEF AtFile, Inv, StageInv, StageFact, Working
<1>11. /\ pc' \in [Request -> Place]
       /\ pc'[r] = "next"
       /\ \A q \in Request : q # r => pc'[q] = pc[q]
       /\ lock' \in [Meal -> Request \cup {Past}]
       /\ lock[m] \in {Past, r} /\ lock'[m] = r
       /\ \A n \in Meal : n # m => lock'[n] = lock[n]
  BY <1>1, <1>3, <1>4 DEF Go, Take, Free, Inv, TypeOK, Place
<1>12. \A q \in Request : pc'[q] \notin Answers => pc[q] \notin Answers
  BY <1>10, <1>11 DEF Answers
<1>13. TypeOK'
  <2>1. Len(log[r]) \in Nat /\ files[r] \in Nat
    BY DEF Inv, TypeOK
  <2>2. Len(log'[r]) <= files'[r]
    BY <1>1, <1>8, <1>10, <2>1 DEF Wrote
  <2>3. \A q \in Request : Len(log'[q]) <= files'[q]
    BY <1>1, <1>8, <2>2 DEF Wrote, Inv, TypeOK
  <2>4. QED
    BY <1>1, <1>7, <1>8, <1>11, <2>3 DEF Wrote, Inv, TypeOK, rows, Object
<1>14. StageInv'
  <2>1. ASSUME NEW q \in Request, q # r
        PROVE  /\ log'[q] = log[q] /\ pc'[q] = pc[q] /\ (Spoilt(q)' <=> Spoilt(q))
               /\ session'[q][meal[q]] = session[q][meal[q]]
    BY <1>7, <1>8, <1>9, <1>11, <2>1 DEF Wrote, Inv, TypeOK
  <2>2. QED
    BY <1>1, <1>11, <2>1 DEF Inv, StageInv, StageFact, Working
<1>15. SessionInv'
  <2> SUFFICES ASSUME NEW q \in Request, NEW n \in Meal, NEW p \in session'[q][n]
               PROVE  /\ \A p2 \in session'[q][n] : p2 = p
                      /\ p.id[2] = n
                      /\ p.id \in diaries \/ p.id = <<q, n>>
    BY <1>1 DEF SessionInv, rows
  <2>1. CASE q = r /\ n = m
    BY <1>3, <1>4, <1>7, <2>1 DEF Inv, SessionInv
  <2>2. CASE q # r \/ n # m
    BY <1>7, <2>2 DEF Inv, SessionInv
  <2>3. QED
    BY <2>1, <2>2
<1>16. LockInv'
  <2> SUFFICES ASSUME NEW q \in Request, NEW n \in Meal, NEW p \in session'[q][n],
                      p.id = <<q, n>>, ~Spoilt(q)', pc'[q] \notin Answers
               PROVE  lock'[n] = q /\ \A e \in diaries : e[2] # n
    BY <1>1 DEF LockInv, rows
  <2>1. PICK p0 \in session[q][n] : p0.id = <<q, n>>
    BY <1>3, <1>4, <1>7
  <2>2. lock[n] = q /\ \A e \in diaries : e[2] # n
    BY <2>1, <1>9, <1>12 DEF Inv, LockInv
  <2>3. QED
    BY <2>2, <1>11, BatchAssumption
<1>17. LogInv'
  <2> SUFFICES ASSUME NEW q \in Request, NEW i \in DOMAIN log'[q]
               PROVE  LogFact(q, i)'
    BY DEF LogInv
  <2>1. ASSUME NEW k \in Request, NEW e, \E p \in session[k][e[2]] : p.id = e, e[2] \in Meal
        PROVE  \E p \in session'[k][e[2]] : p.id = e
    <3>1. CASE k = r /\ e[2] = m
      BY <1>3, <1>4, <1>7, <2>1, <3>1
    <3>2. CASE k # r \/ e[2] # m
      BY <1>7, <2>1, <3>2
    <3>3. QED
      BY <3>1, <3>2
  <2>2. CASE ~ (q = r /\ i = Len(log[r]) + 1)
    <3>1. i \in DOMAIN log[q] /\ \A j \in DOMAIN log[q] : log'[q][j] = log[q][j]
      BY <1>8, <2>2 DEF Wrote
    <3>2. \A j \in 1 .. i - 1 : log'[q][j] = log[q][j]
      BY <3>1, LogEntry DEF Inv
    <3>3. LogFact(q, i)
      BY <3>1 DEF Inv, LogInv
    <3>4. log[q][i].diary[2] \in Meal
      BY <3>1, LogEntry DEF Inv
    <3>5. QED
      BY <2>1, <3>1, <3>2, <3>3, <3>4 DEF LogFact
  <2>3. CASE q = r /\ i = Len(log[r]) + 1
    <3>1. log'[r][i].outcome = "saved" /\ log'[r][i].diary = d
          /\ (log'[r][i].is_new_diary <=> pc[r] = "save_new")
      BY <1>8, <2>3 DEF Wrote
    <3>2. \A j \in 1 .. i - 1 : j \in DOMAIN log[r] /\ log'[r][j] = log[r][j]
      BY <1>8, <2>3 DEF Wrote, Inv, TypeOK
    <3>3. \A j \in DOMAIN log[r] : j \in 1 .. i - 1 /\ log'[r][j] = log[r][j]
      BY <1>8, <2>3 DEF Wrote, Inv, TypeOK
    <3>4. \E p \in session'[r][d[2]] : p.id = d
      BY <1>2, <1>3, <1>7 DEF d, m
    <3>5. CASE pc[r] = "save_new"
      <4>1. d = <<r, m>> /\ d[1] = r
        BY <1>2, <3>5 DEF d, m
      <4>2. \A j \in 1 .. i - 1 : log'[r][j].diary # d
        BY <1>4, <3>2, <3>5, <4>1 DEF Inv, StageInv, StageFact
      <4>3. QED
        BY <2>3, <3>1, <3>4, <3>5, <4>1, <4>2 DEF LogFact
    <3>6. CASE pc[r] # "save_new"
      <4>1. d[1] = r => \E j \in 1 .. i - 1 : log'[r][j].diary = d
        <5>1. d[1] = r => NewFact(r, m)
          BY <1>3, <1>4, <1>5 DEF Inv, NewInv
        <5>2. QED
          BY <1>5, <1>10, <3>3, <3>6, <5>1 DEF NewFact
      <4>2. QED
        BY <2>3, <3>1, <3>4, <3>6, <4>1 DEF LogFact
    <3>7. QED
      BY <3>5, <3>6
  <2>4. QED
    BY <2>2, <2>3
<1>18. NewInv'
  <2> SUFFICES ASSUME NEW q \in Request, NEW n \in Meal, NEW p \in session'[q][n],
                      p.id = <<q, n>>
               PROVE  NewFact(q, n)'
    BY DEF NewInv
  <2>1. CASE q = r /\ n = m
    <3>1. d = <<r, m>>
      BY <1>3, <1>7, <2>1
    <3>2. Len(log[r]) + 1 \in DOMAIN log'[r]
      BY <1>8 DEF Wrote
    <3>3. QED
      BY <1>8, <2>1, <3>1, <3>2 DEF NewFact, Wrote
  <2>2. CASE q # r
    <3>1. NewFact(q, n)
      BY <1>7, <2>2 DEF Inv, NewInv
    <3>2. QED
      BY <1>1, <1>8, <1>9, <1>11, <2>2, <3>1 DEF NewFact, Wrote
  <2>3. CASE q = r /\ n # m
    <3>1. NewFact(r, n)
      BY <1>7, <2>3 DEF Inv, NewInv
    <3>2. PICK i \in DOMAIN log[r] :
              log[r][i].diary = <<r, n>> /\ log[r][i].outcome \in {"saved", "unwritten"}
      BY <1>4, <1>10, <2>3, <3>1 DEF NewFact
    <3>3. i \in DOMAIN log'[r] /\ log'[r][i] = log[r][i]
      BY <1>8 DEF Wrote
    <3>4. QED
      BY <2>3, <3>2, <3>3 DEF NewFact
  <2>4. QED
    BY <2>1, <2>2, <2>3
<1>19. (FailureLeavesNothing /\ OneLiveDiaryPerMeal)'
  BY <1>1, <1>9, <1>10, <1>11
    DEF Inv, FailureLeavesNothing, OneLiveDiaryPerMeal, Rows, rows
<1>20. QED
  BY <1>13, <1>14, <1>15, <1>16, <1>17, <1>18, <1>19 DEF Inv

\* What an answer changes.
LEMMA AnswerFacts ==
    ASSUME Inv, NEW r \in Request, NEW status \in {"ok", "unprocessable", "error"},
           AtEnd(r), Answer(r, status)
    PROVE  /\ pc' \in [Request -> Place]
           /\ pc[r] = "next" /\ pc'[r] = status
           /\ \A q \in Request : q # r => pc'[q] = pc[q]
           /\ lock' \in [Meal -> Request \cup {Past}]
           /\ \A q \in Request, m \in Meal : q # r /\ lock[m] = q => lock'[m] = q
           /\ \A q \in Request : Spoilt(q)' <=> Spoilt(q)
           /\ UNCHANGED <<files, meal, session, log>>
<1>1. /\ pc[r] = "next" /\ pc' = [pc EXCEPT ![r] = status] /\ lock' = Released(r)
      /\ UNCHANGED <<files, meal, session, log>>
  BY DEF AtEnd, Answer, Go, EndTransaction
<1>2. \A q \in Request : Spoilt(q)' <=> Spoilt(q)
  BY <1>1 DEF Spoilt
<1>3. /\ lock' \in [Meal -> Request \cup {Past}]
      /\ \A q \in Request, m \in Meal : q # r /\ lock[m] = q => lock'[m] = q
  BY <1>1, BatchAssumption DEF Released, Inv, TypeOK
<1>4. QED
  BY <1>1, <1>2, <1>3 DEF Inv, TypeOK, Answers, Place

\* An answer changes nothing in the log and the session.
LEMMA AnswerStages ==
    ASSUME Inv, NEW r \in Request, NEW status \in {"ok", "unprocessable", "error"},
           AtEnd(r), Answer(r, status)
    PROVE  StageInv' /\ NewInv'
<1>1. /\ pc[r] = "next" /\ pc'[r] = status
      /\ \A q \in Request : q # r => pc'[q] = pc[q]
      /\ \A q \in Request : Spoilt(q)' <=> Spoilt(q)
      /\ UNCHANGED <<files, meal, session, log>>
  BY AnswerFacts
<1>2. StageInv'
  BY <1>1 DEF Inv, StageInv, StageFact, Working
<1>3. ASSUME NEW q \in Request, NEW m \in Meal, NewFact(q, m)
      PROVE  NewFact(q, m)'
  <2>1. pc[q] = "save_new" => pc'[q] = "save_new"
    BY <1>1
  <2>2. QED
    BY <1>1, <1>3, <2>1 DEF NewFact
<1>4. NewInv'
  BY <1>1, <1>3 DEF Inv, NewInv
<1>5. QED
  BY <1>2, <1>4

\* An answer that commits nothing.
LEMMA AnswerKeeps ==
    ASSUME Inv, NEW r \in Request, NEW status \in {"ok", "unprocessable", "error"},
           AtEnd(r), Answer(r, status), status = "ok" => Spoilt(r),
           UNCHANGED rows, faults' \in 0 .. MaxFaults
    PROVE  Inv'
<1>1. TypeOK'
  BY AnswerFacts DEF Inv, TypeOK, rows, Place
<1>2. StageInv'
  BY AnswerStages
<1>3. (SessionInv /\ LogInv /\ OneLiveDiaryPerMeal)'
  BY AnswerFacts DEF Inv, SessionInv, LogInv, LogFact, OneLiveDiaryPerMeal, rows
<1>4. LockInv'
  BY AnswerFacts DEF Inv, LockInv, rows, Answers
<1>5. NewInv'
  BY AnswerStages
<1>6. FailureLeavesNothing'
  BY AnswerFacts DEF Inv, FailureLeavesNothing, Rows, rows
<1>7. QED
  BY <1>1, <1>2, <1>3, <1>4, <1>5, <1>6 DEF Inv

\* The answers that commit nothing.
LEMMA AnswerNothingSavedKeeps ==
    ASSUME Inv, NEW r \in Request, AnswerNothingSaved(r)
    PROVE  Inv'
<1>1. faults' \in 0 .. MaxFaults
  BY DEF AnswerNothingSaved, Inv, TypeOK
<1>2. QED
  BY <1>1, AnswerKeeps DEF AnswerNothingSaved

LEMMA CommitFailsKeeps ==
    ASSUME Inv, NEW r \in Request, CommitFails(r)
    PROVE  Inv'
<1>1. faults' \in 0 .. MaxFaults
  BY BatchAssumption DEF CommitFails, Fault, Inv, TypeOK
<1>2. QED
  BY <1>1, AnswerKeeps DEF CommitFails

\* What Commit adds: diaries of r that stand for meals without one.
LEMMA CommitFacts ==
    ASSUME Inv, NEW r \in Request, AtEnd(r), ~Spoilt(r), Commit(r)
    PROVE  /\ diaries' = diaries \cup Inserted(r)
           /\ Inserted(r) \subseteq DiaryId
           /\ \A d \in Inserted(r) : /\ d = <<r, d[2]>> /\ d[1] = r /\ d[2] \in Meal
                                     /\ lock[d[2]] = r
                                     /\ \A e \in diaries : e[2] # d[2]
                                     /\ NewFact(r, d[2])
           /\ \A i \in Results(r) : log[r][i].diary \in diaries'
<1>1. diaries' = diaries \cup Inserted(r)
  BY DEF Commit
<1>2. \A d \in Inserted(r) : /\ d = <<r, d[2]>> /\ d[1] = r /\ d[2] \in Meal
                             /\ \E o \in session[r][d[2]] : o.id = d
  BY DEF Inserted
<1>3. Inserted(r) \subseteq DiaryId
  BY DEF Inserted, DiaryId
<1>4. pc[r] = "next" /\ pc[r] \notin Answers
  BY DEF AtEnd, Answers
<1>5. \A d \in Inserted(r) : lock[d[2]] = r /\ \A e \in diaries : e[2] # d[2]
  BY <1>2, <1>4 DEF Inv, LockInv
<1>6. \A d \in Inserted(r) : NewFact(r, d[2])
  BY <1>2 DEF Inv, NewInv
<1>7. ASSUME NEW i \in Results(r)
      PROVE  log[r][i].diary \in diaries'
  <2>1. i \in DOMAIN log[r] /\ log[r][i].outcome # "failed"
    BY DEF Results
  <2>2. PICK o \in session[r][log[r][i].diary[2]] : o.id = log[r][i].diary
    BY <2>1 DEF Inv, LogInv, LogFact
  <2>3. log[r][i].diary[2] \in Meal
    BY <2>1, LogEntry DEF Inv
  <2>4. o.id \in diaries \/ o.id = <<r, log[r][i].diary[2]>>
    BY <2>2, <2>3 DEF Inv, SessionInv
  <2>5. QED
    BY <1>1, <2>2, <2>3, <2>4 DEF Inserted
<1>8. QED
  BY <1>1, <1>2, <1>3, <1>5, <1>6, <1>7

\* A commit: nobody else has inserted a diary of these meals.
LEMMA AnswerSavedKeeps ==
    ASSUME Inv, NEW r \in Request, AnswerSaved(r)
    PROVE  Inv'
<1>1. faults' \in 0 .. MaxFaults /\ AtEnd(r) /\ Answer(r, "ok")
  BY DEF AnswerSaved, Inv, TypeOK
<1>2. CASE Spoilt(r)
  BY <1>1, <1>2, AnswerKeeps DEF AnswerSaved
<1>3. CASE ~Spoilt(r)
  <2>1. Commit(r)
    BY <1>3 DEF AnswerSaved
  <2>2. /\ pc' \in [Request -> Place]
        /\ pc[r] = "next" /\ pc'[r] = "ok"
        /\ \A q \in Request : q # r => pc'[q] = pc[q]
        /\ lock' \in [Meal -> Request \cup {Past}]
        /\ \A q \in Request, m \in Meal : q # r /\ lock[m] = q => lock'[m] = q
        /\ \A q \in Request : Spoilt(q)' <=> Spoilt(q)
        /\ UNCHANGED <<files, meal, session, log>>
    BY <1>1, AnswerFacts
  <2>3. /\ diaries' = diaries \cup Inserted(r)
        /\ Inserted(r) \subseteq DiaryId
        /\ \A d \in Inserted(r) : /\ d = <<r, d[2]>> /\ d[1] = r /\ d[2] \in Meal
                                  /\ lock[d[2]] = r /\ \A e \in diaries : e[2] # d[2]
    BY <1>1, <1>3, <2>1, CommitFacts
  <2>4. photos' = photos \cup {<<r, i, log[r][i].diary>> : i \in Results(r)}
    BY <2>1 DEF Commit
  <2>5. TypeOK'
    <3>1. photos' \subseteq Request \X (1 .. MaxFiles) \X DiaryId
      <4>1. ASSUME NEW i \in Results(r)
            PROVE  i \in 1 .. MaxFiles /\ log[r][i].diary \in DiaryId
        <5>1. i \in DOMAIN log[r]
          BY DEF Results
        <5>2. log[r][i].diary \in DiaryId
          BY <5>1, LogEntry DEF Inv
        <5>3. /\ DOMAIN log[r] = 1 .. Len(log[r]) /\ Len(log[r]) \in Nat
              /\ Len(log[r]) <= files[r] /\ files[r] \in 0 .. MaxFiles
          BY DEF Inv, TypeOK
        <5>4. QED
          BY <5>1, <5>2, <5>3, BatchAssumption
      <4>2. QED
        BY <2>4, <4>1 DEF Inv, TypeOK
    <3>2. photo_count' \in [DiaryId -> 0 .. MaxPhotos]
      <4>1. ASSUME NEW d \in DiaryId, NEW i \in Results(r), log[r][i].diary = d
            PROVE  (CHOOSE o \in session[r][d[2]] : TRUE).count \in 0 .. MaxPhotos
        <5>1. i \in DOMAIN log[r] /\ log[r][i].outcome # "failed"
          BY DEF Results
        <5>2. \E o \in session[r][d[2]] : TRUE
          BY <4>1, <5>1 DEF Inv, LogInv, LogFact
        <5>3. d[2] \in Meal
          BY DEF DiaryId
        <5>4. session[r][d[2]] \subseteq Object
          BY <5>3 DEF Inv, TypeOK, Object
        <5>5. PICK o \in Object : o = CHOOSE p \in session[r][d[2]] : TRUE
          BY <5>2, <5>4
        <5>6. QED
          BY <5>5 DEF Object
      <4>2. QED
        BY <2>1, <4>1 DEF Commit, Inv, TypeOK
    <3>3. diaries' \subseteq DiaryId
      BY <2>3 DEF Inv, TypeOK
    <3>4. QED
      BY <1>1, <2>2, <3>1, <3>2, <3>3 DEF Inv, TypeOK, Place
  <2>6. StageInv'
    BY <1>1, AnswerStages
  <2>7. (SessionInv /\ LogInv)'
    BY <2>2, <2>3 DEF Inv, SessionInv, LogInv, LogFact
  <2>8. LockInv'
    <3> SUFFICES ASSUME NEW q \in Request, NEW m \in Meal, NEW o \in session[q][m],
                        o.id = <<q, m>>, ~Spoilt(q), pc'[q] \notin Answers
                 PROVE  lock'[m] = q /\ \A e \in diaries' : e[2] # m
      BY <2>2 DEF LockInv
    <3>1. q # r /\ pc[q] \notin Answers
      BY <2>2 DEF Answers
    <3>2. lock[m] = q /\ \A e \in diaries : e[2] # m
      BY <3>1 DEF Inv, LockInv
    <3>3. QED
      BY <2>2, <2>3, <3>1, <3>2
  <2>9. NewInv'
    BY <1>1, AnswerStages
  <2>10. OneLiveDiaryPerMeal'
    BY <2>3 DEF Inv, OneLiveDiaryPerMeal
  <2>11. FailureLeavesNothing'
    BY <1>3, <2>2, <2>3, <2>4 DEF Inv, FailureLeavesNothing, Rows
  <2>12. QED
    BY <2>5, <2>6, <2>7, <2>8, <2>9, <2>10, <2>11 DEF Inv
<1>4. QED
  BY <1>2, <1>3

\* Every step keeps the inductive invariant.
LEMMA InvStep == Inv /\ [Next]_vars => Inv'
<1> SUFFICES ASSUME Inv, [Next]_vars
             PROVE  Inv'
  OBVIOUS
<1>1. ASSUME NEW r \in Request, NEW n \in 0 .. MaxFiles, Validate(r, n)
      PROVE  Inv'
  BY <1>1, ValidateKeeps
<1>2. ASSUME NEW r \in Request, NEW m \in Meal, GetDiary(r, m)
      PROVE  Inv'
  BY <1>2, GetDiaryKeeps
<1>3. ASSUME NEW r \in Request, NEW m \in Meal, GetDiaryRaises(r, m)
      PROVE  Inv'
  BY <1>3, GetDiaryRaisesKeeps
<1>4. ASSUME NEW r \in Request, CreateDiary(r)
      PROVE  Inv'
  BY <1>4, CreateDiaryKeeps
<1>5. ASSUME NEW r \in Request, RefusePhoto(r)
      PROVE  Inv'
  BY <1>5, RefusePhotoKeeps
<1>6. ASSUME NEW r \in Request, CreatePhoto(r)
      PROVE  Inv'
  BY <1>6, CreatePhotoKeeps
<1>7. ASSUME NEW r \in Request, AnswerNothingSaved(r)
      PROVE  Inv'
  BY <1>7, AnswerNothingSavedKeeps
<1>8. ASSUME NEW r \in Request, AnswerSaved(r)
      PROVE  Inv'
  BY <1>8, AnswerSavedKeeps
<1>9. ASSUME NEW r \in Request, StoreFails(r)
      PROVE  Inv'
  BY <1>9, StoreFailsKeeps
<1>10. ASSUME NEW r \in Request, FlushFails(r)
      PROVE  Inv'
  BY <1>10, FlushFailsKeeps
<1>11. ASSUME NEW r \in Request, CommitFails(r)
      PROVE  Inv'
  BY <1>11, CommitFailsKeeps
<1>12. ASSUME NEW r \in Request, DeadlockVictim(r)
      PROVE  Inv'
  BY <1>12, DeadlockVictimKeeps
<1>13. CASE UNCHANGED vars
  <2>1. UNCHANGED <<diaries, photos, photo_count, lock, pc, files, meal, session, log,
                    faults>>
    BY <1>13 DEF vars, rows
  <2>2. \A r \in Request : Spoilt(r)' <=> Spoilt(r)
    BY <2>1 DEF Spoilt
  <2>3. TypeOK'
    BY <2>1 DEF Inv, TypeOK
  <2>4. StageInv'
    BY <2>1, <2>2 DEF Inv, StageInv, StageFact, Working
  <2>5. (SessionInv /\ LogInv)'
    BY <2>1 DEF Inv, SessionInv, LogInv, LogFact
  <2>6. LockInv'
    BY <2>1, <2>2 DEF Inv, LockInv
  <2>7. NewInv'
    BY <2>1, <2>2 DEF Inv, NewInv, NewFact
  <2>8. (FailureLeavesNothing /\ OneLiveDiaryPerMeal)'
    BY <2>1, <2>2 DEF Inv, FailureLeavesNothing, Rows, OneLiveDiaryPerMeal
  <2>9. QED
    BY <2>3, <2>4, <2>5, <2>6, <2>7, <2>8 DEF Inv
<1>14. QED
  BY <1>1, <1>2, <1>3, <1>4, <1>5, <1>6, <1>7, <1>8, <1>9, <1>10, <1>11, <1>12,
     <1>13 DEF Next, Step
-----------------------------------------------------------------------------
\* A step commits an upload, or leaves the rows and the logs of what was answered.
CommitsOrKeeps ==
    \/ \E r \in Request : AnswerSaved(r) /\ ~Spoilt(r)
    \/ /\ UNCHANGED <<diaries, photos>>
       /\ \A q \in Request :
             /\ pc[q] = "ok" => pc'[q] = "ok" /\ log'[q] = log[q]
             /\ pc'[q] = "ok" => pc[q] = "ok" \/ Spoilt(q)'

\* Every step is of one of these two forms.
LEMMA StepShape == Inv /\ [Next]_vars => CommitsOrKeeps
<1> SUFFICES ASSUME Inv, [Next]_vars
             PROVE  CommitsOrKeeps
  OBVIOUS
<1> USE DEF Answers
<1>1. ASSUME NEW r \in Request, NEW n \in 0 .. MaxFiles, Validate(r, n)
      PROVE  CommitsOrKeeps
  BY <1>1 DEF Validate, Go, rows, CommitsOrKeeps, Inv, TypeOK
<1>2. ASSUME NEW r \in Request, NEW m \in Meal, GetDiary(r, m)
      PROVE  CommitsOrKeeps
  BY <1>2 DEF GetDiary, Go, rows, CommitsOrKeeps, Inv, TypeOK
<1>3. ASSUME NEW r \in Request, NEW m \in Meal, GetDiaryRaises(r, m)
      PROVE  CommitsOrKeeps
  BY <1>3 DEF GetDiaryRaises, Write, rows, CommitsOrKeeps, Inv, TypeOK
<1>4. ASSUME NEW r \in Request, CreateDiary(r)
      PROVE  CommitsOrKeeps
  BY <1>4 DEF CreateDiary, Spoil, Write, Go, rows, CommitsOrKeeps, Inv, TypeOK
<1>5. ASSUME NEW r \in Request, RefusePhoto(r)
      PROVE  CommitsOrKeeps
  BY <1>5 DEF RefusePhoto, AtFile, Write, Go, rows, CommitsOrKeeps, Inv, TypeOK
<1>6. ASSUME NEW r \in Request, CreatePhoto(r)
      PROVE  CommitsOrKeeps
  BY <1>6 DEF CreatePhoto, AtFile, Write, Go, rows, CommitsOrKeeps, Inv, TypeOK
<1>7. ASSUME NEW r \in Request, AnswerNothingSaved(r)
      PROVE  CommitsOrKeeps
  BY <1>7 DEF AnswerNothingSaved, AtEnd, Answer, Go, rows, CommitsOrKeeps, Inv, TypeOK
<1>8. ASSUME NEW r \in Request, AnswerSaved(r)
      PROVE  CommitsOrKeeps
  <2>1. CASE Spoilt(r)
    <3>1. Spoilt(r)'
      BY <1>8, <2>1 DEF AnswerSaved, Answer, Spoilt
    <3>2. QED
      BY <1>8, <2>1, <3>1
        DEF AnswerSaved, AtEnd, Answer, Go, rows, CommitsOrKeeps, Inv, TypeOK
  <2>2. CASE ~Spoilt(r)
    BY <1>8, <2>2 DEF CommitsOrKeeps
  <2>3. QED
    BY <2>1, <2>2
<1>9. ASSUME NEW r \in Request, StoreFails(r)
      PROVE  CommitsOrKeeps
  BY <1>9 DEF StoreFails, AtFile, Write, Go, rows, CommitsOrKeeps, Inv, TypeOK
<1>10. ASSUME NEW r \in Request, FlushFails(r)
      PROVE  CommitsOrKeeps
  BY <1>10
    DEF FlushFails, Flushing, AtFile, Spoil, Write, Go, rows, CommitsOrKeeps, Inv, TypeOK
<1>11. ASSUME NEW r \in Request, CommitFails(r)
      PROVE  CommitsOrKeeps
  BY <1>11 DEF CommitFails, AtEnd, Answer, Go, rows, CommitsOrKeeps, Inv, TypeOK
<1>12. ASSUME NEW r \in Request, DeadlockVictim(r)
      PROVE  CommitsOrKeeps
  <2>1. Flushing(r) /\ Spoil(r)
    BY <1>12 DEF DeadlockVictim, WaitsFor
  <2>2. QED
    BY <2>1 DEF Flushing, AtFile, Spoil, Write, Go, rows, CommitsOrKeeps, Inv, TypeOK
<1>13. CASE UNCHANGED vars
  BY <1>13 DEF vars, rows, CommitsOrKeeps
<1>14. QED
  BY <1>1, <1>2, <1>3, <1>4, <1>5, <1>6, <1>7, <1>8, <1>9, <1>10, <1>11, <1>12,
     <1>13 DEF Next, Step

\* What the commit of an upload does to rows and logs.
LEMMA CommitShape ==
    ASSUME Inv, NEW r \in Request, AnswerSaved(r), ~Spoilt(r)
    PROVE  /\ pc[r] = "next" /\ pc'[r] = "ok" /\ log' = log /\ Results(r) # {}
           /\ \A q \in Request : q # r => pc'[q] = pc[q]
           /\ diaries' = diaries \cup Inserted(r)
           /\ photos' = photos \cup {<<r, i, log[r][i].diary>> : i \in Results(r)}
  BY DEF AnswerSaved, AtEnd, Answer, Go, Commit, Inv, TypeOK

\* Nothing is answered at first.
LEMMA AnswerTrueInit == Init => UnspoiltAnswerTrue
  BY DEF Init, UnspoiltAnswerTrue

\* At a commit the rows of the request are those of its answer; later steps leave them.
LEMMA AnswerTrueStep ==
    ASSUME Inv, UnspoiltAnswerTrue, [Next]_vars
    PROVE  UnspoiltAnswerTrue'
<1>1. ASSUME NEW r \in Request, AnswerSaved(r), ~Spoilt(r)
      PROVE  UnspoiltAnswerTrue'
  <2>1. /\ pc[r] = "next" /\ pc'[r] = "ok" /\ log' = log
        /\ \A q \in Request : q # r => pc'[q] = pc[q]
        /\ diaries' = diaries \cup Inserted(r)
        /\ photos' = photos \cup {<<r, i, log[r][i].diary>> : i \in Results(r)}
    BY <1>1, CommitShape
  <2>2. Rows(r) = {}
    BY <2>1 DEF Inv, FailureLeavesNothing
  <2>3. Rows(r)' = {<<i, log[r][i].diary>> : i \in Results(r)}
    <3>1. ASSUME NEW p \in photos', p[1] = r
          PROVE  \E i \in Results(r) : p[2] = i /\ p[3] = log[r][i].diary
      <4>1. p \notin photos
        BY <2>2, <3>1 DEF Rows
      <4>2. QED
        BY <2>1, <4>1
    <3>2. ASSUME NEW i \in Results(r)
          PROVE  \E p \in photos' : p[1] = r /\ p[2] = i /\ p[3] = log[r][i].diary
      <4>1. <<r, i, log[r][i].diary>> \in photos'
        BY <2>1
      <4>2. QED
        BY <4>1
    <3>3. QED
      BY <3>1, <3>2 DEF Rows
  <2>4. \A i \in Results(r) : log[r][i].diary \in diaries'
    BY <1>1, CommitFacts DEF AnswerSaved
  <2>5. \A q \in Request : q # r => Rows(q)' = Rows(q)
    BY <2>1 DEF Rows
  <2>6. ASSUME NEW q \in Request, q # r, pc'[q] = "ok", ~Spoilt(q)'
        PROVE  Answered(q)' \subseteq diaries' /\
               Rows(q)' = {<<i, log'[q][i].diary>> : i \in Results(q)'}
    <3>1. pc[q] = "ok" /\ ~Spoilt(q)
      BY <2>1, <2>6 DEF Spoilt
    <3>2. Answered(q) \subseteq diaries /\
          Rows(q) = {<<i, log[q][i].diary>> : i \in Results(q)}
      BY <3>1 DEF UnspoiltAnswerTrue
    <3>3. Answered(q)' = Answered(q) /\ Results(q)' = Results(q)
      BY <2>1, <2>6, <3>1 DEF Answered, Results
    <3>4. QED
      BY <2>1, <2>5, <2>6, <3>2, <3>3
  <2>7. Answered(r)' \subseteq diaries' /\
        Rows(r)' = {<<i, log'[r][i].diary>> : i \in Results(r)'}
    <3>1. Results(r)' = Results(r)
      BY <2>1 DEF Results
    <3>2. QED
      BY <2>1, <2>3, <2>4, <3>1 DEF Answered
  <2>8. QED
    BY <2>6, <2>7 DEF UnspoiltAnswerTrue
<1>2. ASSUME UNCHANGED <<diaries, photos>>,
             \A q \in Request : /\ pc[q] = "ok" => pc'[q] = "ok" /\ log'[q] = log[q]
                                /\ pc'[q] = "ok" => pc[q] = "ok" \/ Spoilt(q)'
      PROVE  UnspoiltAnswerTrue'
  <2> SUFFICES ASSUME NEW q \in Request, pc'[q] = "ok", ~Spoilt(q)'
               PROVE  Answered(q)' \subseteq diaries' /\
                      Rows(q)' = {<<i, log'[q][i].diary>> : i \in Results(q)'}
    BY DEF UnspoiltAnswerTrue
  <2>1. pc[q] = "ok" /\ log'[q] = log[q] /\ Rows(q)' = Rows(q)
    BY <1>2 DEF Rows
  <2>2. ~Spoilt(q) /\ Answered(q)' = Answered(q) /\ Results(q)' = Results(q)
    BY <2>1 DEF Spoilt, Answered, Results
  <2>3. QED
    BY <1>2, <2>1, <2>2 DEF UnspoiltAnswerTrue
<1>3. QED
  BY <1>1, <1>2, StepShape DEF CommitsOrKeeps

\* Why a diary without a photo is in the database.
EmptyFact(d) ==
    /\ Results(d[1]) # {}
    /\ \E i \in DOMAIN log[d[1]] :
          log[d[1]][i].outcome = "unwritten" /\ log[d[1]][i].diary = d

\* All diaries are old at first.
LEMMA NoEmptyInit == Init => NoEmptyDiary
  BY DEF Init, NoEmptyDiary

\* At a commit every new diary has its reason; later steps leave it.
LEMMA NoEmptyStep ==
    ASSUME Inv, NoEmptyDiary, [Next]_vars
    PROVE  NoEmptyDiary'
<1> USE DEF EmptyFact
<1>0. \A d \in diaries : d[1] = Past \/ (d[1] \in Request /\ pc[d[1]] = "ok")
  BY DEF Inv, TypeOK, DiaryId, FailureLeavesNothing
<1>1. ASSUME NEW r \in Request, AnswerSaved(r), ~Spoilt(r)
      PROVE  NoEmptyDiary'
  <2>1. /\ pc[r] = "next" /\ log' = log /\ Results(r) # {}
        /\ diaries' = diaries \cup Inserted(r)
        /\ photos' = photos \cup {<<r, i, log[r][i].diary>> : i \in Results(r)}
    BY <1>1, CommitShape
  <2>2. ASSUME NEW d \in diaries
        PROVE  d[1] = Past \/ (\E p \in photos' : p[3] = d) \/ EmptyFact(d)'
    BY <2>1 DEF NoEmptyDiary, Results
  <2>3. ASSUME NEW d \in Inserted(r)
        PROVE  (\E p \in photos' : p[3] = d) \/ EmptyFact(d)'
    <3>1. d[1] = r /\ d = <<r, d[2]>> /\ NewFact(r, d[2])
      BY <1>1, CommitFacts DEF AnswerSaved
    <3>2. PICK i \in DOMAIN log[r] :
              log[r][i].diary = d /\ log[r][i].outcome \in {"saved", "unwritten"}
      BY <1>1, <2>1, <3>1 DEF NewFact
    <3>3. CASE log[r][i].outcome = "saved"
      <4>1. <<r, i, d>> \in photos'
        BY <2>1, <3>2, <3>3 DEF Results
      <4>2. QED
        BY <4>1
    <3>4. CASE log[r][i].outcome = "unwritten"
      BY <2>1, <3>1, <3>2, <3>4 DEF Results
    <3>5. QED
      BY <3>2, <3>3, <3>4
  <2>4. QED
    BY <2>1, <2>2, <2>3 DEF NoEmptyDiary
<1>2. ASSUME UNCHANGED <<diaries, photos>>,
             \A q \in Request : pc[q] = "ok" => log'[q] = log[q]
      PROVE  NoEmptyDiary'
  <2> SUFFICES ASSUME NEW d \in diaries, d[1] # Past, ~ \E p \in photos : p[3] = d
               PROVE  EmptyFact(d)'
    BY <1>2 DEF NoEmptyDiary
  <2>1. EmptyFact(d)
    BY DEF NoEmptyDiary
  <2>2. log'[d[1]] = log[d[1]]
    BY <1>0, <1>2
  <2>3. QED
    BY <2>1, <2>2 DEF Results
<1>3. QED
  BY <1>1, <1>2, StepShape DEF CommitsOrKeeps

\* The log tells which diaries are new, and an answered request has committed them.
LEMMA HandedOverToOne == Inv => NewDiaryHandedOverOnce
<1> SUFFICES ASSUME Inv, NEW d \in diaries, NEW r \in Request
             PROVE  d \in HandedOver(r) <=>
                      /\ d[1] = r
                      /\ \E i \in DOMAIN log[r] :
                            /\ log[r][i].diary = d /\ log[r][i].outcome = "saved"
                            /\ \A j \in 1 .. i - 1 : log[r][j].diary # d
  BY DEF NewDiaryHandedOverOnce
<1>1. ASSUME NEW i \in DOMAIN log[r], log[r][i].diary = d, log[r][i].outcome = "saved"
      PROVE  log[r][i].is_new_diary <=>
                 d[1] = r /\ \A j \in 1 .. i - 1 : log[r][j].diary # d
  BY <1>1 DEF Inv, LogInv, LogFact
<1>2. d[1] = r => pc[r] = "ok"
  BY DEF Inv, FailureLeavesNothing
<1>3. QED
  BY <1>1, <1>2 DEF HandedOver, Results
-----------------------------------------------------------------------------
\* The inductive invariant, with what answers and diaries tell of the rows.
BatchInv == Inv /\ UnspoiltAnswerTrue /\ NoEmptyDiary

\* It holds always.
LEMMA BatchInvAlways == Spec => []BatchInv
<1>1. Init => BatchInv
  BY InvInit, AnswerTrueInit, NoEmptyInit DEF BatchInv
<1>2. BatchInv /\ [Next]_vars => BatchInv'
  BY InvStep, AnswerTrueStep, NoEmptyStep DEF BatchInv
<1>3. QED
  BY <1>1, <1>2, PTL DEF Spec

\* Type correctness: rows, locks, logs and the Diary objects of the sessions.
THEOREM BatchTypeCorrect == Spec => []TypeOK
<1>1. BatchInv => TypeOK
  BY DEF BatchInv, Inv
<1>2. QED
  BY <1>1, BatchInvAlways, PTL

\* A user has one live diary for each day and meal: an INSERT waits for the one before
\* it in unique_user_date_time_active and finds what that one committed.
THEOREM OneLiveDiaryAlways == Spec => []OneLiveDiaryPerMeal
<1>1. BatchInv => OneLiveDiaryPerMeal
  BY DEF BatchInv, Inv
<1>2. QED
  BY <1>1, BatchInvAlways, PTL

\* A request that was refused, has failed or lost its session, or is not over, has nothing
\* in the database, whatever it has told of its earlier files.
THEOREM FailureLeavesNothingAlways == Spec => []FailureLeavesNothing
<1>1. BatchInv => FailureLeavesNothing
  BY DEF BatchInv, Inv
<1>2. QED
  BY <1>1, BatchInvAlways, PTL

\* The answer of a request whose session was not spoilt is true: get_session has
\* committed before it goes out.
THEOREM UnspoiltAnswerTrueAlways == Spec => []UnspoiltAnswerTrue
<1>1. BatchInv => UnspoiltAnswerTrue
  BY DEF BatchInv
<1>2. QED
  BY <1>1, BatchInvAlways, PTL

\* A diary without a photo comes from a request that saved another file while the disk
\* refused the file this diary was made for, and from nothing else.
THEOREM NoEmptyDiaryAlways == Spec => []NoEmptyDiary
<1>1. BatchInv => NoEmptyDiary
  BY DEF BatchInv
<1>2. QED
  BY <1>1, BatchInvAlways, PTL

\* A new diary is handed to the background task by the request that made it, when its
\* first file was saved, and by no other.
THEOREM NewDiaryHandedOverAlways == Spec => []NewDiaryHandedOverOnce
<1>1. BatchInv => NewDiaryHandedOverOnce
  BY HandedOverToOne DEF BatchInv
<1>2. QED
  BY <1>1, BatchInvAlways, PTL
=============================================================================
