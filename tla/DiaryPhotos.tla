---------------------------- MODULE DiaryPhotos ----------------------------
(***************************************************************************)
(* The photos of one diary: the photo rows, the counter and the cover kept *)
(* beside them in the diary row, and the image files on disk, under every  *)
(* operation that touches them: uploads into the diary, POST               *)
(* /diaries/{id}/photos, PATCH, DELETE, the worker that saves an analysis, *)
(* and the deletion of the account.                                        *)
(*                                                                         *)
(* Each request is one transaction under READ COMMITTED: it reads the      *)
(* committed state and keeps what it read in its session, writes files     *)
(* that no rollback removes, and takes effect when it commits.  From its   *)
(* first write to its commit a request has the lock of the diary row, and  *)
(* nothing another one could see happens in between: both are one step     *)
(* here.  SELECT ... FOR UPDATE takes the lock before the read, so there   *)
(* the lock is a variable.  Deadlocks, errors and crashes are Abort.       *)
(*                                                                         *)
(* The id of a photo also names its file.                                  *)
(***************************************************************************)
EXTENDS FiniteSetsExt, Integers

CONSTANTS
    Request,      \* requests, each made at most once
    None,         \* no request, no photo
    MaxPhotos,    \* MAX_PHOTOS_PER_DIARY
    MaxFiles,     \* bound on the files of one request
    NumPhotos     \* bound on the photos ever saved

PhotoId == 1 .. NumPhotos

ASSUME PhotosAssumption ==
    /\ MaxPhotos \in Nat \ {0} /\ MaxFiles \in Nat \ {0} /\ NumPhotos \in Nat \ {0}
    /\ None \notin Request /\ None \notin PhotoId

VARIABLES
    row,              \* "active", "soft_deleted" (deleted_at set) or "purged"
    photos,           \* ids of the diary's photo rows
    photo_count,
    cover_photo_id,
    files,            \* ids of the photos whose files are on disk
    next_id,
    lock,             \* who has the diary row FOR UPDATE
    kind,             \* what each request is
    pc,
    session,          \* what each request has read, and how it changed it in memory
    saved,            \* photos whose files a request has written
    to_remove,        \* photos whose files go once the request has committed
    overlapped        \* history: requests other than additions and a worker overlapped

diaryRow == <<row, photos, photo_count, cover_photo_id>>
vars == <<diaryRow, files, next_id, lock, kind, pc, session, saved, to_remove, overlapped>>

Kinds == {"upload", "add", "patch", "delete", "save", "leave"}

TypeOK ==
    /\ row \in {"active", "soft_deleted", "purged"}
    /\ photos \subseteq PhotoId
    /\ photo_count \in Nat
    /\ cover_photo_id \in PhotoId \cup {None}
    /\ files \subseteq PhotoId
    /\ next_id \in 1 .. NumPhotos + 1
    /\ lock # None => lock \in Request /\ kind[lock] = "add" /\ pc[lock] = "work"
    /\ kind \in [Request -> Kinds \cup {None}]
    /\ pc \in [Request -> {"ready", "read_photos", "remove_storage", "work",
                           "remove_files", "over"}]
    /\ session \in [Request -> [photos : SUBSET PhotoId, count : Int,
                                cover : PhotoId \cup {None}]]
    /\ saved \in [Request -> SUBSET PhotoId]
    /\ to_remove \in [Request -> SUBSET PhotoId]
    /\ overlapped \in BOOLEAN

\* A diary after its first upload, before anything else happens to it.
Init ==
    /\ row = "active"
    /\ photos = {1} /\ photo_count = 1 /\ cover_photo_id = 1
    /\ files = {1} /\ next_id = 2
    /\ lock = None
    /\ kind = [r \in Request |-> None]
    /\ pc = [r \in Request |-> "ready"]
    /\ session = [r \in Request |-> [photos |-> {}, count |-> 0, cover |-> None]]
    /\ saved = [r \in Request |-> {}]
    /\ to_remove = [r \in Request |-> {}]
    /\ overlapped = FALSE
-----------------------------------------------------------------------------
Running(r) == pc[r] \in {"read_photos", "remove_storage", "work"}

\* Kinds that may overlap and still be called orderly: additions wait for each
\* other at FOR UPDATE, and a worker writes nothing an addition reads.
Orderly(k, l) == k \in {"add", "save"} /\ l \in {"add", "save"}

\* A request starts and reads the diary row.
Begin(r, k, step) ==
    /\ pc[r] = "ready"
    /\ kind' = [kind EXCEPT ![r] = k]
    /\ pc' = [pc EXCEPT ![r] = step]
    /\ session' = [session EXCEPT ![r].count = photo_count, ![r].cover = cover_photo_id]
    /\ overlapped' = (overlapped \/ \E q \in Request : Running(q) /\ ~Orderly(kind[q], k))
    /\ UNCHANGED <<diaryRow, files, next_id, saved, to_remove>>

\* An UPDATE of the diary row waits for its lock.
RowFree(r) == lock \in {None, r}

\* Faulty: the transaction stays open.
End_KeepsLock(r, step) ==
    /\ pc' = [pc EXCEPT ![r] = step]
    /\ UNCHANGED <<lock, kind, saved, session, next_id, overlapped>>

\* The end of a request: its transaction is over and so is its row lock.
End(r, step) ==
    /\ pc' = [pc EXCEPT ![r] = step]
    /\ lock' = IF lock = r THEN None ELSE lock
    /\ UNCHANGED <<kind, saved, session, next_id, overlapped>>

\* save_user_photo writes the files of n photos, before their rows exist.
SaveFiles(r, n) ==
    LET new == next_id .. next_id + n - 1
    IN  /\ new \subseteq PhotoId
        /\ files' = files \cup new
        /\ saved' = [saved EXCEPT ![r] = @ \cup new]
        /\ next_id' = next_id + n
-----------------------------------------------------------------------------
\* POST /photos/batch-upload, files that fall into this diary.  The session
\* gives every file the same Diary object: after the first read, the counter
\* and the cover are those in memory.

BeginUpload(r) == row = "active" /\ Begin(r, "upload", "work") /\ UNCHANGED lock

\* Faulty: one photo too many.
RoomForOne_OffByOne(r) == session[r].count <= MaxPhotos

RoomForOne(r) == session[r].count < MaxPhotos

\* _process_single_photo for one file.  A file that does not fit is skipped: no
\* step.
ProcessSinglePhoto(r) ==
    /\ kind[r] = "upload" /\ pc[r] = "work" /\ RoomForOne(r)
    /\ Cardinality(saved[r]) < MaxFiles
    /\ SaveFiles(r, 1)
    /\ session' = [session EXCEPT ![r].count = @ + 1,
                                  ![r].cover = IF @ = None THEN next_id ELSE @]
    /\ UNCHANGED <<diaryRow, lock, kind, pc, to_remove, overlapped>>

\* The rows are inserted and photo_count is set to the value in memory; the
\* cover is set only by the upload that found none.
CommitUpload(r) ==
    /\ kind[r] = "upload" /\ pc[r] = "work" /\ saved[r] # {}
    /\ RowFree(r) /\ row # "purged"
    /\ photos' = photos \cup saved[r]
    /\ photo_count' = session[r].count
    /\ cover_photo_id' = IF session[r].cover \in saved[r] THEN session[r].cover
                                                          ELSE cover_photo_id
    /\ UNCHANGED <<row, files, to_remove>>
    /\ End(r, "over")
-----------------------------------------------------------------------------
\* POST /diaries/{id}/photos: get_diary_for_update holds the row to the end.

\* Faulty: the diary is read without FOR UPDATE.
BeginAdd_NoLock(r) == row = "active" /\ Begin(r, "add", "work") /\ UNCHANGED lock

BeginAdd(r) ==
    /\ row = "active" /\ lock = None
    /\ Begin(r, "add", "work")
    /\ lock' = r

\* The limit is checked, then all files are written together.
AddDiaryPhotos(r, n) ==
    /\ kind[r] = "add" /\ pc[r] = "work" /\ saved[r] = {}
    /\ session[r].count + n <= MaxPhotos
    /\ SaveFiles(r, n)
    /\ UNCHANGED <<diaryRow, lock, kind, pc, session, to_remove, overlapped>>

CommitAdd(r) ==
    /\ kind[r] = "add" /\ pc[r] = "work" /\ saved[r] # {}
    /\ RowFree(r) /\ row # "purged"
    /\ photos' = photos \cup saved[r]
    /\ photo_count' = session[r].count + Cardinality(saved[r])
    /\ UNCHANGED <<row, cover_photo_id, files, to_remove>>
    /\ End(r, "over")
-----------------------------------------------------------------------------
\* PATCH and DELETE load the diary without a lock, and its photos with a SELECT
\* of their own.

BeginEdit(r, k) ==
    /\ k \in {"patch", "delete"} /\ row = "active"
    /\ Begin(r, k, "read_photos")
    /\ UNCHANGED lock

ReadPhotos(r) ==
    /\ pc[r] = "read_photos"
    /\ session' = [session EXCEPT ![r].photos = photos]
    /\ pc' = [pc EXCEPT ![r] = "work"]
    /\ UNCHANGED <<diaryRow, files, next_id, lock, kind, saved, to_remove, overlapped>>

\* Rows go, and ON DELETE SET NULL takes a cover that goes with them.
DeletePhotos(ids) ==
    /\ photos' = photos \ ids
    /\ cover_photo_id' = IF cover_photo_id \in ids THEN None ELSE cover_photo_id

\* Faulty: the cover the body asks for is not compared with its list.
Cover_Unchecked(r, keep, sent) == IF sent = None THEN {session[r].cover} ELSE {sent}

\* The covers a PATCH that keeps these photos may end with: the one of the body,
\* or else the one read, if it is kept; the first photo of the list, if not.
Cover(r, keep, sent) ==
    LET wanted == {IF sent = None THEN session[r].cover ELSE sent}
    IN  IF wanted \subseteq keep THEN wanted ELSE keep

\* update_diary.  The body lists n of the photos read, the set keep of them: a
\* list may name a photo more than once.  Counter and cover are written only
\* where they differ from what was read, and a cover that is written must be a
\* photo.  A response with a counter over the limit fails its schema.
UpdateDiary(r, keep, n, sent) ==
    LET gone == session[r].photos \ keep
    IN  /\ kind[r] = "patch" /\ pc[r] = "work"
        /\ keep \subseteq session[r].photos /\ keep # {}
        /\ Cardinality(keep) <= n /\ n <= MaxPhotos
        /\ RowFree(r) /\ row # "purged"
        /\ \E cover \in Cover(r, keep, sent) :
              IF cover = session[r].cover THEN DeletePhotos(gone)
              ELSE /\ cover \in photos
                   /\ photos' = photos \ gone
                   /\ cover_photo_id' = cover
        /\ photo_count' = IF n = session[r].count THEN photo_count ELSE n
        /\ to_remove' = [to_remove EXCEPT ![r] = gone]
        /\ UNCHANGED <<row, files>>
        /\ End(r, "remove_files")

\* delete_diary: the rows of the photos go, the row of the diary stays.
DeleteDiary(r) ==
    /\ kind[r] = "delete" /\ pc[r] = "work"
    /\ RowFree(r) /\ row # "purged"
    /\ DeletePhotos(session[r].photos)
    /\ row' = "soft_deleted"
    /\ to_remove' = [to_remove EXCEPT ![r] = session[r].photos]
    /\ UNCHANGED <<photo_count, files>>
    /\ End(r, "remove_files")

\* The task the after_commit hook starts: delete_photo_files.
RemoveFiles(r) ==
    /\ pc[r] = "remove_files"
    /\ files' = files \ to_remove[r]
    /\ pc' = [pc EXCEPT ![r] = "over"]
    /\ UNCHANGED <<diaryRow, next_id, lock, kind, session, saved, to_remove, overlapped>>
-----------------------------------------------------------------------------
\* The worker of AnalysisPipeline at its save.

BeginSave(r) == row # "purged" /\ Begin(r, "save", "work") /\ UNCHANGED lock

\* apply_top_restaurant makes the diary's first photo its cover, also in place
\* of one the user chose.
SaveAnalysisResult(r) ==
    /\ kind[r] = "save" /\ pc[r] = "work"
    /\ RowFree(r) /\ row # "purged"
    /\ cover_photo_id' = IF photos = {} \/ Min(photos) = session[r].cover
                         THEN cover_photo_id ELSE Min(photos)
    /\ UNCHANGED <<row, photos, photo_count, files, to_remove>>
    /\ End(r, "over")
-----------------------------------------------------------------------------
\* DELETE /users/me.

BeginLeave(r) == row # "purged" /\ Begin(r, "leave", "remove_storage") /\ UNCHANGED lock

\* Faulty: only the files with a photo row are removed.
DeleteUserStorage_OfPhotos(r) ==
    /\ pc[r] = "remove_storage"
    /\ files' = files \ photos
    /\ pc' = [pc EXCEPT ![r] = "work"]
    /\ UNCHANGED <<diaryRow, next_id, lock, kind, session, saved, to_remove, overlapped>>

\* delete_user_storage: the user's directory is removed, before any row is.
DeleteUserStorage(r) ==
    /\ pc[r] = "remove_storage"
    /\ files' = {}
    /\ pc' = [pc EXCEPT ![r] = "work"]
    /\ UNCHANGED <<diaryRow, next_id, lock, kind, session, saved, to_remove, overlapped>>

\* The user row goes; its diaries and their photos go with it.
DeleteUser(r) ==
    /\ kind[r] = "leave" /\ pc[r] = "work"
    /\ RowFree(r)
    /\ row' = "purged" /\ photos' = {} /\ cover_photo_id' = None
    /\ UNCHANGED <<photo_count, files, to_remove>>
    /\ End(r, "over")
-----------------------------------------------------------------------------
\* Faulty: the files of an edit are removed although it is rolled back.
Abort_RemovesFiles(r) ==
    /\ Running(r)
    /\ files' = files \ session[r].photos
    /\ UNCHANGED <<diaryRow, to_remove>>
    /\ End(r, "over")

\* A request fails and is rolled back, or has nothing to commit: a check that
\* refuses it, a vanished row, a broken constraint, a deadlock, a crash.  Files
\* it has written, or removed, stay so.
Abort(r) ==
    /\ Running(r)
    /\ UNCHANGED <<diaryRow, files, to_remove>>
    /\ End(r, "over")

Next == \E r \in Request :
    \/ BeginUpload(r) \/ ProcessSinglePhoto(r) \/ CommitUpload(r)
    \/ BeginAdd(r) \/ CommitAdd(r)
    \/ \E n \in 1 .. MaxFiles : AddDiaryPhotos(r, n)
    \/ \E k \in {"patch", "delete"} : BeginEdit(r, k)
    \/ ReadPhotos(r) \/ DeleteDiary(r) \/ RemoveFiles(r)
    \/ \E keep \in SUBSET session[r].photos : \E n \in 1 .. MaxPhotos :
          \E sent \in session[r].photos \cup {None} : UpdateDiary(r, keep, n, sent)
    \/ BeginSave(r) \/ SaveAnalysisResult(r)
    \/ BeginLeave(r) \/ DeleteUserStorage(r) \/ DeleteUser(r)
    \/ Abort(r)

Spec == Init /\ [][Next]_vars
-----------------------------------------------------------------------------
\* Properties.

\* Every photo row has its file, whatever overlaps and whatever is rolled back:
\* files are written before rows and removed after them.  Only the deletion of
\* an account removes files first.
RowHasFile == (\A r \in Request : kind[r] # "leave") => photos \subseteq files

\* The counter always fits the schema of every response that carries it (0 to
\* 10), even where overlapping requests leave it wrong.
PhotoCountReadable == photo_count \in 0 .. MaxPhotos

\* Of requests made one after the other, additions and workers excepted, none
\* makes the counter smaller than the number of photos: the limit then holds.
CountCoversPhotos == ~overlapped => Cardinality(photos) <= photo_count

\* Such requests always leave a diary with one of its own photos for a cover.
CoverIsAPhoto == ~overlapped /\ row = "active" => cover_photo_id \in photos

\* Such requests leave no file of a deleted account, those of failed additions
\* included.
NothingLeftBehind == ~overlapped /\ row = "purged" => files = {}

\* "At most 10 photos can be uploaded per diary."
PhotoLimit == Cardinality(photos) <= MaxPhotos
=============================================================================
