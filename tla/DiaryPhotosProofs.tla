-------------------------- MODULE DiaryPhotosProofs --------------------------
(***************************************************************************)
(* Proofs about DiaryPhotos, for any requests, limits and numbers of       *)
(* photos, whatever overlaps:                                              *)
(*                                                                         *)
(*   - Inv: types, the stages of a request, and the counters, which need   *)
(*     the row lock of the additions;                                      *)
(*   - IdInv: the photos of a request that has not committed are nobody    *)
(*     else's, so that their files are removed by nobody;                  *)
(*   - SerialInv: what a request has read is still so at its commit, as    *)
(*     long as no others than additions and saves have overlapped.         *)
(***************************************************************************)
EXTENDS DiaryPhotos, FiniteSetTheorems, WellFoundedInduction, TLAPS

\* A request that has read what it needs and has not committed its photos.
Uncommitted(r) == kind[r] \in {"upload", "add"} /\ pc[r] = "work"

\* What TypeOK says of a session.
SessionType == [photos : SUBSET PhotoId, count : Int, cover : PhotoId \cup {None}]

\* Which requests come to which steps; an addition under way has the row.
StageInv ==
    \A r \in Request :
        /\ pc[r] = "ready" => saved[r] = {} /\ to_remove[r] = {}
        /\ pc[r] = "read_photos" => kind[r] \in {"patch", "delete"}
        /\ pc[r] = "remove_storage" => kind[r] = "leave"
        /\ kind[r] = "add" /\ pc[r] = "work" => lock = r

\* The counter, the ones in memory, and what an addition makes of it.
CountInv ==
    /\ photo_count \in 0 .. MaxPhotos
    /\ \A r \in Request :
          /\ session[r].count \in 0 .. MaxPhotos
          /\ kind[r] = "add" /\ pc[r] = "work" =>
                session[r].count + Cardinality(saved[r]) <= MaxPhotos

\* Types, stages and counters.
Inv == TypeOK /\ StageInv /\ CountInv

\* Sets of photos are finite; n files in a row are n photos.
LEMMA PhotosFinite ==
    ASSUME NEW ids \in SUBSET PhotoId
    PROVE  IsFiniteSet(ids) /\ Cardinality(ids) \in Nat
<1>1. IsFiniteSet(PhotoId)
  BY PhotosAssumption, FS_Interval DEF PhotoId
<1>2. IsFiniteSet(ids)
  BY <1>1, FS_Subset
<1>3. QED
  BY <1>2, FS_CardinalityType

\* The first photo of a diary that has any is one of them.
LEMMA MinIsPhoto ==
    ASSUME NEW ids \in SUBSET PhotoId, ids # {}
    PROVE  Min(ids) \in ids
<1> DEFINE R == OpToRel(<, Nat)
<1>1. ids \in SUBSET Nat
  BY PhotosAssumption DEF PhotoId
<1>2. ASSUME NEW i \in Nat, NEW j \in Nat, j < i
      PROVE  <<j, i>> \in R
  BY <1>2 DEF OpToRel
<1>3. IsWellFoundedOn(R, Nat)
  BY NatLessThanWellFounded
<1> HIDE DEF R
<1>4. PICK i \in ids : \A j \in ids : ~ (<<j, i>> \in R)
  BY <1>1, <1>3, WFMin
<1>5. ASSUME NEW j \in ids PROVE i <= j
  <2>1. i \in Nat /\ j \in Nat
    BY <1>1
  <2>2. ~ (<<j, i>> \in R)
    BY <1>4
  <2>3. ~ (j < i)
    BY <2>1, <2>2, <1>2
  <2>4. QED
    BY <2>1, <2>3
<1>6. QED
  BY <1>5 DEF Min

\* A new diary is well typed.
LEMMA InitType == Init => TypeOK
<1> SUFFICES ASSUME Init PROVE TypeOK
  OBVIOUS
<1> USE PhotosAssumption
<1>1. /\ photos \subseteq PhotoId
      /\ cover_photo_id \in PhotoId \cup {None}
      /\ files \subseteq PhotoId
      /\ next_id \in 1 .. NumPhotos + 1
  BY DEF PhotoId, Init
<1>2. /\ pc \in [Request -> {"ready", "read_photos", "remove_storage", "work",
                             "remove_files", "over"}]
      /\ kind \in [Request -> Kinds \cup {None}]
  BY DEF Kinds, Init
<1>3. session \in [Request -> [photos : SUBSET PhotoId, count : Int,
                                cover : PhotoId \cup {None}]]
  BY DEF Init
<1>4. /\ row \in {"active", "soft_deleted", "purged"}
      /\ photo_count \in Nat
      /\ lock # None => lock \in Request /\ kind[lock] = "add" /\ pc[lock] = "work"
      /\ saved \in [Request -> SUBSET PhotoId]
      /\ to_remove \in [Request -> SUBSET PhotoId]
      /\ overlapped \in BOOLEAN
  BY DEF Init
<1>5. QED
  BY <1>1, <1>2, <1>3, <1>4, Zenon DEF TypeOK

\* What Begin(r, k, step) changes, in a form the provers take.
Begun(r, k, step) ==
    /\ session' \in [Request -> SessionType]
    /\ session'[r].photos = session[r].photos
    /\ session'[r].count = photo_count
    /\ session'[r].cover = cover_photo_id
    /\ kind'[r] = k /\ pc'[r] = step /\ pc[r] = "ready"
    /\ \A q \in Request : q # r =>
         session'[q] = session[q] /\ kind'[q] = kind[q] /\ pc'[q] = pc[q]
    /\ UNCHANGED <<row, photos, photo_count, cover_photo_id, files, next_id,
                   saved, to_remove>>
    /\ kind' \in [Request -> Kinds \cup {None}]
    /\ pc' \in [Request -> {"ready", "read_photos", "remove_storage", "work",
                            "remove_files", "over"}]
    /\ overlapped' = (overlapped \/ \E q \in Request :
                                       Running(q) /\ ~Orderly(kind[q], k))

\* Begin does that.
LEMMA BeginFacts ==
    ASSUME TypeOK, NEW r \in Request, NEW k \in Kinds,
           NEW step \in {"read_photos", "remove_storage", "work"}, Begin(r, k, step)
    PROVE  Begun(r, k, step)
<1> DEFINE s == [session[r] EXCEPT !.count = photo_count, !.cover = cover_photo_id]
<1>1. session' = [session EXCEPT ![r] = s]
  BY DEF Begin, TypeOK
<1>2. s \in SessionType
  <2>1. /\ session[r] \in SessionType
        /\ photo_count \in Int /\ cover_photo_id \in PhotoId \cup {None}
    BY DEF TypeOK, SessionType
  <2>2. QED
    BY <2>1 DEF SessionType
<1>3. s.photos = session[r].photos /\ s.count = photo_count /\ s.cover = cover_photo_id
  BY DEF TypeOK
<1> HIDE DEF s
<1>4. session \in [Request -> SessionType]
  BY DEF TypeOK, SessionType
<1>5. /\ session' \in [Request -> SessionType]
      /\ session'[r].photos = session[r].photos
      /\ session'[r].count = photo_count
      /\ session'[r].cover = cover_photo_id
      /\ \A q \in Request : q # r => session'[q] = session[q]
  BY <1>1, <1>2, <1>3, <1>4
<1>6. /\ kind' = [kind EXCEPT ![r] = k]
      /\ pc' = [pc EXCEPT ![r] = step]
      /\ pc[r] = "ready"
      /\ UNCHANGED <<row, photos, photo_count, cover_photo_id, files, next_id,
                     saved, to_remove>>
      /\ overlapped' = (overlapped \/ \E q \in Request :
                                       Running(q) /\ ~Orderly(kind[q], k))
  BY DEF Begin, diaryRow
<1>7. /\ kind' \in [Request -> Kinds \cup {None}]
      /\ pc' \in [Request -> {"ready", "read_photos", "remove_storage", "work",
                              "remove_files", "over"}]
      /\ kind'[r] = k /\ pc'[r] = step
      /\ \A q \in Request : q # r => kind'[q] = kind[q] /\ pc'[q] = pc[q]
  BY <1>6 DEF TypeOK
<1>8. QED
  BY <1>5, <1>6, <1>7 DEF Begun

\* A request that begins keeps Inv, an addition because nobody else has the row.
LEMMA BeginInv ==
    ASSUME Inv, NEW r \in Request, NEW k \in Kinds,
           NEW step \in {"read_photos", "remove_storage", "work"}, Begin(r, k, step),
           step = "read_photos" => k \in {"patch", "delete"},
           step = "remove_storage" => k = "leave",
           IF k = "add" THEN lock = None /\ step = "work" /\ lock' = r ELSE lock' = lock
    PROVE  Inv'
<1>1. Begun(r, k, step)
  BY BeginFacts DEF Inv
<1>2. TypeOK'
  BY <1>1 DEF Inv, TypeOK, SessionType, Begun
<1>3. StageInv'
  BY <1>1, PhotosAssumption DEF Inv, TypeOK, StageInv, Begun
<1>4. CountInv'
  <2>1. photo_count' \in 0 .. MaxPhotos
    BY <1>1 DEF Inv, CountInv, Begun
  <2>2. /\ session'[r].count \in 0 .. MaxPhotos
        /\ session'[r].count + Cardinality(saved'[r]) <= MaxPhotos
    <3>1. saved'[r] = {}
      BY <1>1 DEF Inv, StageInv, Begun
    <3>2. QED
      BY <1>1, <3>1, FS_EmptySet, PhotosAssumption DEF Inv, CountInv, Begun
  <2>3. ASSUME NEW q \in Request, q # r
        PROVE  /\ session'[q].count \in 0 .. MaxPhotos
               /\ kind'[q] = "add" /\ pc'[q] = "work" =>
                     session'[q].count + Cardinality(saved'[q]) <= MaxPhotos
    BY <1>1, <2>3 DEF Inv, CountInv, Begun
  <2>4. QED
    BY <2>1, <2>2, <2>3 DEF CountInv
<1>5. QED
  BY <1>2, <1>3, <1>4 DEF Inv

\* What SaveFiles changes when the new ids are this set.
FilesSaved(r, new) ==
    /\ new \subseteq PhotoId /\ new # {}
    /\ \A i \in new : next_id <= i /\ i < next_id'
    /\ next_id' \in 1 .. NumPhotos + 1 /\ next_id < next_id'
    /\ files' = files \cup new
    /\ saved' \in [Request -> SUBSET PhotoId]
    /\ saved'[r] = saved[r] \cup new
    /\ \A q \in Request : q # r => saved'[q] = saved[q]

\* SaveFiles does that, with n new ids.
LEMMA SaveFilesFacts ==
    ASSUME TypeOK, NEW r \in Request, NEW n \in Nat \ {0}, SaveFiles(r, n)
    PROVE  /\ FilesSaved(r, next_id .. next_id + n - 1)
           /\ Cardinality(next_id .. next_id + n - 1) = n
           /\ IsFiniteSet(next_id .. next_id + n - 1)
<1> DEFINE new == next_id .. next_id + n - 1
<1>1. next_id \in Nat \ {0} /\ next_id <= NumPhotos + 1
  BY PhotosAssumption DEF TypeOK
<1>2. new \subseteq PhotoId /\ next_id' = next_id + n /\ files' = files \cup new
  BY DEF SaveFiles
<1>3. next_id \in new /\ next_id + n - 1 \in new /\ \A i \in new : next_id <= i /\ i < next_id'
  BY <1>1, <1>2
<1>4. next_id' \in 1 .. NumPhotos + 1 /\ next_id < next_id'
  BY <1>1, <1>2, <1>3, PhotosAssumption DEF PhotoId
<1>5. saved' = [saved EXCEPT ![r] = saved[r] \cup new]
  BY DEF SaveFiles, TypeOK
<1>6. IsFiniteSet(new) /\ Cardinality(new) = n
  BY <1>1, FS_Interval
<1> HIDE DEF new
<1>7. FilesSaved(r, new)
  BY <1>2, <1>3, <1>4, <1>5 DEF TypeOK, FilesSaved
<1>8. QED
  BY <1>6, <1>7 DEF new

\* What one file of an upload changes.
LEMMA ProcessFacts ==
    ASSUME TypeOK, NEW r \in Request, ProcessSinglePhoto(r)
    PROVE  /\ session' \in [Request -> SessionType]
           /\ session'[r].photos = session[r].photos
           /\ session'[r].count = session[r].count + 1
           /\ session'[r].cover = IF session[r].cover = None THEN next_id ELSE session[r].cover
           /\ \A q \in Request : q # r => session'[q] = session[q]
           /\ FilesSaved(r, {next_id})
<1> DEFINE s == [session[r] EXCEPT !.count = session[r].count + 1,
                     !.cover = IF session[r].cover = None THEN next_id ELSE session[r].cover]
<1>1. session' = [session EXCEPT ![r] = s]
  BY DEF ProcessSinglePhoto, TypeOK
<1>2. FilesSaved(r, next_id .. next_id + 1 - 1)
  BY SaveFilesFacts DEF ProcessSinglePhoto
<1>3. next_id .. next_id + 1 - 1 = {next_id} /\ next_id \in Nat
  BY PhotosAssumption DEF TypeOK
<1>4. FilesSaved(r, {next_id})
  BY <1>2, <1>3
<1>5. next_id \in PhotoId
  BY <1>4 DEF FilesSaved
<1>6. session[r] \in SessionType
  BY DEF TypeOK, SessionType
<1>7. s \in SessionType
  <2>1. /\ session[r].count + 1 \in Int
        /\ (IF session[r].cover = None THEN next_id ELSE session[r].cover)
               \in PhotoId \cup {None}
    BY <1>5, <1>6 DEF SessionType
  <2>2. QED
    BY <1>6, <2>1 DEF SessionType
<1>8. /\ s.photos = session[r].photos /\ s.count = session[r].count + 1
      /\ s.cover = IF session[r].cover = None THEN next_id ELSE session[r].cover
  BY <1>6 DEF SessionType
<1> HIDE DEF s
<1>9. session \in [Request -> SessionType]
  BY DEF TypeOK, SessionType
<1>10. QED
  BY <1>1, <1>4, <1>7, <1>8, <1>9

\* Types, stages and counters hold of a new diary, and every step keeps them.
LEMMA InvInit == Init => Inv
<1> SUFFICES ASSUME Init PROVE Inv
  OBVIOUS
<1>1. TypeOK
  BY InitType
<1>2. StageInv
  BY PhotosAssumption DEF Init, StageInv
<1>3. CountInv
  BY PhotosAssumption DEF Init, CountInv
<1>4. QED
  BY <1>1, <1>2, <1>3 DEF Inv

LEMMA InvStep == Inv /\ [Next]_vars => Inv'
<1> SUFFICES ASSUME Inv, [Next]_vars
             PROVE  Inv'
  OBVIOUS
<1> USE PhotosAssumption DEF Inv, diaryRow
<1>1. ASSUME NEW r \in Request, BeginUpload(r)
      PROVE  Inv'
  BY <1>1, BeginInv DEF BeginUpload, Kinds
<1>2. ASSUME NEW r \in Request, ProcessSinglePhoto(r)
      PROVE  Inv'
  <2> DEFINE new == {next_id}
  <2>1. FilesSaved(r, new)
    BY <1>2, ProcessFacts
  <2> HIDE DEF new
  <2>2. TypeOK'
    BY <1>2, <2>1, ProcessFacts
      DEF ProcessSinglePhoto, FilesSaved, TypeOK, SessionType
  <2>3. StageInv'
    BY <1>2, <2>1 DEF ProcessSinglePhoto, FilesSaved, TypeOK, StageInv
  <2>4. session'[r].count = session[r].count + 1 /\ session[r].count < MaxPhotos
    BY <1>2, ProcessFacts DEF ProcessSinglePhoto, RoomForOne
  <2>5. \A q \in Request : q # r => session'[q] = session[q] /\ saved'[q] = saved[q]
    BY <1>2, <2>1, ProcessFacts DEF FilesSaved
  <2>6. session'[r].count \in 0 .. MaxPhotos
    BY <2>4 DEF CountInv
  <2>7. UNCHANGED <<kind, pc, photo_count>> /\ kind[r] # "add"
    BY <1>2 DEF ProcessSinglePhoto
  <2>8. CountInv'
    BY <2>5, <2>6, <2>7 DEF CountInv
  <2>9. QED
    BY <2>2, <2>3, <2>8
<1>3. ASSUME NEW r \in Request, CommitUpload(r)
      PROVE  Inv'
  <2>1. TypeOK'
    <3>1. photos' \subseteq PhotoId
      BY <1>3 DEF CommitUpload, TypeOK
    <3>2. photo_count' \in Nat
      BY <1>3 DEF CommitUpload, CountInv
    <3>3. cover_photo_id' \in PhotoId \cup {None}
      BY <1>3 DEF CommitUpload, TypeOK
    <3>4. QED
      BY <1>3, <3>1, <3>2, <3>3 DEF CommitUpload, End, TypeOK
  <2>2. StageInv'
    BY <1>3 DEF CommitUpload, End, TypeOK, StageInv
  <2>3. CountInv'
    BY <1>3 DEF CommitUpload, End, TypeOK, CountInv
  <2>4. QED
    BY <2>1, <2>2, <2>3
<1>4. ASSUME NEW r \in Request, BeginAdd(r)
      PROVE  Inv'
  BY <1>4, BeginInv DEF BeginAdd, Kinds
<1>5. ASSUME NEW r \in Request, NEW n \in 1 .. MaxFiles, AddDiaryPhotos(r, n)
      PROVE  Inv'
  <2> DEFINE new == next_id .. next_id + n - 1
  <2>1. FilesSaved(r, new) /\ Cardinality(new) = n
    BY <1>5, SaveFilesFacts DEF AddDiaryPhotos
  <2> HIDE DEF new
  <2>2. TypeOK'
    BY <1>5, <2>1 DEF AddDiaryPhotos, FilesSaved, TypeOK
  <2>3. StageInv'
    BY <1>5, <2>1 DEF AddDiaryPhotos, FilesSaved, TypeOK, StageInv
  <2>4. Cardinality(saved'[r]) = n /\ session[r].count + n <= MaxPhotos
    BY <1>5, <2>1 DEF AddDiaryPhotos, FilesSaved
  <2>5. \A q \in Request : q # r => saved'[q] = saved[q]
    BY <2>1 DEF FilesSaved
  <2>6. CountInv'
    BY <1>5, <2>4, <2>5 DEF AddDiaryPhotos, CountInv
  <2>7. QED
    BY <2>2, <2>3, <2>6
<1>6. ASSUME NEW r \in Request, CommitAdd(r)
      PROVE  Inv'
  <2>1. photo_count' = session[r].count + Cardinality(saved[r]) /\ photo_count' <= MaxPhotos
    BY <1>6 DEF CommitAdd, CountInv
  <2>2. Cardinality(saved[r]) \in Nat /\ session[r].count \in Nat
    BY PhotosFinite DEF TypeOK, CountInv
  <2>3. photo_count' \in 0 .. MaxPhotos
    BY <2>1, <2>2
  <2>4. TypeOK'
    <3>1. photos' \subseteq PhotoId
      BY <1>6 DEF CommitAdd, TypeOK
    <3>2. QED
      BY <1>6, <2>3, <3>1 DEF CommitAdd, End, TypeOK
  <2>5. StageInv'
    BY <1>6 DEF CommitAdd, End, TypeOK, StageInv
  <2>6. CountInv'
    BY <1>6, <2>3 DEF CommitAdd, End, TypeOK, CountInv
  <2>7. QED
    BY <2>4, <2>5, <2>6
<1>7. ASSUME NEW r \in Request, NEW k \in {"patch", "delete"}, BeginEdit(r, k)
      PROVE  Inv'
  BY <1>7, BeginInv DEF BeginEdit, Kinds
<1>8. ASSUME NEW r \in Request, ReadPhotos(r)
      PROVE  Inv'
  BY <1>8 DEF ReadPhotos,
          TypeOK, StageInv, CountInv, PhotoId, Kinds
<1>9. ASSUME NEW r \in Request,
             NEW keep \in SUBSET session[r].photos, NEW n \in 1 .. MaxPhotos,
             NEW sent \in session[r].photos \cup {None},
             UpdateDiary(r, keep, n, sent)
      PROVE  Inv'
  <2>1. cover_photo_id' \in PhotoId \cup {None} /\ photos' \subseteq PhotoId
    BY <1>9 DEF UpdateDiary, DeletePhotos, TypeOK
  <2>2. photo_count' \in 0 .. MaxPhotos
    BY <1>9 DEF UpdateDiary, CountInv
  <2>3. session[r].photos \in SUBSET PhotoId
    BY DEF TypeOK
  <2>4. TypeOK'
    BY <1>9, <2>1, <2>2, <2>3 DEF UpdateDiary, End, TypeOK
  <2>5. StageInv'
    BY <1>9 DEF UpdateDiary, End, TypeOK, StageInv
  <2>6. CountInv'
    BY <1>9, <2>2 DEF UpdateDiary, End, TypeOK, CountInv
  <2>7. QED
    BY <2>4, <2>5, <2>6
<1>10. ASSUME NEW r \in Request, DeleteDiary(r)
      PROVE  Inv'
  BY <1>10 DEF DeleteDiary, DeletePhotos, End,
          TypeOK, StageInv, CountInv, PhotoId, Kinds
<1>11. ASSUME NEW r \in Request, RemoveFiles(r)
      PROVE  Inv'
  BY <1>11 DEF RemoveFiles,
          TypeOK, StageInv, CountInv, PhotoId, Kinds
<1>12. ASSUME NEW r \in Request, BeginSave(r)
      PROVE  Inv'
  BY <1>12, BeginInv DEF BeginSave, Kinds
<1>13. ASSUME NEW r \in Request, SaveAnalysisResult(r)
      PROVE  Inv'
  <2>1. cover_photo_id' \in PhotoId \cup {None}
    BY <1>13, MinIsPhoto DEF SaveAnalysisResult, TypeOK
  <2>2. TypeOK'
    BY <1>13, <2>1 DEF SaveAnalysisResult, End, TypeOK
  <2>3. StageInv'
    BY <1>13 DEF SaveAnalysisResult, End, TypeOK, StageInv
  <2>4. CountInv'
    BY <1>13 DEF SaveAnalysisResult, End, TypeOK, CountInv
  <2>5. QED
    BY <2>2, <2>3, <2>4
<1>14. ASSUME NEW r \in Request, BeginLeave(r)
      PROVE  Inv'
  BY <1>14, BeginInv DEF BeginLeave, Kinds
<1>15. ASSUME NEW r \in Request, DeleteUserStorage(r)
      PROVE  Inv'
  BY <1>15 DEF DeleteUserStorage,
          TypeOK, StageInv, CountInv, PhotoId, Kinds
<1>16. ASSUME NEW r \in Request, DeleteUser(r)
      PROVE  Inv'
  BY <1>16 DEF DeleteUser, End,
          TypeOK, StageInv, CountInv, PhotoId, Kinds
<1>17. ASSUME NEW r \in Request, Abort(r)
      PROVE  Inv'
  BY <1>17 DEF Abort, End, Running,
          TypeOK, StageInv, CountInv, PhotoId, Kinds
<1>18. CASE UNCHANGED vars
  BY <1>18 DEF vars, diaryRow,
          TypeOK, StageInv, CountInv, PhotoId, Kinds
<1>19. QED
  BY <1>1, <1>2, <1>3, <1>4, <1>5, <1>6, <1>7, <1>8, <1>9, <1>10, <1>11, <1>12,
     <1>13, <1>14, <1>15, <1>16, <1>17, <1>18 DEF Next

\* What an insert does to the number of photos.
LEMMA PhotosAdded ==
    ASSUME NEW A \in SUBSET PhotoId, NEW B \in SUBSET PhotoId
    PROVE  Cardinality(A \cup B) <= Cardinality(A) + Cardinality(B)
<1>1. IsFiniteSet(A) /\ IsFiniteSet(B)
  BY PhotosFinite
<1>2. Cardinality(A \cup B) = Cardinality(A) + Cardinality(B) - Cardinality(A \cap B)
  BY <1>1, FS_Union
<1>3. A \cap B \in SUBSET PhotoId
  OBVIOUS
<1>4. Cardinality(A) \in Nat /\ Cardinality(B) \in Nat /\ Cardinality(A \cap B) \in Nat
  BY <1>3, PhotosFinite
<1>5. QED
  BY <1>2, <1>4
-----------------------------------------------------------------------------
\* Ids that were given out.
Old(ids) == \A i \in ids : i < next_id

\* Only ids that were given out are in use.
OldInv ==
    /\ Old(photos) /\ (cover_photo_id # None => cover_photo_id < next_id)
    /\ \A r \in Request :
          /\ Old(saved[r]) /\ Old(session[r].photos) /\ Old(to_remove[r])
          /\ session[r].cover # None => session[r].cover < next_id

\* Photos that wait for their commit are known to nobody else.
FreshInv ==
    \A r \in Request : Uncommitted(r) =>
        /\ saved[r] \cap photos = {}
        /\ \A q \in Request :
              /\ saved[r] \cap session[q].photos = {}
              /\ saved[r] \cap to_remove[q] = {}
              /\ Uncommitted(q) /\ q # r => saved[r] \cap saved[q] = {}

\* Files go only where the row is gone.
RemoveInv == \A r \in Request : pc[r] = "remove_files" => to_remove[r] \cap photos = {}

\* Without a deletion of the account, every row and every row to come has its file.
FileInv ==
    (\A r \in Request : kind[r] = "leave" => pc[r] = "ready") =>
        /\ photos \subseteq files
        /\ \A r \in Request : Uncommitted(r) => saved[r] \subseteq files

\* The ids in use and the files behind them.
IdInv == OldInv /\ FreshInv /\ RemoveInv /\ FileInv

\* They hold of a new diary, and every step keeps them.
LEMMA IdInit == Init => IdInv
<1> SUFFICES ASSUME Init PROVE IdInv
  OBVIOUS
<1> USE PhotosAssumption DEF Init
<1>1. OldInv
  BY DEF OldInv, Old
<1>2. FreshInv
  BY DEF FreshInv, Uncommitted
<1>3. RemoveInv
  BY DEF RemoveInv
<1>4. FileInv
  BY DEF FileInv, Uncommitted
<1>5. QED
  BY <1>1, <1>2, <1>3, <1>4 DEF IdInv

\* A request that begins has no photos yet.
LEMMA BeginIds ==
    ASSUME Inv, IdInv, NEW r \in Request, NEW k \in Kinds,
           NEW step \in {"read_photos", "remove_storage", "work"}, Begin(r, k, step)
    PROVE  IdInv'
<1>1. Begun(r, k, step)
  BY BeginFacts DEF Inv
<1>2. saved[r] = {} /\ to_remove[r] = {}
  BY <1>1 DEF Begun, Inv, StageInv
<1>3. OldInv'
  BY <1>1 DEF Begun, IdInv, OldInv, Old
<1>4. FreshInv'
  BY <1>1, <1>2 DEF Begun, IdInv, FreshInv, Uncommitted
<1>5. RemoveInv'
  BY <1>1 DEF Begun, IdInv, RemoveInv
<1>6. FileInv'
  BY <1>1, <1>2 DEF Begun, IdInv, FileInv, Uncommitted
<1>7. QED
  BY <1>3, <1>4, <1>5, <1>6 DEF IdInv

\* Files written under new ids disturb nothing.
LEMMA SaveIds ==
    ASSUME Inv, IdInv, NEW r \in Request, NEW new, FilesSaved(r, new),
           UNCHANGED <<photos, cover_photo_id, kind, pc, to_remove>>,
           \A q \in Request : /\ session'[q].photos = session[q].photos
                              /\ session'[q].cover \in {None, next_id, session[q].cover}
    PROVE  IdInv'
<1> USE PhotosAssumption DEF Inv, TypeOK, FilesSaved, PhotoId
<1>1. OldInv'
  BY DEF IdInv, OldInv, Old
<1>2. FreshInv'
  BY DEF IdInv, OldInv, Old, FreshInv, Uncommitted
<1>3. RemoveInv'
  BY DEF IdInv, RemoveInv
<1>4. FileInv'
  BY DEF IdInv, FileInv, Uncommitted
<1>5. QED
  BY <1>1, <1>2, <1>3, <1>4 DEF IdInv

LEMMA IdStep == Inv /\ IdInv /\ [Next]_vars => IdInv'
<1> SUFFICES ASSUME Inv, IdInv, [Next]_vars
             PROVE  IdInv'
  OBVIOUS
<1> USE PhotosAssumption DEF diaryRow
<1>1. ASSUME NEW r \in Request, BeginUpload(r)
      PROVE  IdInv'
  BY <1>1, BeginIds DEF BeginUpload, Kinds
<1>2. ASSUME NEW r \in Request, ProcessSinglePhoto(r)
      PROVE  IdInv'
  <2>1. FilesSaved(r, {next_id})
    BY <1>2, ProcessFacts DEF Inv
  <2>2. \A q \in Request : /\ session'[q].photos = session[q].photos
                           /\ session'[q].cover \in {None, next_id, session[q].cover}
    BY <1>2, ProcessFacts DEF Inv
  <2>3. QED
    BY <1>2, <2>1, <2>2, SaveIds DEF ProcessSinglePhoto
<1>3. ASSUME NEW r \in Request, CommitUpload(r)
      PROVE  IdInv'
  <2>1. OldInv'
    BY <1>3 DEF CommitUpload, End, Inv, TypeOK, IdInv, OldInv, Old
  <2>2. FreshInv'
    BY <1>3 DEF CommitUpload, End, Inv, TypeOK, IdInv, FreshInv, Uncommitted
  <2>3. RemoveInv'
    BY <1>3
      DEF CommitUpload, End, Inv, TypeOK, IdInv, FreshInv, RemoveInv, Uncommitted
  <2>4. FileInv'
    BY <1>3 DEF CommitUpload, End, Inv, TypeOK, IdInv, FileInv, Uncommitted
  <2>5. QED
    BY <2>1, <2>2, <2>3, <2>4 DEF IdInv
<1>4. ASSUME NEW r \in Request, BeginAdd(r)
      PROVE  IdInv'
  BY <1>4, BeginIds DEF BeginAdd, Kinds
<1>5. ASSUME NEW r \in Request, NEW n \in 1 .. MaxFiles, AddDiaryPhotos(r, n)
      PROVE  IdInv'
  <2> DEFINE new == next_id .. next_id + n - 1
  <2>1. FilesSaved(r, new)
    BY <1>5, SaveFilesFacts DEF AddDiaryPhotos, Inv
  <2> HIDE DEF new
  <2>2. QED
    BY <1>5, <2>1, SaveIds DEF AddDiaryPhotos
<1>6. ASSUME NEW r \in Request, CommitAdd(r)
      PROVE  IdInv'
  <2>1. OldInv'
    BY <1>6 DEF CommitAdd, End, Inv, TypeOK, IdInv, OldInv, Old
  <2>2. FreshInv'
    BY <1>6 DEF CommitAdd, End, Inv, TypeOK, IdInv, FreshInv, Uncommitted
  <2>3. RemoveInv'
    BY <1>6 DEF CommitAdd, End, Inv, TypeOK, IdInv, FreshInv, RemoveInv, Uncommitted
  <2>4. FileInv'
    BY <1>6 DEF CommitAdd, End, Inv, TypeOK, IdInv, FileInv, Uncommitted
  <2>5. QED
    BY <2>1, <2>2, <2>3, <2>4 DEF IdInv
<1>7. ASSUME NEW r \in Request, NEW k \in {"patch", "delete"}, BeginEdit(r, k)
      PROVE  IdInv'
  BY <1>7, BeginIds DEF BeginEdit, Kinds
<1>8. ASSUME NEW r \in Request, ReadPhotos(r)
      PROVE  IdInv'
  BY <1>8 DEF ReadPhotos,
          Inv, TypeOK, StageInv, IdInv, OldInv, Old, FreshInv, RemoveInv, FileInv,
          Uncommitted
<1>9. ASSUME NEW r \in Request,
             NEW keep \in SUBSET session[r].photos, NEW n \in 1 .. MaxPhotos,
             NEW sent \in session[r].photos \cup {None},
             UpdateDiary(r, keep, n, sent)
      PROVE  IdInv'
  BY <1>9 DEF UpdateDiary, Cover, DeletePhotos, End,
          Inv, TypeOK, StageInv, IdInv, OldInv, Old, FreshInv, RemoveInv, FileInv,
          Uncommitted
<1>10. ASSUME NEW r \in Request, DeleteDiary(r)
      PROVE  IdInv'
  BY <1>10 DEF DeleteDiary, DeletePhotos, End,
          Inv, TypeOK, StageInv, IdInv, OldInv, Old, FreshInv, RemoveInv, FileInv,
          Uncommitted
<1>11. ASSUME NEW r \in Request, RemoveFiles(r)
      PROVE  IdInv'
  BY <1>11 DEF RemoveFiles,
          Inv, TypeOK, StageInv, IdInv, OldInv, Old, FreshInv, RemoveInv, FileInv,
          Uncommitted
<1>12. ASSUME NEW r \in Request, BeginSave(r)
      PROVE  IdInv'
  BY <1>12, BeginIds DEF BeginSave, Kinds
<1>13. ASSUME NEW r \in Request, SaveAnalysisResult(r)
      PROVE  IdInv'
  <2>1. OldInv'
    BY <1>13, MinIsPhoto DEF SaveAnalysisResult, End, Inv, TypeOK, IdInv, OldInv, Old
  <2>2. FreshInv'
    BY <1>13 DEF SaveAnalysisResult, End, Inv, TypeOK, IdInv, FreshInv, Uncommitted
  <2>3. RemoveInv'
    BY <1>13
      DEF SaveAnalysisResult, End, Inv, TypeOK, IdInv, FreshInv, RemoveInv, Uncommitted
  <2>4. FileInv'
    BY <1>13 DEF SaveAnalysisResult, End, Inv, TypeOK, IdInv, FileInv, Uncommitted
  <2>5. QED
    BY <2>1, <2>2, <2>3, <2>4 DEF IdInv
<1>14. ASSUME NEW r \in Request, BeginLeave(r)
      PROVE  IdInv'
  BY <1>14, BeginIds DEF BeginLeave, Kinds
<1>15. ASSUME NEW r \in Request, DeleteUserStorage(r)
      PROVE  IdInv'
  BY <1>15 DEF DeleteUserStorage,
          Inv, TypeOK, StageInv, IdInv, OldInv, Old, FreshInv, RemoveInv, FileInv,
          Uncommitted
<1>16. ASSUME NEW r \in Request, DeleteUser(r)
      PROVE  IdInv'
  BY <1>16 DEF DeleteUser, End,
          Inv, TypeOK, StageInv, IdInv, OldInv, Old, FreshInv, RemoveInv, FileInv,
          Uncommitted
<1>17. ASSUME NEW r \in Request, Abort(r)
      PROVE  IdInv'
  BY <1>17 DEF Abort, End, Running,
          Inv, TypeOK, StageInv, IdInv, OldInv, Old, FreshInv, RemoveInv, FileInv,
          Uncommitted
<1>18. CASE UNCHANGED vars
  BY <1>18 DEF vars, diaryRow,
          Inv, TypeOK, StageInv, IdInv, OldInv, Old, FreshInv, RemoveInv, FileInv,
          Uncommitted
<1>19. QED
  BY <1>1, <1>2, <1>3, <1>4, <1>5, <1>6, <1>7, <1>8, <1>9, <1>10, <1>11, <1>12,
     <1>13, <1>14, <1>15, <1>16, <1>17, <1>18 DEF Next
-----------------------------------------------------------------------------
\* Requests under way are orderly.
AloneInv ==
    \A q, r \in Request : Running(q) /\ Running(r) /\ q # r => Orderly(kind[q], kind[r])

\* The diary row agrees with the photos.
RowInv ==
    /\ row = "purged" => files = {} /\ \A r \in Request : ~Running(r)
    /\ row = "active" => cover_photo_id \in photos
    /\ Cardinality(photos) <= photo_count

\* What a request has read is still so.
ReadInv ==
    \A r \in Request : Running(r) =>
        /\ kind[r] = "upload" =>
              /\ session[r].count = photo_count + Cardinality(saved[r])
              /\ row = "active" => session[r].cover = cover_photo_id
        /\ kind[r] = "add" => session[r].count = photo_count
        /\ kind[r] = "patch" =>
              session[r].count = photo_count /\ session[r].cover = cover_photo_id
        /\ kind[r] \in {"patch", "delete"} /\ pc[r] = "work" => session[r].photos = photos
        /\ kind[r] = "leave" /\ pc[r] = "work" => files = {}

\* How things are as long as nothing has overlapped.
OrderInv == AloneInv /\ RowInv /\ ReadInv

\* The inductive invariant of orderly requests.
SerialInv == ~overlapped => OrderInv

\* It holds of a new diary.
LEMMA SerialInit == Init => SerialInv
<1> SUFFICES ASSUME Init PROVE OrderInv
  BY DEF SerialInv
<1> USE PhotosAssumption DEF Init
<1>1. AloneInv
  BY DEF AloneInv, Running
<1>2. RowInv
  <2>1. Cardinality({1}) = 1
    BY FS_Singleton
  <2>2. QED
    BY <2>1 DEF RowInv
<1>3. ReadInv
  BY DEF ReadInv, Running
<1>4. QED
  BY <1>1, <1>2, <1>3 DEF OrderInv

\* Beside a request that is no addition and no save, none runs; beside an addition
\* none but saves.
LEMMA Alone ==
    ASSUME Inv, AloneInv, NEW r \in Request, Running(r)
    PROVE  \A q \in Request : Running(q) /\ q # r =>
              /\ kind[r] \in {"add", "save"} /\ kind[q] \in {"add", "save"}
              /\ kind[r] = "add" => kind[q] = "save"
  BY DEF AloneInv, Orderly, Running, Inv, StageInv

\* What a request reads as it begins is so.
LEMMA BeginSerial ==
    ASSUME Inv, OrderInv, NEW r \in Request, NEW k \in Kinds,
           NEW step \in {"read_photos", "remove_storage", "work"}, Begin(r, k, step),
           step = "read_photos" => k \in {"patch", "delete"},
           step = "remove_storage" => k = "leave",
           step = "work" => k \notin {"patch", "delete", "leave"},
           row # "purged", ~overlapped'
    PROVE  OrderInv'
<1>1. Begun(r, k, step)
  BY BeginFacts DEF Inv
<1>2. saved[r] = {} /\ saved'[r] = {}
  BY <1>1 DEF Begun, Inv, StageInv
<1>3. AloneInv'
  BY <1>1 DEF Begun, OrderInv, AloneInv, Running, Orderly
<1>4. RowInv'
  BY <1>1 DEF Begun, OrderInv, RowInv
<1>5. ReadInv'
  <2>1. photo_count = photo_count + Cardinality({})
    BY FS_EmptySet DEF Inv, TypeOK
  <2>2. UNCHANGED <<row, photos, photo_count, cover_photo_id, files, saved>>
    BY <1>1 DEF Begun
  <2>3. ASSUME NEW q \in Request, q # r
        PROVE  /\ Running(q)' => Running(q)
               /\ session'[q] = session[q] /\ kind'[q] = kind[q] /\ pc'[q] = pc[q]
    BY <1>1, <2>3 DEF Begun, Running
  <2>4. /\ session'[r].count = photo_count + Cardinality(saved[r])
        /\ session'[r].cover = cover_photo_id
        /\ session'[r].count = photo_count
        /\ pc'[r] = "work" => kind'[r] \notin {"patch", "delete", "leave"}
    BY <1>1, <1>2, <2>1 DEF Begun
  <2>5. QED
    BY <2>2, <2>3, <2>4 DEF OrderInv, ReadInv
<1>6. QED
  BY <1>3, <1>4, <1>5 DEF OrderInv

\* What has once overlapped stays so.
LEMMA OverlapStays == overlapped /\ [Next]_vars => overlapped'
<1> SUFFICES ASSUME overlapped, [Next]_vars
             PROVE  overlapped'
  OBVIOUS
<1>1. ASSUME NEW r \in Request, BeginUpload(r)
      PROVE  overlapped'
  BY <1>1 DEF BeginUpload, Begin
<1>2. ASSUME NEW r \in Request, ProcessSinglePhoto(r)
      PROVE  overlapped'
  BY <1>2 DEF ProcessSinglePhoto
<1>3. ASSUME NEW r \in Request, CommitUpload(r)
      PROVE  overlapped'
  BY <1>3 DEF CommitUpload, End
<1>4. ASSUME NEW r \in Request, BeginAdd(r)
      PROVE  overlapped'
  BY <1>4 DEF BeginAdd, Begin
<1>5. ASSUME NEW r \in Request, NEW n \in 1 .. MaxFiles, AddDiaryPhotos(r, n)
      PROVE  overlapped'
  BY <1>5 DEF AddDiaryPhotos
<1>6. ASSUME NEW r \in Request, CommitAdd(r)
      PROVE  overlapped'
  BY <1>6 DEF CommitAdd, End
<1>7. ASSUME NEW r \in Request, NEW k \in {"patch", "delete"}, BeginEdit(r, k)
      PROVE  overlapped'
  BY <1>7 DEF BeginEdit, Begin
<1>8. ASSUME NEW r \in Request, ReadPhotos(r)
      PROVE  overlapped'
  BY <1>8 DEF ReadPhotos
<1>9. ASSUME NEW r \in Request,
             NEW keep \in SUBSET session[r].photos, NEW n \in 1 .. MaxPhotos,
             NEW sent \in session[r].photos \cup {None},
             UpdateDiary(r, keep, n, sent)
      PROVE  overlapped'
  BY <1>9 DEF UpdateDiary, End
<1>10. ASSUME NEW r \in Request, DeleteDiary(r)
      PROVE  overlapped'
  BY <1>10 DEF DeleteDiary, End
<1>11. ASSUME NEW r \in Request, RemoveFiles(r)
      PROVE  overlapped'
  BY <1>11 DEF RemoveFiles
<1>12. ASSUME NEW r \in Request, BeginSave(r)
      PROVE  overlapped'
  BY <1>12 DEF BeginSave, Begin
<1>13. ASSUME NEW r \in Request, SaveAnalysisResult(r)
      PROVE  overlapped'
  BY <1>13 DEF SaveAnalysisResult, End
<1>14. ASSUME NEW r \in Request, BeginLeave(r)
      PROVE  overlapped'
  BY <1>14 DEF BeginLeave, Begin
<1>15. ASSUME NEW r \in Request, DeleteUserStorage(r)
      PROVE  overlapped'
  BY <1>15 DEF DeleteUserStorage
<1>16. ASSUME NEW r \in Request, DeleteUser(r)
      PROVE  overlapped'
  BY <1>16 DEF DeleteUser, End
<1>17. ASSUME NEW r \in Request, Abort(r)
      PROVE  overlapped'
  BY <1>17 DEF Abort, End
<1>18. CASE UNCHANGED vars
  BY <1>18 DEF vars, diaryRow
<1>19. QED
  BY <1>1, <1>2, <1>3, <1>4, <1>5, <1>6, <1>7, <1>8, <1>9, <1>10, <1>11, <1>12,
     <1>13, <1>14, <1>15, <1>16, <1>17, <1>18 DEF Next

\* Every step keeps SerialInv: a request either is alone or, an addition or a save,
\* changes nothing the others have read.
LEMMA SerialStep == Inv /\ IdInv /\ SerialInv /\ [Next]_vars => SerialInv'
<1> SUFFICES ASSUME Inv, IdInv, SerialInv, [Next]_vars, ~overlapped'
             PROVE  OrderInv'
  BY DEF SerialInv
<1>0. ~overlapped /\ OrderInv
  BY OverlapStays DEF SerialInv
<1> USE PhotosAssumption DEF diaryRow
<1>1. ASSUME NEW r \in Request, BeginUpload(r)
      PROVE  OrderInv'
  BY <1>1, <1>0, BeginSerial DEF BeginUpload, Kinds
<1>2. ASSUME NEW r \in Request, ProcessSinglePhoto(r)
      PROVE  OrderInv'
  <2>1. Running(r) /\ kind[r] = "upload" /\ UNCHANGED <<kind, pc, diaryRow>>
    BY <1>2 DEF ProcessSinglePhoto, Running
  <2>2. AloneInv'
    BY <1>0, <2>1 DEF OrderInv, AloneInv, Running
  <2>3. RowInv'
    BY <1>0, <2>1 DEF OrderInv, RowInv
  <2>4. \A q \in Request : Running(q) => q = r
    BY <1>0, <2>1, Alone DEF OrderInv
  <2>5. /\ session'[r].count = session[r].count + 1
        /\ session'[r].cover = IF session[r].cover = None THEN next_id ELSE session[r].cover
        /\ saved'[r] = saved[r] \cup {next_id}
    BY <1>2, ProcessFacts DEF FilesSaved, Inv
  <2>6. /\ session[r].count = photo_count + Cardinality(saved[r])
        /\ row = "active" => session[r].cover = cover_photo_id
    BY <1>0, <2>1 DEF OrderInv, ReadInv
  <2>7. Cardinality(saved'[r]) = Cardinality(saved[r]) + 1
    <3>1. next_id \notin saved[r]
      BY DEF IdInv, OldInv, Old, Inv, TypeOK
    <3>2. IsFiniteSet(saved[r])
      BY PhotosFinite DEF Inv, TypeOK
    <3>3. QED
      BY <2>5, <3>1, <3>2, FS_AddElement
  <2>8. session'[r].count = photo_count' + Cardinality(saved'[r])
    <3>1. Cardinality(saved[r]) \in Nat /\ photo_count \in Nat
      BY PhotosFinite DEF Inv, TypeOK
    <3>2. QED
      BY <2>1, <2>5, <2>6, <2>7, <3>1
  <2>9. row' = "active" => session'[r].cover = cover_photo_id'
    BY <1>0, <2>1, <2>5, <2>6 DEF OrderInv, RowInv, Inv, TypeOK
  <2>10. ReadInv'
    BY <2>1, <2>4, <2>8, <2>9 DEF ReadInv, Running
  <2>11. QED
    BY <2>2, <2>3, <2>10 DEF OrderInv
<1>3. ASSUME NEW r \in Request, CommitUpload(r)
      PROVE  OrderInv'
  <2>1. AloneInv'
    BY <1>3, <1>0 DEF CommitUpload, End, Inv, TypeOK, OrderInv, AloneInv, Running
  <2>2. RowInv'
    <3>1. Running(r) /\ session[r].count = photo_count + Cardinality(saved[r])
      BY <1>3, <1>0 DEF CommitUpload, Running, OrderInv, ReadInv
    <3>2. Cardinality(photos') <= Cardinality(photos) + Cardinality(saved[r])
      BY <1>3, PhotosAdded DEF CommitUpload, Inv, TypeOK
    <3>3. /\ Cardinality(photos') \in Nat /\ Cardinality(photos) \in Nat
          /\ Cardinality(saved[r]) \in Nat /\ photo_count \in Nat
      BY <1>3, PhotosFinite DEF Inv, TypeOK, CommitUpload
    <3>4. Cardinality(photos') <= photo_count'
      BY <1>3, <1>0, <3>1, <3>2, <3>3 DEF CommitUpload, OrderInv, RowInv
    <3>5. row' = "active" => cover_photo_id' \in photos'
      BY <1>3, <1>0, <3>1 DEF CommitUpload, OrderInv, RowInv, ReadInv
    <3>6. row' # "purged"
      BY <1>3 DEF CommitUpload
    <3>7. QED
      BY <3>4, <3>5, <3>6 DEF RowInv
  <2>3. ReadInv'
    BY <1>3, <1>0, Alone
      DEF CommitUpload, End, Inv, TypeOK, OrderInv, ReadInv, Running
  <2>4. QED
    BY <2>1, <2>2, <2>3 DEF OrderInv
<1>4. ASSUME NEW r \in Request, BeginAdd(r)
      PROVE  OrderInv'
  BY <1>4, <1>0, BeginSerial DEF BeginAdd, Kinds
<1>5. ASSUME NEW r \in Request, NEW n \in 1 .. MaxFiles, AddDiaryPhotos(r, n)
      PROVE  OrderInv'
  <2>1. \A q \in Request : q # r => saved'[q] = saved[q]
    BY <1>5, SaveFilesFacts DEF AddDiaryPhotos, FilesSaved, Inv
  <2>2. Running(r) /\ kind[r] = "add"
    BY <1>5 DEF AddDiaryPhotos, Running
  <2>3. AloneInv'
    BY <1>5, <1>0 DEF AddDiaryPhotos, OrderInv, AloneInv, Running
  <2>4. RowInv'
    BY <1>5, <1>0, <2>2 DEF AddDiaryPhotos, OrderInv, RowInv
  <2>5. ReadInv'
    <3>1. \A q \in Request : Running(q) => kind[q] # "leave"
      BY <1>0, <2>2, Alone DEF OrderInv
    <3>2. QED
      BY <1>5, <1>0, <2>1, <2>2, <3>1 DEF AddDiaryPhotos, OrderInv, ReadInv, Running
  <2>6. QED
    BY <2>3, <2>4, <2>5 DEF OrderInv
<1>6. ASSUME NEW r \in Request, CommitAdd(r)
      PROVE  OrderInv'
  <2>1. AloneInv'
    BY <1>6, <1>0 DEF CommitAdd, End, Inv, TypeOK, OrderInv, AloneInv, Running
  <2>2. RowInv'
    <3>1. Running(r) /\ session[r].count = photo_count
      BY <1>6, <1>0 DEF CommitAdd, Running, OrderInv, ReadInv
    <3>2. Cardinality(photos') <= Cardinality(photos) + Cardinality(saved[r])
      BY <1>6, PhotosAdded DEF CommitAdd, Inv, TypeOK
    <3>3. /\ Cardinality(photos') \in Nat /\ Cardinality(photos) \in Nat
          /\ Cardinality(saved[r]) \in Nat /\ photo_count \in Nat
      BY <1>6, PhotosFinite DEF Inv, TypeOK, CommitAdd
    <3>4. Cardinality(photos') <= photo_count'
      BY <1>6, <1>0, <3>1, <3>2, <3>3 DEF CommitAdd, OrderInv, RowInv
    <3>5. (row' = "active" => cover_photo_id' \in photos') /\ row' # "purged"
      BY <1>6, <1>0 DEF CommitAdd, OrderInv, RowInv
    <3>6. QED
      BY <3>4, <3>5 DEF RowInv
  <2>3. ReadInv'
    BY <1>6, <1>0, Alone DEF CommitAdd, End, Inv, TypeOK, OrderInv, ReadInv, Running
  <2>4. QED
    BY <2>1, <2>2, <2>3 DEF OrderInv
<1>7. ASSUME NEW r \in Request, NEW k \in {"patch", "delete"}, BeginEdit(r, k)
      PROVE  OrderInv'
  BY <1>7, <1>0, BeginSerial DEF BeginEdit, Kinds
<1>8. ASSUME NEW r \in Request, ReadPhotos(r)
      PROVE  OrderInv'
  BY <1>8, <1>0 DEF ReadPhotos,
          Inv, TypeOK, StageInv, OrderInv, AloneInv, RowInv, ReadInv, Running
<1>9. ASSUME NEW r \in Request,
             NEW keep \in SUBSET session[r].photos, NEW n \in 1 .. MaxPhotos,
             NEW sent \in session[r].photos \cup {None},
             UpdateDiary(r, keep, n, sent)
      PROVE  OrderInv'
  <2>1. AloneInv'
    BY <1>9, <1>0 DEF UpdateDiary, End, Inv, TypeOK, OrderInv, AloneInv, Running
  <2>2. RowInv'
    <3>1. /\ Running(r) /\ session[r].photos = photos
          /\ session[r].count = photo_count /\ session[r].cover = cover_photo_id
      BY <1>9, <1>0 DEF UpdateDiary, Running, OrderInv, ReadInv
    <3>2. photos' = keep /\ row' # "purged"
      BY <1>9, <3>1 DEF UpdateDiary, DeletePhotos
    <3>3. Cardinality(keep) <= photo_count'
      BY <1>9, <3>1 DEF UpdateDiary
    <3>4. \E cover \in Cover(r, keep, sent) :
              /\ cover \in keep
              /\ cover_photo_id' = IF cover # session[r].cover THEN cover
                                   ELSE IF cover_photo_id \in session[r].photos \ keep THEN None
                                   ELSE cover_photo_id
      BY <1>9 DEF UpdateDiary, DeletePhotos, Cover
    <3>5. cover_photo_id' \in keep
      BY <3>1, <3>4
    <3>6. QED
      BY <3>2, <3>3, <3>5 DEF RowInv
  <2>3. ReadInv'
    BY <1>9, <1>0, Alone
      DEF UpdateDiary, DeletePhotos, End, Inv, TypeOK, OrderInv, ReadInv, Running
  <2>4. QED
    BY <2>1, <2>2, <2>3 DEF OrderInv
<1>10. ASSUME NEW r \in Request, DeleteDiary(r)
      PROVE  OrderInv'
  <2>1. AloneInv'
    BY <1>10, <1>0 DEF DeleteDiary, End, Inv, TypeOK, OrderInv, AloneInv, Running
  <2>2. RowInv'
    <3>1. photos' = {} /\ row' = "soft_deleted" /\ photo_count' \in Nat
      BY <1>10, <1>0
        DEF DeleteDiary, DeletePhotos, Running, OrderInv, ReadInv, Inv, TypeOK
    <3>2. QED
      BY <3>1, FS_EmptySet DEF RowInv
  <2>3. ReadInv'
    BY <1>10, <1>0, Alone
      DEF DeleteDiary, DeletePhotos, End, Inv, TypeOK, OrderInv, ReadInv, Running
  <2>4. QED
    BY <2>1, <2>2, <2>3 DEF OrderInv
<1>11. ASSUME NEW r \in Request, RemoveFiles(r)
      PROVE  OrderInv'
  BY <1>11, <1>0 DEF RemoveFiles,
          Inv, TypeOK, StageInv, OrderInv, AloneInv, RowInv, ReadInv, Running
<1>12. ASSUME NEW r \in Request, BeginSave(r)
      PROVE  OrderInv'
  BY <1>12, <1>0, BeginSerial DEF BeginSave, Kinds
<1>13. ASSUME NEW r \in Request, SaveAnalysisResult(r)
      PROVE  OrderInv'
  <2>1. AloneInv'
    BY <1>13, <1>0
      DEF SaveAnalysisResult, End, Inv, TypeOK, OrderInv, AloneInv, Running
  <2>2. RowInv'
    <3>1. cover_photo_id' \in {cover_photo_id} \cup photos
      BY <1>13, MinIsPhoto DEF SaveAnalysisResult, Inv, TypeOK
    <3>2. QED
      BY <1>13, <1>0, <3>1 DEF SaveAnalysisResult, OrderInv, RowInv
  <2>3. ReadInv'
    BY <1>13, <1>0, Alone
      DEF SaveAnalysisResult, End, Inv, TypeOK, OrderInv, ReadInv, Running
  <2>4. QED
    BY <2>1, <2>2, <2>3 DEF OrderInv
<1>14. ASSUME NEW r \in Request, BeginLeave(r)
      PROVE  OrderInv'
  BY <1>14, <1>0, BeginSerial DEF BeginLeave, Kinds
<1>15. ASSUME NEW r \in Request, DeleteUserStorage(r)
      PROVE  OrderInv'
  BY <1>15, <1>0 DEF DeleteUserStorage,
          Inv, TypeOK, StageInv, OrderInv, AloneInv, RowInv, ReadInv, Running
<1>16. ASSUME NEW r \in Request, DeleteUser(r)
      PROVE  OrderInv'
  <2>1. AloneInv'
    BY <1>16, <1>0 DEF DeleteUser, End, Inv, TypeOK, OrderInv, AloneInv, Running
  <2>2. RowInv'
    <3>1. /\ photos' = {} /\ row' = "purged" /\ photo_count' \in Nat /\ files' = {}
          /\ Running(r)
      BY <1>16, <1>0 DEF DeleteUser, Running, OrderInv, ReadInv, Inv, TypeOK
    <3>2. \A q \in Request : ~Running(q)'
      BY <1>16, <1>0, <3>1, Alone DEF DeleteUser, End, Running, OrderInv, Inv, TypeOK
    <3>3. QED
      BY <3>1, <3>2, FS_EmptySet DEF RowInv
  <2>3. ReadInv'
    BY <1>16, <1>0, Alone DEF DeleteUser, End, Inv, TypeOK, OrderInv, ReadInv, Running
  <2>4. QED
    BY <2>1, <2>2, <2>3 DEF OrderInv
<1>17. ASSUME NEW r \in Request, Abort(r)
      PROVE  OrderInv'
  <2>1. AloneInv'
    BY <1>17, <1>0 DEF Abort, End, Inv, TypeOK, OrderInv, AloneInv, Running
  <2>2. RowInv'
    BY <1>17, <1>0 DEF Abort, End, Inv, TypeOK, OrderInv, RowInv, ReadInv, Running
  <2>3. ReadInv'
    BY <1>17, <1>0, Alone DEF Abort, End, Inv, TypeOK, OrderInv, ReadInv, Running
  <2>4. QED
    BY <2>1, <2>2, <2>3 DEF OrderInv
<1>18. CASE UNCHANGED vars
  BY <1>18, <1>0 DEF vars, diaryRow, OrderInv, AloneInv, RowInv, ReadInv, Running
<1>19. QED
  BY <1>1, <1>2, <1>3, <1>4, <1>5, <1>6, <1>7, <1>8, <1>9, <1>10, <1>11, <1>12,
     <1>13, <1>14, <1>15, <1>16, <1>17, <1>18 DEF Next
-----------------------------------------------------------------------------
\* The inductive invariant, and that it holds always.
PhotosInv == Inv /\ IdInv /\ SerialInv

LEMMA PhotosInvAlways == Spec => []PhotosInv
<1>1. Init => PhotosInv
  BY InvInit, IdInit, SerialInit DEF PhotosInv
<1>2. PhotosInv /\ [Next]_vars => PhotosInv'
  BY InvStep, IdStep, SerialStep DEF PhotosInv
<1>3. QED
  BY <1>1, <1>2, PTL DEF Spec

\* Type correctness: the photos of a diary, its counter, its cover, the sessions of the
\* requests and the holder of the row lock.
THEOREM PhotosTypeCorrect == Spec => []TypeOK
<1>1. PhotosInv => TypeOK
  BY DEF PhotosInv, Inv
<1>2. QED
  BY <1>1, PhotosInvAlways, PTL

\* Every photo row has its file, whatever overlaps and whatever fails, as long as the
\* account is not deleted: save_user_photo writes files before rows and the after_commit
\* hook of update_diary and delete_diary removes them after rows.
THEOREM RowHasFileAlways == Spec => []RowHasFile
<1>1. PhotosInv => RowHasFile
  BY DEF PhotosInv, IdInv, FileInv, RowHasFile
<1>2. QED
  BY <1>1, PhotosInvAlways, PTL

\* photo_count stays within the schema of every response, also where overlapping requests
\* leave it wrong: each one writes a number it has checked itself.
THEOREM PhotoCountReadableAlways == Spec => []PhotoCountReadable
<1>1. PhotosInv => PhotoCountReadable
  BY DEF PhotosInv, Inv, CountInv, PhotoCountReadable
<1>2. QED
  BY <1>1, PhotosInvAlways, PTL

\* Unless requests other than additions and a worker have overlapped, photo_count is no
\* smaller than the number of photos, so that the limit it is compared with is one on them.
THEOREM CountCoversPhotosAlways == Spec => []CountCoversPhotos
<1>1. PhotosInv => CountCoversPhotos
  BY DEF PhotosInv, SerialInv, OrderInv, RowInv, CountCoversPhotos
<1>2. QED
  BY <1>1, PhotosInvAlways, PTL

\* Unless such requests have overlapped, an active diary has one of its photos for a cover.
THEOREM CoverIsAPhotoAlways == Spec => []CoverIsAPhoto
<1>1. PhotosInv => CoverIsAPhoto
  BY DEF PhotosInv, SerialInv, OrderInv, RowInv, CoverIsAPhoto
<1>2. QED
  BY <1>1, PhotosInvAlways, PTL

\* Unless such requests have overlapped, no file outlives the account: delete_user_storage
\* removes the files of failed additions too.
THEOREM NothingLeftBehindAlways == Spec => []NothingLeftBehind
<1>1. PhotosInv => NothingLeftBehind
  BY DEF PhotosInv, SerialInv, OrderInv, RowInv, NothingLeftBehind
<1>2. QED
  BY <1>1, PhotosInvAlways, PTL
=============================================================================
