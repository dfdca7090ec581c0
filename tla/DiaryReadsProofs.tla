-------------------------- MODULE DiaryReadsProofs --------------------------
(***************************************************************************)
(* Safety theorems about DiaryReads, for any days, pictures, replies,      *)
(* searches and calendars, and any number of writes during a read.         *)
(***************************************************************************)
EXTENDS DiaryReads, FoldTheorems, FiniteSetTheorems, TLAPS

\* A row of diaries and a row of photos, column by column.
DiaryColumns(d) ==
    d = [id |-> d.id, day |-> d.day, diary_date |-> d.diary_date, time_type |-> d.time_type,
         deleted |-> d.deleted, cover_photo_id |-> d.cover_photo_id,
         photo_count |-> d.photo_count, restaurant_name |-> d.restaurant_name,
         restaurant_url |-> d.restaurant_url, road_address |-> d.road_address,
         address_name |-> d.address_name, category |-> d.category, tags |-> d.tags,
         edited |-> d.edited]
PhotoColumns(p) ==
    p = [id |-> p.id, diary_id |-> p.diary_id, taken_at |-> p.taken_at, located |-> p.located]

\* No counter and no cover is ahead of the photo ids given out.
DiaryFact(d) ==
    /\ DiaryColumns(d)
    /\ d.id \in Id /\ d.day \in FiledDays /\ d.deleted \in BOOLEAN /\ d.edited \in BOOLEAN
    /\ d.diary_date = KstDateToUtc(d.day) /\ d.time_type \in Meals
    /\ d.cover_photo_id \in (1 .. photo_seq) \cup {Null} /\ d.photo_count \in 0 .. photo_seq
    /\ d.category \in Categories \cup {Null}

\* A photo is in a diary; one with a time is in a diary of its meal.
PhotoFact(p) ==
    /\ PhotoColumns(p)
    /\ p.id \in 1 .. photo_seq /\ p.taken_at \in Int \cup {Null}
    /\ \E d \in diaries :
          d.id = p.diary_id /\ (p.taken_at # Null => d.time_type = ClassifyTimeType(p.taken_at))

\* The rows, and what a read still has of them.
Tables ==
    /\ photo_seq \in 0 .. MaxPhotoIds
    /\ IsFiniteSet(diaries) /\ Keyed(diaries) /\ Ids(diaries) = 1 .. Cardinality(diaries)
    /\ Keyed(photos \cup read.covers)
    /\ \A d \in diaries : DiaryFact(d)
    /\ \A p \in photos \cup read.covers : PhotoFact(p)

\* A photo with the id a diary has for its cover, now or when it was read, is one
\* of that diary.
CoverFact ==
    \A d \in diaries \cup read.rows, p \in photos \cup read.covers :
        p.id = d.cover_photo_id => p.diary_id = d.id

\* What is kept of an analysis.
AnalysisFact ==
    /\ DOMAIN analysis \subseteq Id
    /\ \A i \in DOMAIN analysis : analysis[i] # <<>> /\ analysis[i] \in Seq(Range(analysis[i]))

ReadColumns ==
    /\ read = [kind |-> read.kind, asked |-> read.asked, start |-> read.start, end |-> read.end,
               month |-> read.month, rows |-> read.rows, photos |-> read.photos,
               covers |-> read.covers, previous |-> read.previous, todo |-> read.todo,
               writes |-> read.writes]
    /\ read.kind \in {"none", "range", "calendar", "diary", "insights"}
    /\ read.todo \subseteq {"photos", "covers", "previous"}
    /\ read.writes \in 0 .. MaxWrites

\* What was read of a diary stays true of its id, day and meal.
RowFact(d) ==
    DiaryFact(d) /\ \E x \in diaries : x.id = d.id /\ x.day = d.day /\ x.time_type = d.time_type

\* The rows of a read are those that lie in the days or the month asked for.
ReadFact ==
    /\ \A d \in read.asked \cup read.previous : RowFact(d)
    /\ IsFiniteSet(read.asked) /\ Keyed(read.asked)
    /\ read.rows \subseteq read.asked
    /\ read.kind \in {"range", "calendar", "diary"} =>
          /\ read.start \in Int /\ read.end \in Int
          /\ read.rows = {d \in read.asked : d.day \in read.start .. read.end}
    /\ read.kind = "insights" =>
          /\ {read.month, PreviousMonth(read.month), NextMonth(read.month)} \subseteq DOMAIN FirstOfMonth
          /\ read.rows = {d \in read.asked : InMonth(d, read.month)}
          /\ read.previous = {d \in read.previous : InMonth(d, PreviousMonth(read.month))}

\* The inductive invariant.
Inv ==
    /\ Tables /\ CoverFact /\ AnalysisFact /\ ReadColumns /\ ReadFact
    /\ UneditedShowsFirstSuggestion
-----------------------------------------------------------------------------
\* Days and hours.

\* A Korean midnight is read back as its day, and midnights come in the order of
\* their days.
LEMMA DayOfMidnight == ASSUME NEW day \in Int PROVE DateOf(UtcToKst(KstDateToUtc(day))) = day
BY DEF DateOf, UtcToKst, KstDateToUtc, KstOffset

LEMMA MidnightsAscend ==
    ASSUME NEW a \in Int, NEW b \in Int
    PROVE  /\ KstDateToUtc(a) \in Int
           /\ KstDateToUtc(a) <= KstDateToUtc(b) <=> a <= b
           /\ KstDateToUtc(a) < KstDateToUtc(b) <=> a < b
BY DEF KstDateToUtc, KstOffset

\* The meal of a photo is told by the hour it was taken at in Korea.
LEMMA MealOfHour ==
    ASSUME NEW t \in Int, NEW u \in Int, HourOf(UtcToKst(t)) = HourOf(UtcToKst(u))
    PROVE  ClassifyTimeType(t) = ClassifyTimeType(u)
<1>1. t # Null /\ u # Null
  BY ReadsAssumption
<1>2. QED
  BY <1>1 DEF ClassifyTimeType

\* A clock in Korea shows what was read from it.
LEMMA ReadingOfReading ==
    ASSUME NEW reading \in Int
    PROVE  KstNaiveToUtc(reading) \in Int /\ UtcToKst(KstNaiveToUtc(reading)) = reading
BY DEF KstNaiveToUtc, UtcToKst, KstOffset

LEMMA MealType == \A t : ClassifyTimeType(t) \in Meals
BY DEF ClassifyTimeType, Meals
-----------------------------------------------------------------------------
\* Sums over sets and folds over sequences.  A fold is a function that is CHOSEN
\* for its equation: there is one, and the equation says what it is.

\* A number of people, each with one key, is the sum over the keys.
LEMMA TotalCounts ==
    ASSUME NEW R, IsFiniteSet(R), NEW D, IsFiniteSet(D), NEW key \in [R -> D],
           NEW tally, tally = [k \in D |-> Cardinality({r \in R : key[r] = k})]
    PROVE  Total(tally) = Cardinality(R)
<1> DEFINE Pick(s) == CHOOSE x \in s : TRUE
           Sum(g, s) == IF s = {} THEN 0 ELSE tally[Pick(s)] + g[s \ {Pick(s)}]
           count == [s \in SUBSET D |-> Cardinality({r \in R : key[r] \in s})]
           it == CHOOSE g : g = [s \in SUBSET D |-> Sum(g, s)]
<1>1. Total(tally) = it[D]
  <2>1. DOMAIN tally = D
    OBVIOUS
  <2>2. QED
    BY <2>1 DEF Total, MapThenSumSet, MapThenFoldSet
<1>2. ASSUME NEW s \in SUBSET D, s # {}
      PROVE  count[s] = tally[Pick(s)] + count[s \ {Pick(s)}] /\ Pick(s) \in s
  <2> DEFINE x == Pick(s)
             A == {r \in R : key[r] = x}
             B == {r \in R : key[r] \in s \ {x}}
  <2>1. x \in s
    BY <1>2
  <2> HIDE DEF x
  <2>2. {r \in R : key[r] \in s} = A \cup B /\ A \cap B = {}
    BY <2>1
  <2>3. IsFiniteSet(A) /\ IsFiniteSet(B)
    BY FS_Subset
  <2>4. Cardinality(A \cup B) = Cardinality(A) + Cardinality(B)
    <3>1. Cardinality(A \cup B) = Cardinality(A) + Cardinality(B) - Cardinality(A \cap B)
      BY <2>3, FS_Union
    <3>2. Cardinality(A) \in Nat /\ Cardinality(B) \in Nat
      BY <2>3, FS_CardinalityType
    <3>3. Cardinality(A \cap B) = 0
      BY <2>2, FS_EmptySet
    <3> HIDE DEF A, B
    <3>4. QED
      BY <3>1, <3>2, <3>3
  <2>5. count[s] = Cardinality(A \cup B)
    BY <2>2
  <2>6. tally[x] = Cardinality(A) /\ count[s \ {x}] = Cardinality(B)
    BY <2>1
  <2>7. QED
    BY <2>1, <2>4, <2>5, <2>6 DEF x
<1>3. count[{}] = 0
  <2>1. {r \in R : key[r] \in {}} = {}
    OBVIOUS
  <2>2. QED
    BY <2>1, FS_EmptySet
<1>4. count = [s \in SUBSET D |-> Sum(count, s)]
  <2>1. \A s \in SUBSET D : count[s] = Sum(count, s)
    BY <1>2, <1>3
  <2>2. count = [s \in SUBSET D |-> count[s]]
    OBVIOUS
  <2> HIDE DEF count, Sum
  <2>3. QED
    BY <2>1, <2>2
<1>5. it = [s \in SUBSET D |-> Sum(it, s)]
  <2> HIDE DEF count, Sum
  <2>1. QED
    BY <1>4
<1>6. it[D] = count[D]
  <2> HIDE DEF it, count, Pick
  <2> DEFINE Wrong == {s \in SUBSET D : it[s] # count[s]}
  <2>1. SUFFICES ASSUME Wrong # {} PROVE FALSE
    OBVIOUS
  <2>2. FiniteSubsetsOf(D) = SUBSET D
    BY FS_FiniteSubsetsOfFinite
  <2>3. IsWellFoundedOn(StrictSubsetOrdering(D), FiniteSubsetsOf(D))
    BY FS_StrictSubsetOrderingWellFounded
  <2>4. PICK s \in Wrong : \A w \in Wrong : ~(<<w, s>> \in StrictSubsetOrdering(D))
    <3> HIDE DEF Wrong
    <3>1. Wrong \subseteq FiniteSubsetsOf(D)
      BY <2>2 DEF Wrong
    <3>2. QED
      BY <2>1, <2>3, <3>1, WFMin
  <2>5. s # {}
    <3>1. {} \in SUBSET D
      OBVIOUS
    <3>2. it[{}] = 0
      BY <1>5, <3>1
    <3>3. QED
      BY <3>2, <1>3
  <2>6. Pick(s) \in s /\ s \in SUBSET D
    BY <1>2, <2>5
  <2>7. s \ {Pick(s)} \notin Wrong
    <3>1. <<s \ {Pick(s)}, s>> \in StrictSubsetOrdering(D)
      BY <2>6 DEF StrictSubsetOrdering
    <3>2. QED
      BY <2>4, <3>1
  <2>8. it[s \ {Pick(s)}] = count[s \ {Pick(s)}]
    BY <2>6, <2>7
  <2>9. it[s] = tally[Pick(s)] + it[s \ {Pick(s)}]
    BY <1>5, <2>5, <2>6
  <2>10. QED
    BY <1>2, <2>5, <2>6, <2>8, <2>9
<1>7. {r \in R : key[r] \in D} = R
  OBVIOUS
<1>8. QED
  BY <1>1, <1>6, <1>7

Shown(c) == Null \notin {c.restaurant_name, c.restaurant_url, c.road_address}

\* parse_diary_analysis keeps items of the result that can be shown; the first one
\* stays first.
LEMMA ParseKeeps ==
    ASSUME NEW S, NEW result \in Seq(S)
    PROVE  LET parsed == ParseDiaryAnalysis(result)
           IN  /\ parsed \in Seq(S)
               /\ \A c \in Range(parsed) : Shown(c)
               /\ result # <<>> /\ Shown(result[1]) => parsed # <<>> /\ parsed[1] = result[1]
<1> DEFINE n == Len(result)
           V == Seq(S)
           Keep(kept, c) == IF Shown(c) THEN Append(kept, c) ELSE kept
           step == [x \in (1 .. n) \X V |-> Keep(x[2], result[x[1]])]
           At(g, w) == IF w = {} THEN <<>> ELSE Keep(g[w \ {Max(w)}], result[Max(w)])
           it == CHOOSE g : g = [w \in SUBSET (1 .. n) |-> At(g, w)]
<1>1. n \in Nat /\ DOMAIN result = 1 .. n /\ \A i \in 1 .. n : result[i] \in S
  OBVIOUS
<1>2. ParseDiaryAnalysis(result) = it[1 .. n]
  BY <1>1 DEF ParseDiaryAnalysis, FoldLeft, MapThenFoldSet, Shown
<1> HIDE DEF n
<1>3. step \in [(1 .. n) \X V -> V]
  <2>1. ASSUME NEW i \in 1 .. n, NEW kept \in V PROVE Keep(kept, result[i]) \in V
    BY <1>1
  <2>2. ASSUME NEW x \in (1 .. n) \X V PROVE step[x] \in V
    <3>1. x[1] \in 1 .. n /\ x[2] \in V
      OBVIOUS
    <3> HIDE DEF Keep, V
    <3>2. QED
      BY <2>1, <3>1
  <2> HIDE DEF Keep, V
  <2>3. QED
    BY <2>2
<1>4. <<>> \in V
  OBVIOUS
<1>5. PICK g : IsFold(g, n, V, <<>>, step)
  <2>1. n \in Nat
    BY <1>1
  <2> HIDE DEF step, V
  <2>2. QED
    BY <2>1, <1>3, <1>4, FoldExists
<1>6. g = [w \in SUBSET (1 .. n) |-> At(g, w)]
  <2>1. ASSUME NEW w \in SUBSET (1 .. n) PROVE g[w] = At(g, w)
    <3>1. CASE w = {}
      BY <3>1, <1>5 DEF IsFold
    <3>2. CASE w # {}
      <4>1. Max(w) \in 1 .. n
        BY <3>2, <1>1, GreatestIndex
      <4>2. g[w \ {Max(w)}] \in V
        BY <1>5 DEF IsFold
      <4>3. g[w] = step[<<Max(w), g[w \ {Max(w)}]>>]
        BY <3>2, <1>5 DEF IsFold
      <4> HIDE DEF Keep, V
      <4>4. QED
        BY <3>2, <4>1, <4>2, <4>3
    <3>3. QED
      BY <3>1, <3>2
  <2>2. g = [w \in SUBSET (1 .. n) |-> g[w]]
    BY <1>5 DEF IsFold
  <2> HIDE DEF At
  <2>3. QED
    BY <2>1, <2>2
<1>7. it = [w \in SUBSET (1 .. n) |-> At(it, w)]
  <2> HIDE DEF At
  <2>1. QED
    BY <1>6
<1> DEFINE Good(k) ==
        /\ it[1 .. k] \in V
        /\ \A c \in Range(it[1 .. k]) : Shown(c)
        /\ k # 0 /\ Shown(result[1]) => it[1 .. k] # <<>> /\ it[1 .. k][1] = result[1]
<1>8. Good(0)
  <2>1. 1 .. 0 = {} /\ {} \in SUBSET (1 .. n)
    OBVIOUS
  <2>2. it[1 .. 0] = <<>>
    BY <2>1, <1>7
  <2> HIDE DEF it
  <2>3. QED
    BY <2>2 DEF Range
<1>9. ASSUME NEW k \in 1 .. n, Good(k - 1) PROVE Good(k)
  <2>1. 1 .. k \in SUBSET (1 .. n) /\ 1 .. k # {} /\ (1 .. k) \ {k} = 1 .. k - 1
    <3> HIDE DEF it
    <3>1. QED
      BY <1>1, PrefixLast
  <2>2. Max(1 .. k) = k
    <3> HIDE DEF it
    <3>1. QED
      BY <1>1, PrefixLast
  <2>3. it[1 .. k] = Keep(it[1 .. k - 1], result[k])
    BY <1>7, <2>1, <2>2
  <2> DEFINE old == it[1 .. k - 1]
  <2>4. old \in V /\ \A c \in Range(old) : Shown(c)
    BY <1>9
  <2>5. k # 1 /\ Shown(result[1]) => old # <<>> /\ old[1] = result[1]
    BY <1>9
  <2>6. k = 1 => old = <<>>
    <3>1. {} \in SUBSET (1 .. n) /\ 1 .. 0 = {} /\ 1 - 1 = 0
      OBVIOUS
    <3>2. it[{}] = <<>>
      BY <3>1, <1>7
    <3>3. QED
      BY <3>1, <3>2
  <2>7. result[k] \in S
    BY <1>1
  <2> HIDE DEF it, old
  <2>8. CASE Shown(result[k])
    <3>1. it[1 .. k] = Append(old, result[k])
      BY <2>8, <2>3 DEF old
    <3>2. Append(old, result[k]) \in V
      BY <2>4, <2>7
    <3>3. \A c \in Range(Append(old, result[k])) : c \in Range(old) \/ c = result[k]
      BY <2>4, <2>7 DEF Range
    <3>4. CASE k = 1
      <4>1. Append(old, result[k]) # <<>> /\ Append(old, result[k])[1] = result[1]
        <5>1. Append(<<>>, result[1]) = <<result[1]>>
          BY <3>4, <2>7
        <5>2. old = <<>>
          BY <3>4, <2>6
        <5>3. result[k] = result[1]
          BY <3>4
        <5>4. Append(old, result[k]) = <<result[1]>>
          BY <5>1, <5>2, <5>3
        <5>5. <<result[1]>> # <<>> /\ <<result[1]>>[1] = result[1]
          OBVIOUS
        <5>6. QED
          BY <5>4, <5>5
      <4>2. QED
        BY <4>1, <3>1, <3>2, <3>3, <2>4, <2>8
    <3>5. CASE k # 1
      <4>1. Shown(result[1]) => Append(old, result[k])[1] = old[1] /\ Append(old, result[k]) # <<>>
        BY <3>5, <2>4, <2>5, <2>7
      <4>2. QED
        BY <4>1, <3>1, <3>2, <3>3, <3>5, <2>4, <2>5, <2>8
    <3>6. QED
      BY <3>4, <3>5
  <2>9. CASE ~Shown(result[k])
    <3>1. it[1 .. k] = old
      BY <2>9, <2>3 DEF old
    <3>2. QED
      BY <3>1, <2>4, <2>5, <2>9
  <2>10. QED
    BY <2>8, <2>9
<1>10. Good(n)
  <2> HIDE DEF Good
  <2> DEFINE G == {k \in 0 .. n : Good(k)}
  <2>1. 0 \in G /\ n \in 0 .. n
    BY <1>1, <1>8
  <2>2. \A k \in 1 .. n : k - 1 \in G => k \in G
    BY <1>1, <1>9
  <2>3. n \in G
    <3> HIDE DEF G
    <3>1. QED
      BY <1>1, <2>1, <2>2, UpTo
  <2>4. QED
    BY <2>3
<1>11. n # 0 <=> result # <<>>
  BY <1>1 DEF n
<1>12. QED
  BY <1>2, <1>10, <1>11
-----------------------------------------------------------------------------
\* What a write leaves as it is.

\* A row that is written anew, or the next one, keeps the ids without gaps.
LEMMA RowReplaced ==
    ASSUME NEW D, IsFiniteSet(D), Keyed(D), Ids(D) = 1 .. Cardinality(D),
           NEW d, NEW new, new.id = d.id,
           d \in D \/ d.id = Cardinality(D) + 1,
           NEW E, E = (D \ {d}) \cup {new}
    PROVE  /\ IsFiniteSet(E) /\ Keyed(E) /\ Ids(E) = 1 .. Cardinality(E)
           /\ \A x \in E : x = new \/ (x \in D /\ x.id # new.id)
<1>1. Cardinality(D) \in Nat
  BY FS_CardinalityType
<1>2. ASSUME NEW x \in D PROVE x.id \in 1 .. Cardinality(D)
  BY DEF Ids
<1>3. ASSUME NEW x \in D \ {d} PROVE x.id # new.id
  BY <1>1, <1>2 DEF Keyed
<1>4. Keyed(E)
  BY <1>3 DEF Keyed
<1>5. IsFiniteSet(D \ {d}) /\ IsFiniteSet(E)
  BY FS_RemoveElement, FS_AddElement
<1>6. new \notin D \ {d}
  BY <1>3
<1>7. CASE d \in D
  <2>1. Cardinality(D \ {d}) = Cardinality(D) - 1
    BY <1>7, FS_RemoveElement
  <2>2. Cardinality(E) = Cardinality(D \ {d}) + 1
    BY <1>5, <1>6, FS_AddElement
  <2>3. Cardinality(E) = Cardinality(D)
    BY <1>1, <2>1, <2>2
  <2>4. Ids(E) = Ids(D)
    BY <1>7 DEF Ids
  <2>5. QED
    BY <1>3, <1>4, <1>5, <2>3, <2>4
<1>8. CASE d \notin D
  <2>1. d.id = Cardinality(D) + 1 /\ E = D \cup {new}
    BY <1>8
  <2>2. new \notin D
    BY <1>6, <1>8
  <2>3. Cardinality(E) = Cardinality(D) + 1
    BY <2>1, <2>2, FS_AddElement
  <2>4. Ids(E) = Ids(D) \cup {Cardinality(D) + 1}
    BY <2>1 DEF Ids
  <2>5. Ids(E) = 1 .. Cardinality(E)
    <3>1. \A c \in Nat : (1 .. c) \cup {c + 1} = 1 .. c + 1
      OBVIOUS
    <3>2. Ids(E) = (1 .. Cardinality(D)) \cup {Cardinality(D) + 1}
      BY <2>4
    <3>3. QED
      BY <1>1, <2>3, <3>1, <3>2
  <2>6. QED
    BY <1>3, <1>4, <1>5, <2>5
<1>9. QED
  BY <1>7, <1>8

\* No diary is lost or moved, and ids are only given out.
Heirs ==
    /\ photo_seq \in Nat /\ photo_seq' \in Nat /\ photo_seq <= photo_seq'
    /\ \A x \in diaries : \E y \in diaries' :
          y.id = x.id /\ y.day = x.day /\ y.time_type = x.time_type

LEMMA PhotoStays == ASSUME Heirs, NEW p, PhotoFact(p) PROVE PhotoFact(p)'
<1>1. p.id \in 1 .. photo_seq'
  BY DEF Heirs, PhotoFact
<1>2. QED
  BY <1>1 DEF Heirs, PhotoFact

LEMMA DiaryStays == ASSUME Heirs, NEW d, DiaryFact(d) PROVE DiaryFact(d)'
<1>1. d.cover_photo_id \in (1 .. photo_seq') \cup {Null} /\ d.photo_count \in 0 .. photo_seq'
  BY DEF Heirs, DiaryFact
<1>2. QED
  BY <1>1 DEF DiaryFact

\* A write that commits during a read leaves it what it has read.
LEMMA ReadStays ==
    ASSUME Inv, Heirs, Meanwhile
    PROVE  /\ ReadColumns' /\ ReadFact'
           /\ read'.rows = read.rows /\ read'.covers = read.covers
<1>1. ReadColumns /\ ReadFact
  BY DEF Inv
<1>2. CASE UNCHANGED read
  <2>1. ASSUME NEW d, RowFact(d) PROVE RowFact(d)'
    BY <2>1, DiaryStays DEF RowFact, Heirs
  <2>2. \A d \in read'.asked \cup read'.previous : RowFact(d)'
    BY <1>1, <1>2, <2>1 DEF ReadFact
  <2>3. ReadColumns'
    BY <1>1, <1>2 DEF ReadColumns
  <2>4. ReadFact'
    BY <1>1, <1>2, <2>2 DEF ReadFact, InMonth
  <2>5. QED
    BY <1>2, <2>3, <2>4
<1>3. CASE read.writes < MaxWrites /\ read' = [read EXCEPT !.writes = @ + 1]
  <2>1. ASSUME NEW d, RowFact(d) PROVE RowFact(d)'
    BY <2>1, DiaryStays DEF RowFact, Heirs
  <2>2. /\ read'.kind = read.kind /\ read'.asked = read.asked /\ read'.start = read.start
        /\ read'.end = read.end /\ read'.month = read.month /\ read'.rows = read.rows
        /\ read'.photos = read.photos /\ read'.covers = read.covers
        /\ read'.previous = read.previous /\ read'.todo = read.todo
        /\ read'.writes = read.writes + 1
    BY <1>1, <1>3 DEF ReadColumns
  <2>3. read' = [kind |-> read.kind, asked |-> read.asked, start |-> read.start, end |-> read.end,
                 month |-> read.month, rows |-> read.rows, photos |-> read.photos,
                 covers |-> read.covers, previous |-> read.previous, todo |-> read.todo,
                 writes |-> read.writes + 1]
    BY <1>1, <1>3 DEF ReadColumns
  <2>4. read.writes + 1 \in 0 .. MaxWrites
    BY <1>1, <1>3, ReadsAssumption DEF ReadColumns
  <2>5. ReadColumns'
    BY <1>1, <2>2, <2>3, <2>4 DEF ReadColumns
  <2>6. \A d \in read'.asked \cup read'.previous : RowFact(d)'
    BY <1>1, <2>1, <2>2 DEF ReadFact
  <2>7. ReadFact'
    BY <1>1, <2>2, <2>6 DEF ReadFact, InMonth
  <2>8. QED
    BY <2>2, <2>5, <2>7
<1>4. QED
  BY <1>2, <1>3 DEF Meanwhile

\* The restaurant of one diary, as UneditedShowsFirstSuggestion has it.
Suggested(i) == IF i \in DOMAIN analysis THEN ParseDiaryAnalysis(analysis[i]) ELSE <<>>

SamePlace(c, d) ==
    /\ c.restaurant_name = d.restaurant_name /\ c.restaurant_url = d.restaurant_url
    /\ c.road_address = d.road_address

ShownFact(d) ==
    ~d.edited /\ Shown(d) => Suggested(d.id) # <<>> /\ SamePlace(Suggested(d.id)[1], d)

AllShown == \A d \in diaries : ShownFact(d)

LEMMA ShownPointwise == UneditedShowsFirstSuggestion <=> AllShown
<1> DEFINE Columns(d) == <<d.restaurant_name, d.restaurant_url, d.road_address>>
           Is(c, d) == Columns(c) = Columns(d)
           Body(d) == ~d.edited /\ Null \notin Range(Columns(d)) =>
                          Suggested(d.id) # <<>> /\ Is(Suggested(d.id)[1], d)
<1>1. \A d : Null \notin Range(Columns(d)) <=> Shown(d)
  BY DEF Shown, Range
<1>2. \A c, d : Is(c, d) <=> SamePlace(c, d)
  BY DEF SamePlace
<1>3. UneditedShowsFirstSuggestion <=> \A d \in diaries : Body(d)
  BY DEF UneditedShowsFirstSuggestion, Suggested
<1> HIDE DEF Columns, Is
<1>4. \A d : Body(d) <=> ShownFact(d)
  BY <1>1, <1>2 DEF ShownFact
<1> HIDE DEF Body
<1>5. QED
  BY <1>3, <1>4 DEF AllShown

\* What a write does to a diary d that is there or the next one: it is new
\* afterwards.  A photo that comes is one of new and has the next id.
Written(d, new) ==
    /\ d \in diaries \/ d.id = Cardinality(diaries) + 1
    /\ new.id = d.id /\ new.day = d.day /\ new.time_type = d.time_type
    /\ diaries' = (diaries \ {d}) \cup {new}
    /\ photo_seq' \in {photo_seq, photo_seq + 1} /\ photo_seq' <= MaxPhotoIds
    /\ \A p, q \in photos' \ photos : p = q
    /\ \A p \in photos' \ photos :
          photo_seq' = photo_seq + 1 /\ p.id = photo_seq' /\ p.diary_id = new.id
    /\ Meanwhile

LEMMA WriteKeeps ==
    ASSUME Inv, NEW d, NEW new, Written(d, new), DiaryFact(new)',
           \A p \in photos' \ photos : PhotoFact(p)',
           \A p \in photos' \cup read.covers : p.id = new.cover_photo_id => p.diary_id = new.id
    PROVE  Tables' /\ CoverFact' /\ ReadColumns' /\ ReadFact'
<1>1. Tables /\ CoverFact
  BY DEF Inv
<1>2. /\ IsFiniteSet(diaries') /\ Keyed(diaries') /\ Ids(diaries') = 1 .. Cardinality(diaries')
      /\ \A x \in diaries' : x = new \/ (x \in diaries /\ x.id # new.id)
  BY <1>1, RowReplaced DEF Written, Tables
<1>3. photo_seq \in Nat /\ photo_seq' \in Nat /\ photo_seq <= photo_seq'
  BY <1>1, ReadsAssumption DEF Written, Tables
<1>4. Heirs
  BY <1>3 DEF Written, Heirs
<1>5. ReadColumns' /\ ReadFact' /\ read'.rows = read.rows /\ read'.covers = read.covers
  BY <1>4, ReadStays DEF Written
<1>6. \A x \in diaries' : DiaryFact(x)'
  BY <1>1, <1>2, <1>4, DiaryStays DEF Tables
<1>7. \A p \in photos' \cup read.covers : PhotoFact(p)'
  BY <1>1, <1>4, PhotoStays DEF Tables
<1>8. \A p \in photos \cup read.covers : p.id \in 1 .. photo_seq
  BY <1>1 DEF Tables, PhotoFact
<1>9. Keyed(photos' \cup read.covers)
  BY <1>1, <1>3, <1>8 DEF Tables, Keyed, Written
<1>10. Tables'
  <2>1. photo_seq' \in 0 .. MaxPhotoIds
    BY <1>3, ReadsAssumption DEF Written
  <2>2. Ids(diaries)' = 1 .. Cardinality(diaries)' /\ Keyed(diaries)' /\ IsFiniteSet(diaries)'
    BY <1>2 DEF Ids, Keyed
  <2>3. Keyed(photos \cup read.covers)'
    BY <1>5, <1>9 DEF Keyed
  <2>4. QED
    BY <1>5, <1>6, <1>7, <2>1, <2>2, <2>3 DEF Tables
<1>11. CoverFact'
  <2> SUFFICES ASSUME NEW x \in diaries' \cup read.rows, NEW p \in photos' \cup read.covers,
                      p.id = x.cover_photo_id
               PROVE  p.diary_id = x.id
    BY <1>5 DEF CoverFact
  <2>1. CASE x = new
    BY <2>1
  <2>2. CASE x # new
    <3>1. x \in diaries \cup read.rows
      BY <1>2, <2>2
    <3>2. DiaryFact(x)
      BY <1>1, <3>1 DEF Tables, Inv, ReadFact, RowFact
    <3>3. x.cover_photo_id \in (1 .. photo_seq) \cup {Null}
      BY <3>2 DEF DiaryFact
    <3>4. p \in photos \cup read.covers
      BY <1>3, <3>3, ReadsAssumption DEF Written
    <3>5. QED
      BY <1>1, <3>1, <3>4 DEF CoverFact
  <2>3. QED
    BY <2>1, <2>2
<1>12. QED
  BY <1>5, <1>10, <1>11
-----------------------------------------------------------------------------
\* The writes, one by one.

\* Where no analysis is saved, the restaurants of the other diaries stay, and what
\* is kept of analyses.
LEMMA AnalysisStays ==
    ASSUME Inv, UNCHANGED analysis
    PROVE  AnalysisFact' /\ \A x : ShownFact(x)' <=> ShownFact(x)
<1>1. AnalysisFact'
  BY DEF Inv, AnalysisFact
<1>2. \A i : Suggested(i)' = Suggested(i)
  BY DEF Suggested
<1>3. QED
  BY <1>1, <1>2 DEF ShownFact

\* A diary whose restaurant is as it was.
SameRestaurant(new, d) ==
    /\ new.id = d.id /\ new.edited = d.edited /\ new.restaurant_name = d.restaurant_name
    /\ new.restaurant_url = d.restaurant_url /\ new.road_address = d.road_address

LEMMA PlainWrite ==
    ASSUME Inv, NEW d, NEW new, Written(d, new), DiaryFact(new)', UNCHANGED analysis,
           \A p \in photos' \ photos : PhotoFact(p)',
           \A p \in photos' \cup read.covers : p.id = new.cover_photo_id => p.diary_id = new.id,
           ShownFact(new)
    PROVE  Inv'
<1>1. Tables' /\ CoverFact' /\ ReadColumns' /\ ReadFact'
  BY WriteKeeps
<1>2. AnalysisFact' /\ \A x : ShownFact(x)' <=> ShownFact(x)
  BY AnalysisStays
<1>3. \A x \in diaries : ShownFact(x)
  BY ShownPointwise DEF Inv, AllShown
<1>4. \A x \in diaries' : ShownFact(x)'
  BY <1>2, <1>3 DEF Written
<1>5. UneditedShowsFirstSuggestion'
  <2>1. (UneditedShowsFirstSuggestion <=> AllShown)'
    BY ShownPointwise, PTL
  <2>2. QED
    BY <1>4, <2>1 DEF AllShown
<1>6. QED
  BY <1>1, <1>2, <1>5 DEF Inv

LEMMA SameRestaurantShown == ASSUME NEW d, NEW new, ShownFact(d), SameRestaurant(new, d) PROVE ShownFact(new)
<1>1. \A c : SamePlace(c, new) <=> SamePlace(c, d)
  BY DEF SamePlace, SameRestaurant
<1>2. Shown(new) <=> Shown(d)
  BY DEF Shown, SameRestaurant
<1>3. QED
  BY <1>1, <1>2 DEF ShownFact, SameRestaurant

\* A new photo of d: new counts one more, and has the photo or the old cover for
\* its cover.
LEMMA StoreKeeps ==
    ASSUME Inv, NEW d, NEW new, NEW taken_at, NEW located, Store(d, new, taken_at, located),
           d \in diaries \/ (d.id = Cardinality(diaries) + 1 /\ Cardinality(diaries) < MaxDiaries),
           DiaryFact(d), ShownFact(d), DiaryColumns(new), SameRestaurant(new, d),
           new.day = d.day, new.diary_date = d.diary_date, new.time_type = d.time_type,
           new.deleted = d.deleted, new.category = d.category,
           new.photo_count = d.photo_count + 1,
           new.cover_photo_id = d.cover_photo_id \/ new.cover_photo_id = photo_seq + 1,
           new.cover_photo_id = d.cover_photo_id => d \in diaries \/ d.cover_photo_id = Null,
           taken_at \in Int \cup {Null}, taken_at # Null => d.time_type = ClassifyTimeType(taken_at)
    PROVE  Inv'
<1> PICK np : np = [id |-> photo_seq + 1, diary_id |-> d.id, taken_at |-> taken_at, located |-> located]
  OBVIOUS
<1>1. photos' = photos \cup {np} /\ diaries' = (diaries \ {d}) \cup {new} /\ Meanwhile
      /\ photo_seq < MaxPhotoIds /\ photo_seq' = photo_seq + 1 /\ UNCHANGED analysis
  BY DEF Store
<1>2. np.id = photo_seq + 1 /\ np.diary_id = d.id /\ np.taken_at = taken_at /\ PhotoColumns(np)
  BY DEF PhotoColumns
<1>3. photo_seq \in Nat /\ MaxPhotoIds \in Nat
  BY ReadsAssumption DEF Inv, Tables
<1>4. Written(d, new)
  BY <1>1, <1>2, <1>3 DEF Written, SameRestaurant
<1>5. DiaryFact(new)'
  <2>1. new.cover_photo_id \in (1 .. photo_seq') \cup {Null}
    BY <1>1, <1>3 DEF DiaryFact
  <2>2. new.photo_count \in 0 .. photo_seq'
    BY <1>1, <1>3 DEF DiaryFact
  <2>3. QED
    BY <2>1, <2>2 DEF DiaryFact, SameRestaurant
<1>6. PhotoFact(np)'
  <2>1. new \in diaries'
    BY <1>1
  <2>2. np.id \in 1 .. photo_seq'
    BY <1>1, <1>2, <1>3
  <2>3. QED
    BY <1>2, <2>1, <2>2 DEF PhotoFact, SameRestaurant
<1>7. ASSUME NEW p \in photos' \cup read.covers, p.id = new.cover_photo_id
      PROVE  p.diary_id = new.id
  <2>1. \A q \in photos \cup read.covers : q.id \in 1 .. photo_seq
    BY DEF Inv, Tables, PhotoFact
  <2>2. CASE p = np
    BY <2>2, <1>2 DEF SameRestaurant
  <2>3. CASE p \in photos \cup read.covers
    <3>1. p.id # Null /\ p.id # photo_seq + 1
      BY <2>1, <2>3, <1>3, ReadsAssumption
    <3>2. d \in diaries /\ p.id = d.cover_photo_id
      BY <1>7, <3>1
    <3>3. QED
      BY <2>3, <3>2 DEF Inv, CoverFact, SameRestaurant
  <2>4. QED
    BY <1>1, <2>2, <2>3
<1>8. ShownFact(new)
  BY SameRestaurantShown
<1>9. \A p \in photos' \ photos : PhotoFact(p)'
  BY <1>1, <1>6
<1>10. QED
  BY <1>1, <1>4, <1>5, <1>7, <1>8, <1>9, PlainWrite

\* Time in Korea is read as UTC, and a meal is given to every picture.
LEMMA TakenAtType == ASSUME NEW picture \in Pictures PROVE TakenAt(picture) \in Int \cup {Null}
BY ReadsAssumption DEF TakenAt, KstNaiveToUtc, KstOffset

LEMMA NewDiaryFact ==
    ASSUME Inv, NEW day \in FiledDays, NEW meal \in Meals, Cardinality(diaries) < MaxDiaries,
           NEW d, d = NewDiary(day, meal)
    PROVE  /\ DiaryFact(d) /\ ShownFact(d)
           /\ d.id = Cardinality(diaries) + 1 /\ d.time_type = meal /\ d.cover_photo_id = Null
<1>1. Cardinality(diaries) \in Nat /\ photo_seq \in Nat /\ MaxDiaries \in Nat
  BY FS_CardinalityType, ReadsAssumption DEF Inv, Tables
<1>2. /\ d.id = Cardinality(diaries) + 1 /\ d.day = day /\ d.diary_date = KstDateToUtc(day)
      /\ d.time_type = meal /\ d.deleted = FALSE /\ d.cover_photo_id = Null /\ d.photo_count = 0
      /\ d.restaurant_name = Null /\ d.category = Null /\ d.edited = FALSE
      /\ DiaryColumns(d)
  BY DEF NewDiary, DiaryColumns
<1>3. d.id \in Id
  BY <1>1, <1>2 DEF Id
<1>4. DiaryFact(d)
  <2>1. d.deleted \in BOOLEAN /\ d.edited \in BOOLEAN
    BY <1>2
  <2>2. d.category \in Categories \cup {Null} /\ d.cover_photo_id \in (1 .. photo_seq) \cup {Null}
    BY <1>2
  <2>3. 0 \in 0 .. photo_seq
    BY <1>1
  <2>4. d.photo_count \in 0 .. photo_seq
    BY <1>2, <2>3
  <2>5. QED
    BY <1>2, <1>3, <2>1, <2>2, <2>4 DEF DiaryFact
<1>5. ShownFact(d)
  BY <1>2 DEF ShownFact, Shown
<1>6. QED
  BY <1>2, <1>4, <1>5

\* An upload puts the photo into a diary of its meal; the first photo is the cover.
LEMMA UploadKeeps ==
    ASSUME Inv, NEW day \in FiledDays, NEW picture \in Pictures, Upload(day, picture)
    PROVE  Inv'
<1> PICK meal : meal = ClassifyTimeType(TakenAt(picture))
  OBVIOUS
<1> DEFINE found == {x \in Live : x.time_type = meal /\ x.diary_date = KstDateToUtc(day)}
<1>1. PICK d \in IF found # {} THEN found ELSE {NewDiary(day, meal)} :
          Store(d, [d EXCEPT !.photo_count = @ + 1,
                             !.cover_photo_id = IF @ = Null THEN photo_seq + 1 ELSE @],
                TakenAt(picture), Located(picture))
  BY DEF Upload
<1> PICK new : new = [d EXCEPT !.photo_count = @ + 1,
                               !.cover_photo_id = IF @ = Null THEN photo_seq + 1 ELSE @]
  OBVIOUS
<1>2. found # {} \/ Cardinality(diaries) < MaxDiaries
  BY DEF Upload
<1>3. meal \in Meals
  BY MealType
<1>4. /\ DiaryFact(d) /\ ShownFact(d) /\ d.time_type = meal
      /\ d \in diaries \/ (d.id = Cardinality(diaries) + 1 /\ Cardinality(diaries) < MaxDiaries)
      /\ d \in diaries \/ d.cover_photo_id = Null
  <2>1. CASE found # {}
    <3>1. d \in diaries /\ d.time_type = meal
      BY <1>1, <2>1 DEF Live
    <3>2. DiaryFact(d) /\ ShownFact(d)
      BY <3>1, ShownPointwise DEF Inv, Tables, AllShown
    <3>3. QED
      BY <3>1, <3>2
  <2>2. CASE found = {}
    <3>1. d = NewDiary(day, meal) /\ Cardinality(diaries) < MaxDiaries
      BY <1>1, <1>2, <2>2
    <3>2. QED
      BY <3>1, <1>3, NewDiaryFact
  <2>3. QED
    BY <2>1, <2>2
<1>5. DiaryColumns(d)
  BY <1>4 DEF DiaryFact
<1>6. /\ DiaryColumns(new) /\ SameRestaurant(new, d)
      /\ new.day = d.day /\ new.diary_date = d.diary_date /\ new.time_type = d.time_type
      /\ new.deleted = d.deleted /\ new.category = d.category
      /\ new.photo_count = d.photo_count + 1
      /\ new.cover_photo_id = IF d.cover_photo_id = Null THEN photo_seq + 1 ELSE d.cover_photo_id
  BY <1>5 DEF DiaryColumns, SameRestaurant
<1>7. PICK taken_at : taken_at = TakenAt(picture)
  OBVIOUS
<1>8. PICK located : located = Located(picture)
  OBVIOUS
<1>9. Store(d, new, taken_at, located)
  BY <1>1, <1>7, <1>8
<1>10. taken_at \in Int \cup {Null} /\ (taken_at # Null => d.time_type = ClassifyTimeType(taken_at))
  BY <1>4, <1>7, TakenAtType
<1>11. QED
  BY <1>4, <1>6, <1>9, <1>10, StoreKeeps

\* A diary that is there.
LEMMA LiveFact == ASSUME Inv, NEW d \in diaries PROVE DiaryFact(d) /\ ShownFact(d) /\ DiaryColumns(d)
BY ShownPointwise DEF Inv, Tables, DiaryFact, AllShown

\* A photo that is added later says nothing about the time, and is no cover.
LEMMA AddPhotoKeeps == ASSUME Inv, NEW d \in Live, AddPhoto(d) PROVE Inv'
<1> PICK new : new = [d EXCEPT !.photo_count = @ + 1]
  OBVIOUS
<1>1. d \in diaries
  BY DEF Live
<1>2. DiaryFact(d) /\ ShownFact(d) /\ DiaryColumns(d)
  BY <1>1, LiveFact
<1>3. /\ DiaryColumns(new) /\ SameRestaurant(new, d)
      /\ new.day = d.day /\ new.diary_date = d.diary_date /\ new.time_type = d.time_type
      /\ new.deleted = d.deleted /\ new.category = d.category
      /\ new.photo_count = d.photo_count + 1 /\ new.cover_photo_id = d.cover_photo_id
  BY <1>2 DEF DiaryColumns, SameRestaurant
<1>4. Store(d, new, Null, FALSE)
  BY DEF AddPhoto
<1>5. QED
  BY <1>1, <1>2, <1>3, <1>4, StoreKeeps

\* A deleted diary has no cover; what reads have loaded of it stays.
LEMMA DeleteKeeps == ASSUME Inv, NEW d \in Live, Delete(d) PROVE Inv'
<1> PICK new : new = [d EXCEPT !.deleted = TRUE, !.cover_photo_id = Null]
  OBVIOUS
<1>1. d \in diaries /\ photo_seq \in 0 .. MaxPhotoIds
  BY DEF Live, Inv, Tables
<1>2. DiaryFact(d) /\ ShownFact(d) /\ DiaryColumns(d)
  BY <1>1, LiveFact
<1>3. /\ DiaryColumns(new) /\ SameRestaurant(new, d)
      /\ new.day = d.day /\ new.diary_date = d.diary_date /\ new.time_type = d.time_type
      /\ new.deleted = TRUE /\ new.category = d.category
      /\ new.photo_count = d.photo_count /\ new.cover_photo_id = Null
  BY <1>2 DEF DiaryColumns, SameRestaurant
<1>4. /\ diaries' = (diaries \ {d}) \cup {new} /\ photos' \subseteq photos
      /\ Meanwhile /\ photo_seq' = photo_seq /\ UNCHANGED analysis
  BY DEF Delete
<1>5. Written(d, new)
  BY <1>1, <1>3, <1>4, ReadsAssumption DEF Written, SameRestaurant
<1>6. DiaryFact(new)'
  BY <1>2, <1>3, <1>4 DEF DiaryFact, SameRestaurant
<1>7. \A p \in photos' \cup read.covers : p.id # new.cover_photo_id
  BY <1>3, <1>4, ReadsAssumption DEF Inv, Tables, PhotoFact
<1>8. ShownFact(new)
  BY <1>2, <1>3, SameRestaurantShown
<1>9. QED
  BY <1>4, <1>5, <1>6, <1>7, <1>8, PlainWrite

\* A category that is sent is one of the six.
LEMMA SentCategory ==
    ASSUME NEW d, NEW body \in Bodies \cup Offered(d), d.category \in Categories \cup {Null}
    PROVE  Sent(body, "category", d.category) \in Categories \cup {Null}
<1>1. CASE body \in Bodies
  BY <1>1, ReadsAssumption DEF Sent, Sends
<1>2. CASE body \in Found
  <2>1. PICK page : body \in SearchByKeyword(page)
    BY <1>2 DEF Found
  <2>2. "category" \notin DOMAIN body
    BY <2>1 DEF SearchByKeyword
  <2>3. QED
    BY <2>2 DEF Sent, Sends
<1>3. CASE body \in Suggestions(d)
  <2>1. "category" \notin DOMAIN body
    BY <1>3 DEF Suggestions
  <2>2. QED
    BY <2>1 DEF Sent, Sends
<1>4. QED
  BY <1>1, <1>2, <1>3 DEF Offered

LEMMA SomeIds == ASSUME NEW n \in Nat, NEW K \in SUBSET (1 .. n) PROVE Cardinality(K) \in 0 .. n
<1>1. IsFiniteSet(1 .. n) /\ Cardinality(1 .. n) = n
  <2>1. IsFiniteSet(1 .. n) /\ Cardinality(1 .. n) = IF 1 > n THEN 0 ELSE n - 1 + 1
    BY FS_Interval
  <2>2. QED
    BY <2>1
<1>2. IsFiniteSet(K) /\ Cardinality(K) <= n
  BY <1>1, FS_Subset
<1>3. Cardinality(K) \in Nat
  BY <1>2, FS_CardinalityType
<1>4. QED
  BY <1>2, <1>3

\* Without a restaurant in the body, the restaurant stays; with one, the diary is no
\* longer unedited.  The photos that stay are photos of the diary, and so is the cover.
LEMMA EditKeeps ==
    ASSUME Inv, NEW d \in Live, NEW body \in Bodies \cup Offered(d),
           NEW keep \in SUBSET Ids(PhotosOf(d)), NEW cover \in keep, Edit(d, body, keep, cover)
    PROVE  Inv'
<1> DEFINE sets == \E field \in {"restaurant_name", "restaurant_url", "road_address"} : Sends(body, field)
<1>1. d \in diaries /\ photo_seq \in Nat /\ photo_seq <= MaxPhotoIds
  BY ReadsAssumption DEF Live, Inv, Tables
<1>2. DiaryFact(d) /\ ShownFact(d) /\ DiaryColumns(d)
  BY <1>1, LiveFact
<1> PICK new : new = [d EXCEPT !.restaurant_name = Sent(body, "restaurant_name", @),
                               !.restaurant_url = Sent(body, "restaurant_url", @),
                               !.road_address = Sent(body, "road_address", @),
                               !.address_name = Sent(body, "address_name", @),
                               !.category = Sent(body, "category", @),
                               !.tags = Sent(body, "tags", @),
                               !.edited = @ \/ sets,
                               !.cover_photo_id = cover, !.photo_count = Cardinality(keep)]
  OBVIOUS
<1>3. /\ diaries' = (diaries \ {d}) \cup {new} /\ photos' \subseteq photos
      /\ Meanwhile /\ photo_seq' = photo_seq /\ UNCHANGED analysis
  BY DEF Edit
<1> HIDE DEF sets
<1>4. /\ DiaryColumns(new) /\ new.id = d.id /\ new.day = d.day /\ new.diary_date = d.diary_date
      /\ new.time_type = d.time_type /\ new.deleted = d.deleted
      /\ new.restaurant_name = Sent(body, "restaurant_name", d.restaurant_name)
      /\ new.restaurant_url = Sent(body, "restaurant_url", d.restaurant_url)
      /\ new.road_address = Sent(body, "road_address", d.road_address)
      /\ new.category = Sent(body, "category", d.category)
      /\ new.edited = (d.edited \/ sets)
      /\ new.photo_count = Cardinality(keep) /\ new.cover_photo_id = cover
  BY <1>2 DEF DiaryColumns
<1>5. new.category \in Categories \cup {Null}
  BY <1>2, <1>4, SentCategory DEF DiaryFact
<1>6. new.edited \in BOOLEAN
  BY <1>4
<1>7. Ids(PhotosOf(d)) \subseteq 1 .. photo_seq
  BY DEF Ids, PhotosOf, Inv, Tables, PhotoFact
<1>8. Cardinality(keep) \in 0 .. photo_seq
  <2>1. keep \in SUBSET (1 .. photo_seq)
    BY <1>7
  <2>2. QED
    BY <1>1, <2>1, SomeIds
<1>9. DiaryFact(new)'
  BY <1>2, <1>3, <1>4, <1>5, <1>6, <1>7, <1>8 DEF DiaryFact
<1>10. Written(d, new)
  <2>1. photo_seq' <= MaxPhotoIds
    BY <1>1, <1>3
  <2>2. QED
    BY <1>1, <1>3, <1>4, <2>1 DEF Written
<1>11. ASSUME NEW p \in photos' \cup read.covers, p.id = new.cover_photo_id
       PROVE  p.diary_id = new.id
  <2>1. PICK q \in photos : q.diary_id = d.id /\ q.id = cover
    BY DEF Ids, PhotosOf
  <2>2. p = q
    BY <1>3, <1>4, <1>11, <2>1 DEF Inv, Tables, Keyed
  <2>3. QED
    BY <1>4, <2>1, <2>2
<1>12. ShownFact(new)
  <2>1. CASE new.edited
    BY <2>1 DEF ShownFact
  <2>2. CASE ~new.edited
    <3>1. ~d.edited /\ ~sets
      BY <1>4, <2>2
    <3>2. SameRestaurant(new, d)
      <4>1. /\ ~Sends(body, "restaurant_name") /\ ~Sends(body, "restaurant_url")
            /\ ~Sends(body, "road_address")
        BY <3>1 DEF sets
      <4>2. new.edited = d.edited
        BY <1>2, <1>6, <2>2, <3>1 DEF DiaryFact
      <4>3. QED
        BY <1>4, <4>1, <4>2 DEF SameRestaurant, Sent
    <3>3. QED
      BY <1>2, <3>2, SameRestaurantShown
  <2>3. QED
    BY <2>1, <2>2
<1>13. QED
  BY <1>3, <1>9, <1>10, <1>11, <1>12, PlainWrite

LEMMA LeastId == ASSUME NEW K \in SUBSET Nat, K # {} PROVE Min(K) \in K
<1>1. PICK m \in K : \A k \in K : ~(<<k, m>> \in OpToRel(<, Nat))
  BY NatLessThanWellFounded, WFMin
<1>2. ASSUME NEW k \in K PROVE m <= k
  <2>1. m \in Nat /\ k \in Nat
    OBVIOUS
  <2>2. <<k, m>> \notin OpToRel(<, Nat)
    BY <1>1
  <2>3. ~(k < m)
    BY <2>1, <2>2 DEF OpToRel
  <2>4. QED
    BY <2>1, <2>3
<1>3. QED
  BY <1>2 DEF Min

\* Whatever comes of an analysis is a list.
LEMMA AnalysisIsList ==
    ASSUME NEW located, NEW pages, NEW reply \in Replies,
           NEW result, result = AnalyzeDiaryPhotos(located, pages, reply)
    PROVE  result \in Seq(Range(result))
<1> PICK items : items = AnalyzeFoodImages(reply)
  OBVIOUS
<1>1. PICK n \in Nat : DOMAIN items = 1 .. n
  <2>1. CASE reply = Null
    <3>1. DOMAIN items = 1 .. 0
      BY <2>1 DEF AnalyzeFoodImages
    <3>2. QED
      BY <3>1
  <2>2. CASE reply # Null
    <3>1. items = reply /\ reply \in Seq(Range(reply))
      BY <2>2, ReadsAssumption DEF AnalyzeFoodImages
    <3>2. Len(items) \in Nat /\ DOMAIN items = 1 .. Len(items)
      BY <3>1
    <3>3. QED
      BY <3>2
  <2>3. QED
    BY <2>1, <2>2
<1>2. DOMAIN result = 1 .. n /\ result = [i \in 1 .. n |-> result[i]]
  BY <1>1 DEF AnalyzeDiaryPhotos
<1>3. \A i \in 1 .. n : result[i] \in Range(result)
  BY <1>2 DEF Range
<1>4. QED
  BY <1>2, <1>3

\* The analysis fills the columns of its diary from its first item and gives it its
\* first photo for a cover; the other diaries keep what they show.
LEMMA SaveKeeps ==
    ASSUME Inv, NEW d \in diaries, NEW result, result \in Seq(Range(result)), result # <<>>,
           SaveAnalysis(d, result)
    PROVE  Inv'
<1> PICK top : top = ExtractTopRestaurant(result)
  OBVIOUS
<1> PICK new : new = Analysed(d, result)
  OBVIOUS
<1>1. /\ result # <<>>
      /\ analysis' = [i \in DOMAIN analysis \cup {d.id} |-> IF i = d.id THEN result ELSE analysis[i]]
      /\ diaries' = (diaries \ {d}) \cup {new}
      /\ Meanwhile /\ photos' = photos /\ photo_seq' = photo_seq
  BY DEF SaveAnalysis
<1>2. DiaryFact(d) /\ DiaryColumns(d) /\ AnalysisFact /\ Tables /\ top = result[1]
  BY LiveFact DEF Inv, ExtractTopRestaurant
<1>3. /\ DiaryColumns(new) /\ new.id = d.id /\ new.day = d.day /\ new.diary_date = d.diary_date
      /\ new.time_type = d.time_type /\ new.deleted = d.deleted /\ new.photo_count = d.photo_count
      /\ SamePlace(top, new) /\ new.category = FromStr(top.category) /\ new.edited = FALSE
      /\ new.cover_photo_id =
            IF PhotosOf(d) = {} THEN d.cover_photo_id ELSE Min(Ids(PhotosOf(d)))
  BY <1>2 DEF Analysed, DiaryColumns, SamePlace
<1>4. PhotosOf(d) = {} \/ \E q \in photos : q.diary_id = d.id /\ q.id = new.cover_photo_id
  <2> SUFFICES ASSUME PhotosOf(d) # {} PROVE \E q \in photos : q.diary_id = d.id /\ q.id = new.cover_photo_id
    OBVIOUS
  <2>1. Ids(PhotosOf(d)) \in SUBSET Nat /\ Ids(PhotosOf(d)) # {}
    BY <1>2 DEF Ids, PhotosOf, Tables, PhotoFact
  <2>2. Min(Ids(PhotosOf(d))) \in Ids(PhotosOf(d))
    BY <2>1, LeastId
  <2>3. QED
    BY <1>3, <2>2 DEF Ids, PhotosOf
<1>5. new.cover_photo_id \in (1 .. photo_seq) \cup {Null}
  BY <1>2, <1>3, <1>4 DEF DiaryFact, Tables, PhotoFact
<1>6. DiaryFact(new)'
  <2>1. new.category \in Categories \cup {Null}
    BY <1>3 DEF FromStr
  <2>2. new.edited \in BOOLEAN
    BY <1>3
  <2>3. QED
    BY <1>1, <1>2, <1>3, <1>5, <2>1, <2>2 DEF DiaryFact
<1>7. Written(d, new)
  <2>1. photo_seq' <= MaxPhotoIds
    <3>1. photo_seq <= MaxPhotoIds
      BY <1>2, ReadsAssumption DEF Tables
    <3>2. QED
      BY <1>1, <3>1
  <2>2. QED
    BY <1>1, <1>3, <2>1 DEF Written
<1>8. ASSUME NEW p \in photos' \cup read.covers, p.id = new.cover_photo_id
      PROVE  p.diary_id = new.id
  <2>1. CASE PhotosOf(d) = {}
    <3>1. p \in photos \cup read.covers /\ p.id = d.cover_photo_id
      BY <1>1, <1>3, <1>8, <2>1
    <3>2. QED
      BY <1>3, <3>1 DEF Inv, CoverFact
  <2>2. CASE PhotosOf(d) # {}
    <3>1. PICK q \in photos : q.diary_id = d.id /\ q.id = new.cover_photo_id
      BY <1>4, <2>2
    <3>2. p = q
      BY <1>1, <1>2, <1>8, <3>1 DEF Tables, Keyed
    <3>3. QED
      BY <1>3, <3>1, <3>2
  <2>3. QED
    BY <2>1, <2>2
<1>9. Tables' /\ CoverFact' /\ ReadColumns' /\ ReadFact'
  BY <1>1, <1>6, <1>7, <1>8, WriteKeeps
<1>10. AnalysisFact'
  <2>1. d.id \in Id
    BY <1>2 DEF DiaryFact
  <2>2. QED
    BY <1>1, <1>2, <2>1 DEF AnalysisFact
<1>11. ASSUME NEW x \in diaries', x # new PROVE ShownFact(x)'
  <2>1. x \in diaries /\ x # d
    BY <1>1, <1>11
  <2>2. x.id # d.id
    BY <1>2, <2>1 DEF Tables, Keyed
  <2>3. ShownFact(x)
    BY <2>1, LiveFact
  <2>4. Suggested(x.id)' = Suggested(x.id)
    BY <1>1, <2>2 DEF Suggested
  <2>5. QED
    BY <2>3, <2>4 DEF ShownFact
<1>12. ShownFact(new)'
  <2>1. Suggested(new.id)' = ParseDiaryAnalysis(result)
    <3>1. new.id = d.id
      BY <1>3
    <3>2. d.id \in DOMAIN analysis' /\ analysis'[d.id] = result
      BY <1>1
    <3>3. QED
      BY <3>1, <3>2 DEF Suggested
  <2>2. Shown(top) => ParseDiaryAnalysis(result) # <<>> /\ ParseDiaryAnalysis(result)[1] = top
    BY <1>1, <1>2, ParseKeeps
  <2>3. Shown(new) => Shown(top)
    BY <1>3 DEF Shown, SamePlace
  <2>4. QED
    BY <1>3, <2>1, <2>2, <2>3 DEF ShownFact
<1>13. UneditedShowsFirstSuggestion'
  <2>1. (UneditedShowsFirstSuggestion <=> AllShown)'
    BY ShownPointwise, PTL
  <2>2. QED
    BY <1>11, <1>12, <2>1 DEF AllShown
<1>14. QED
  BY <1>9, <1>10, <1>13 DEF Inv
-----------------------------------------------------------------------------
\* The reads.  What they load are rows that are there.

LEMMA ReadStep ==
    ASSUME Inv, UNCHANGED <<diaries, photos, photo_seq, analysis>>, ReadColumns', ReadFact',
           read'.rows \subseteq diaries \cup read.rows, read'.covers \subseteq photos \cup read.covers
    PROVE  Inv'
<1>1. \A p : PhotoFact(p)' <=> PhotoFact(p)
  BY DEF PhotoFact
<1>2. \A d : DiaryFact(d)' <=> DiaryFact(d)
  BY DEF DiaryFact
<1>3. Tables'
  <2>1. Keyed(diaries)' /\ Ids(diaries)' = 1 .. Cardinality(diaries)' /\ IsFiniteSet(diaries)'
    BY DEF Inv, Tables, Keyed, Ids
  <2>2. Keyed(photos \cup read.covers)'
    BY DEF Inv, Tables, Keyed
  <2>3. QED
    BY <1>1, <1>2, <2>1, <2>2 DEF Inv, Tables
<1>4. CoverFact'
  BY DEF Inv, CoverFact
<1>5. AnalysisFact' /\ \A x : ShownFact(x)' <=> ShownFact(x)
  BY AnalysisStays
<1>6. UneditedShowsFirstSuggestion'
  <2>1. (UneditedShowsFirstSuggestion <=> AllShown)'
    BY ShownPointwise, PTL
  <2>2. AllShown
    BY ShownPointwise DEF Inv
  <2>3. QED
    BY <1>5, <2>1, <2>2 DEF AllShown
<1>7. QED
  BY <1>3, <1>4, <1>5, <1>6 DEF Inv

LEMMA RowsStay ==
    ASSUME UNCHANGED <<diaries, photos, photo_seq, analysis>>
    PROVE  \A d : RowFact(d)' <=> RowFact(d)
BY DEF RowFact, DiaryFact

\* A set of live diaries, at the moment it is read.
LEMMA LiveRows ==
    ASSUME Inv, NEW S, S \subseteq Live
    PROVE  IsFiniteSet(S) /\ Keyed(S) /\ S \subseteq diaries /\ \A d \in S : RowFact(d)
<1>1. S \subseteq diaries
  BY DEF Live
<1>2. IsFiniteSet(S)
  BY <1>1, FS_Subset DEF Inv, Tables
<1>3. Keyed(S)
  BY <1>1 DEF Inv, Tables, Keyed
<1>4. \A d \in S : RowFact(d)
  BY <1>1, LiveFact DEF RowFact
<1>5. QED
  BY <1>1, <1>2, <1>3, <1>4

\* A diary lies between the midnights that open and close a range of days if and
\* only if it is filed under one of them.
LEMMA InDaysOfRange ==
    ASSUME NEW d, DiaryFact(d), NEW start \in Int, NEW end \in Int
    PROVE  InDays(d, start, end) <=> d.day \in start .. end
<1>1. d.day \in Int /\ d.diary_date = KstDateToUtc(d.day)
  BY ReadsAssumption DEF DiaryFact, Day
<1>2. InDays(d, start, end) <=> start <= d.day /\ d.day < end + 1
  BY <1>1, MidnightsAscend DEF InDays
<1>3. QED
  BY <1>1, <1>2

LEMMA AskRangeKeeps ==
    ASSUME Inv, NEW kind \in {"range", "calendar"}, NEW start \in FiledDays, NEW end \in FiledDays,
           AskRange(kind, start, end)
    PROVE  Inv'
<1>1. /\ read'.kind = kind /\ read'.asked = Live /\ read'.start = start /\ read'.end = end
      /\ read'.month = <<0, 0>> /\ read'.rows = {d \in Live : InDays(d, start, end)}
      /\ read'.photos = {} /\ read'.covers = {} /\ read'.previous = {}
      /\ read'.todo = {"photos", "covers"} /\ read'.writes = 0
      /\ UNCHANGED <<diaries, photos, photo_seq, analysis>>
  BY DEF AskRange, Ask, NoRead
<1>2. ReadColumns'
  <2>1. read' = [kind |-> read'.kind, asked |-> read'.asked, start |-> read'.start,
                 end |-> read'.end, month |-> read'.month, rows |-> read'.rows,
                 photos |-> read'.photos, covers |-> read'.covers,
                 previous |-> read'.previous, todo |-> read'.todo, writes |-> read'.writes]
    BY DEF AskRange, Ask, NoRead
  <2>2. read'.writes \in 0 .. MaxWrites
    BY <1>1, ReadsAssumption
  <2>3. QED
    BY <1>1, <2>1, <2>2 DEF ReadColumns
<1>3. IsFiniteSet(Live) /\ Keyed(Live) /\ Live \subseteq diaries /\ \A d \in Live : RowFact(d)
  BY LiveRows
<1>4. \A d : RowFact(d)' <=> RowFact(d)
  BY <1>1, RowsStay
<1>5. start \in Int /\ end \in Int
  BY ReadsAssumption DEF Day
<1>6. read'.rows = {d \in Live : d.day \in start .. end}
  BY <1>1, <1>3, <1>5, InDaysOfRange DEF RowFact
<1>7. ReadFact'
  <2>1. \A d \in read'.asked \cup read'.previous : RowFact(d)'
    BY <1>1, <1>3, <1>4
  <2>2. IsFiniteSet(read.asked)' /\ Keyed(read.asked)'
    BY <1>1, <1>3 DEF Keyed
  <2>3. read'.rows \subseteq read'.asked
    BY <1>1
  <2>4. /\ read'.start \in Int /\ read'.end \in Int
        /\ read'.rows = {d \in read'.asked : d.day \in read'.start .. read'.end}
    BY <1>1, <1>5, <1>6
  <2>5. read'.kind # "insights"
    BY <1>1
  <2>6. QED
    BY <2>1, <2>2, <2>3, <2>4, <2>5 DEF ReadFact
<1>8. read'.rows \subseteq diaries /\ read'.covers = {}
  BY <1>1, <1>3
<1>9. QED
  BY <1>1, <1>2, <1>7, <1>8, ReadStep

LEMMA GetDiaryKeeps == ASSUME Inv, NEW d \in Live, GetDiary(d) PROVE Inv'
<1>1. /\ read'.kind = "diary" /\ read'.asked = {d} /\ read'.start = d.day /\ read'.end = d.day
      /\ read'.month = <<0, 0>> /\ read'.rows = {d}
      /\ read'.photos = {} /\ read'.covers = {} /\ read'.previous = {}
      /\ read'.todo = {"photos", "covers"} /\ read'.writes = 0
      /\ UNCHANGED <<diaries, photos, photo_seq, analysis>>
  BY DEF GetDiary, Ask, NoRead
<1>2. ReadColumns'
  <2>1. read' = [kind |-> read'.kind, asked |-> read'.asked, start |-> read'.start,
                 end |-> read'.end, month |-> read'.month, rows |-> read'.rows,
                 photos |-> read'.photos, covers |-> read'.covers,
                 previous |-> read'.previous, todo |-> read'.todo, writes |-> read'.writes]
    BY DEF GetDiary, Ask, NoRead
  <2>2. read'.writes \in 0 .. MaxWrites
    BY <1>1, ReadsAssumption
  <2>3. QED
    BY <1>1, <2>1, <2>2 DEF ReadColumns
<1>3. IsFiniteSet({d}) /\ Keyed({d}) /\ {d} \subseteq diaries /\ RowFact(d)
  <2>1. {d} \subseteq Live
    OBVIOUS
  <2>2. QED
    BY <2>1, LiveRows
<1>4. RowFact(d)' <=> RowFact(d)
  BY <1>1, RowsStay
<1>5. d.day \in Int
  BY <1>3, ReadsAssumption DEF RowFact, DiaryFact, Day
<1>6. ReadFact'
  <2>1. \A x \in read'.asked \cup read'.previous : RowFact(x)'
    BY <1>1, <1>3, <1>4
  <2>2. IsFiniteSet(read.asked)' /\ Keyed(read.asked)'
    BY <1>1, <1>3 DEF Keyed
  <2>3. read'.rows \subseteq read'.asked
    BY <1>1
  <2>4. d.day \in d.day .. d.day
    BY <1>5
  <2>5. /\ read'.start \in Int /\ read'.end \in Int
        /\ read'.rows = {x \in read'.asked : x.day \in read'.start .. read'.end}
    BY <1>1, <1>5, <2>4
  <2>6. read'.kind # "insights"
    BY <1>1
  <2>7. QED
    BY <2>1, <2>2, <2>3, <2>5, <2>6 DEF ReadFact
<1>7. QED
  BY <1>1, <1>2, <1>3, <1>6, ReadStep

LEMMA InsightsKeeps ==
    ASSUME Inv, NEW month \in DOMAIN FirstOfMonth, GenerateInsights(month) PROVE Inv'
<1>1. /\ read'.kind = "insights" /\ read'.asked = Live /\ read'.start = 0 /\ read'.end = 0
      /\ read'.month = month /\ read'.rows = {d \in Live : InMonth(d, month)}
      /\ read'.photos = {} /\ read'.covers = {} /\ read'.previous = {}
      /\ read'.todo = {"covers", "previous"} /\ read'.writes = 0
      /\ UNCHANGED <<diaries, photos, photo_seq, analysis>>
      /\ {PreviousMonth(month), NextMonth(month)} \subseteq DOMAIN FirstOfMonth
  BY DEF GenerateInsights, Ask, NoRead
<1>2. ReadColumns'
  <2>1. read' = [kind |-> read'.kind, asked |-> read'.asked, start |-> read'.start,
                 end |-> read'.end, month |-> read'.month, rows |-> read'.rows,
                 photos |-> read'.photos, covers |-> read'.covers,
                 previous |-> read'.previous, todo |-> read'.todo, writes |-> read'.writes]
    BY DEF GenerateInsights, Ask, NoRead
  <2>2. read'.writes \in 0 .. MaxWrites
    BY <1>1, ReadsAssumption
  <2>3. QED
    BY <1>1, <2>1, <2>2 DEF ReadColumns
<1>3. IsFiniteSet(Live) /\ Keyed(Live) /\ Live \subseteq diaries /\ \A d \in Live : RowFact(d)
  BY LiveRows
<1>4. \A d : RowFact(d)' <=> RowFact(d)
  BY <1>1, RowsStay
<1>5. ReadFact'
  <2>1. \A d \in read'.asked \cup read'.previous : RowFact(d)'
    BY <1>1, <1>3, <1>4
  <2>2. IsFiniteSet(read.asked)' /\ Keyed(read.asked)'
    BY <1>1, <1>3 DEF Keyed
  <2>3. read'.rows \subseteq read'.asked
    BY <1>1
  <2>4. read'.kind \notin {"range", "calendar", "diary"}
    BY <1>1
  <2>5. {read'.month, PreviousMonth(read'.month), NextMonth(read'.month)} \subseteq DOMAIN FirstOfMonth
    BY <1>1
  <2>6. read'.rows = {d \in read'.asked : InMonth(d, read'.month)}
    BY <1>1
  <2>7. read'.previous = {d \in read'.previous : InMonth(d, PreviousMonth(read'.month))}
    BY <1>1
  <2>8. QED
    BY <2>1, <2>2, <2>3, <2>4, <2>5, <2>6, <2>7 DEF ReadFact, InMonth, PreviousMonth, NextMonth
<1>6. read'.rows \subseteq diaries /\ read'.covers = {}
  BY <1>1, <1>3
<1>7. QED
  BY <1>1, <1>2, <1>5, <1>6, ReadStep

\* What a SELECT that follows adds to the rows that were read.
LEMMA LoadKeeps ==
    ASSUME Inv, NEW loaded, NEW what, Load(what, loaded), ReadColumns,
           NEW ps, NEW cs, NEW prev,
           loaded = [kind |-> read.kind, asked |-> read.asked, start |-> read.start,
                     end |-> read.end, month |-> read.month, rows |-> read.rows,
                     photos |-> ps, covers |-> cs, previous |-> prev,
                     todo |-> read.todo, writes |-> read.writes],
           cs \subseteq photos \cup read.covers,
           prev = read.previous \/
              (prev \subseteq Live /\ prev = {d \in prev : InMonth(d, PreviousMonth(read.month))})
    PROVE  Inv'
<1>1. read' = [loaded EXCEPT !.todo = @ \ {what}] /\ UNCHANGED <<diaries, photos, photo_seq, analysis>>
  BY DEF Load
<1>2. /\ read'.kind = read.kind /\ read'.asked = read.asked /\ read'.start = read.start
      /\ read'.end = read.end /\ read'.month = read.month /\ read'.rows = read.rows
      /\ read'.photos = ps /\ read'.covers = cs /\ read'.previous = prev
      /\ read'.todo = read.todo \ {what} /\ read'.writes = read.writes
      /\ read' = [kind |-> read'.kind, asked |-> read'.asked, start |-> read'.start,
                  end |-> read'.end, month |-> read'.month, rows |-> read'.rows,
                  photos |-> read'.photos, covers |-> read'.covers,
                  previous |-> read'.previous, todo |-> read'.todo, writes |-> read'.writes]
  BY <1>1
<1>3. ReadColumns'
  BY <1>2 DEF ReadColumns
<1>4. \A d : RowFact(d)' <=> RowFact(d)
  BY <1>1, RowsStay
<1>5. ReadFact
  BY DEF Inv
<1>6. \A d \in prev : RowFact(d)
  <2>1. CASE prev = read.previous
    BY <2>1, <1>5 DEF ReadFact
  <2>2. CASE prev \subseteq Live
    BY <2>2, LiveRows
  <2>3. QED
    BY <2>1, <2>2
<1>7. ReadFact'
  <2>1. \A d \in read'.asked \cup read'.previous : RowFact(d)'
    BY <1>2, <1>4, <1>5, <1>6 DEF ReadFact
  <2>2. IsFiniteSet(read.asked)' /\ Keyed(read.asked)'
    BY <1>2, <1>5 DEF ReadFact, Keyed
  <2>3. read'.rows \subseteq read'.asked
    BY <1>2, <1>5 DEF ReadFact
  <2>4. read'.kind \in {"range", "calendar", "diary"} =>
           /\ read'.start \in Int /\ read'.end \in Int
           /\ read'.rows = {d \in read'.asked : d.day \in read'.start .. read'.end}
    BY <1>2, <1>5 DEF ReadFact
  <2>5. read'.kind = "insights" =>
           /\ {read'.month, PreviousMonth(read'.month), NextMonth(read'.month)} \subseteq DOMAIN FirstOfMonth
           /\ read'.rows = {d \in read'.asked : InMonth(d, read'.month)}
           /\ read'.previous = {d \in read'.previous : InMonth(d, PreviousMonth(read'.month))}
    BY <1>2, <1>5 DEF ReadFact
  <2>6. QED
    BY <2>1, <2>2, <2>3, <2>4, <2>5 DEF ReadFact, InMonth, PreviousMonth, NextMonth
<1>8. QED
  BY <1>1, <1>2, <1>3, <1>7, ReadStep

LEMMA LoadPhotosKeeps == ASSUME Inv, LoadPhotos PROVE Inv'
<1>1. PICK ps : ps = {p \in photos : p.diary_id \in Ids(read.rows)}
  OBVIOUS
<1>2. PICK loaded : loaded = [read EXCEPT !.photos = ps]
  OBVIOUS
<1>3. ReadColumns
  BY DEF Inv
<1>4. loaded = [kind |-> read.kind, asked |-> read.asked, start |-> read.start,
                end |-> read.end, month |-> read.month, rows |-> read.rows,
                photos |-> ps, covers |-> read.covers, previous |-> read.previous,
                todo |-> read.todo, writes |-> read.writes]
  BY <1>2, <1>3 DEF ReadColumns
<1>5. Load("photos", loaded)
  BY <1>1, <1>2 DEF LoadPhotos
<1>6. QED
  BY <1>3, <1>4, <1>5, LoadKeeps

LEMMA LoadCoversKeeps == ASSUME Inv, LoadCovers PROVE Inv'
<1>1. PICK cs : cs = {p \in photos : p.id \in {d.cover_photo_id : d \in read.rows}}
  OBVIOUS
<1>2. PICK loaded : loaded = [read EXCEPT !.covers = cs]
  OBVIOUS
<1>3. ReadColumns
  BY DEF Inv
<1>4. loaded = [kind |-> read.kind, asked |-> read.asked, start |-> read.start,
                end |-> read.end, month |-> read.month, rows |-> read.rows,
                photos |-> read.photos, covers |-> cs, previous |-> read.previous,
                todo |-> read.todo, writes |-> read.writes]
  BY <1>2, <1>3 DEF ReadColumns
<1>5. Load("covers", loaded)
  BY <1>1, <1>2 DEF LoadCovers
<1>6. cs \subseteq photos
  BY <1>1
<1>7. QED
  BY <1>3, <1>4, <1>5, <1>6, LoadKeeps

LEMMA SelectPreviousKeeps == ASSUME Inv, SelectPrevious PROVE Inv'
<1>1. PICK prev : prev = {d \in Live : InMonth(d, PreviousMonth(read.month))}
  OBVIOUS
<1>2. PICK loaded : loaded = [read EXCEPT !.previous = prev]
  OBVIOUS
<1>3. ReadColumns
  BY DEF Inv
<1>4. loaded = [kind |-> read.kind, asked |-> read.asked, start |-> read.start,
                end |-> read.end, month |-> read.month, rows |-> read.rows,
                photos |-> read.photos, covers |-> read.covers, previous |-> prev,
                todo |-> read.todo, writes |-> read.writes]
  BY <1>2, <1>3 DEF ReadColumns
<1>5. Load("previous", loaded)
  BY <1>1, <1>2 DEF SelectPrevious
<1>6. prev \subseteq Live /\ prev = {d \in prev : InMonth(d, PreviousMonth(read.month))}
  BY <1>1
<1>7. QED
  BY <1>3, <1>4, <1>5, <1>6, LoadKeeps

\* Where nothing is asked there is nothing to say.
LEMMA NoReadFacts == read = NoRead => ReadColumns /\ ReadFact /\ read.rows = {} /\ read.covers = {}
<1> SUFFICES ASSUME read = NoRead PROVE ReadColumns /\ ReadFact /\ read.rows = {} /\ read.covers = {}
  OBVIOUS
<1>1. /\ read.kind = "none" /\ read.asked = {} /\ read.start = 0 /\ read.end = 0
      /\ read.month = <<0, 0>> /\ read.rows = {} /\ read.photos = {} /\ read.covers = {}
      /\ read.previous = {} /\ read.todo = {} /\ read.writes = 0
  BY DEF NoRead
<1>2. ReadColumns
  <2>1. read.writes \in 0 .. MaxWrites
    BY <1>1, ReadsAssumption
  <2>2. QED
    BY <1>1, <2>1 DEF ReadColumns, NoRead
<1>3. ReadFact
  BY <1>1, FS_EmptySet DEF ReadFact, Keyed
<1>4. QED
  BY <1>1, <1>2, <1>3

LEMMA AnswerKeeps == ASSUME Inv, Answer PROVE Inv'
<1>1. read' = NoRead /\ UNCHANGED <<diaries, photos, photo_seq, analysis>>
  BY DEF Answer
<1>2. (read = NoRead => ReadColumns /\ ReadFact /\ read.rows = {} /\ read.covers = {})'
  BY NoReadFacts, PTL
<1>3. ReadColumns' /\ ReadFact' /\ read'.rows = {} /\ read'.covers = {}
  BY <1>1, <1>2 DEF NoRead
<1>4. QED
  BY <1>1, <1>3, ReadStep

LEMMA ReadsInit == Init => Inv
<1> SUFFICES ASSUME Init PROVE Inv
  OBVIOUS
<1>1. ReadColumns /\ ReadFact /\ read.rows = {} /\ read.covers = {}
  BY NoReadFacts DEF Init
<1>2. Tables
  <2>1. IsFiniteSet({}) /\ Cardinality({}) = 0
    BY FS_EmptySet
  <2>2. photo_seq \in 0 .. MaxPhotoIds
    BY ReadsAssumption DEF Init
  <2>3. 1 .. 0 = {}
    OBVIOUS
  <2>4. QED
    BY <1>1, <2>1, <2>2, <2>3 DEF Init, Tables, Keyed, Ids
<1>3. CoverFact
  BY <1>1 DEF Init, CoverFact
<1>4. AnalysisFact
  BY DEF Init, AnalysisFact
<1>5. UneditedShowsFirstSuggestion
  BY ShownPointwise DEF Init, AllShown
<1>6. QED
  BY <1>1, <1>2, <1>3, <1>4, <1>5 DEF Inv

LEMMA ReadsStutter == ASSUME Inv, UNCHANGED vars PROVE Inv'
<1>1. ReadColumns'
  BY DEF vars, Inv, ReadColumns
<1>2. \A d : RowFact(d)' <=> RowFact(d)
  BY RowsStay DEF vars
<1>3. ReadFact'
  BY <1>2 DEF vars, Inv, ReadFact, InMonth, PreviousMonth, NextMonth, Keyed
<1>4. QED
  BY <1>1, <1>3, ReadStep DEF vars

LEMMA ReadsNext == Inv /\ [Next]_vars => Inv'
<1> SUFFICES ASSUME Inv, [Next]_vars PROVE Inv'
  OBVIOUS
<1>1. ASSUME NEW day \in FiledDays, NEW picture \in Pictures, Upload(day, picture) PROVE Inv'
  BY <1>1, UploadKeeps
<1>2. ASSUME NEW d \in Live, AddPhoto(d) \/ Delete(d) PROVE Inv'
  BY <1>2, AddPhotoKeeps, DeleteKeeps
<1>3. ASSUME NEW d \in Live, NEW body \in Bodies \cup Offered(d),
             NEW keep \in SUBSET Ids(PhotosOf(d)), NEW cover \in keep, Edit(d, body, keep, cover)
      PROVE  Inv'
  BY <1>3, EditKeeps
<1>4. ASSUME NEW d \in Live, GetDiary(d) PROVE Inv'
  BY <1>4, GetDiaryKeeps
<1>5. ASSUME NEW d \in diaries, NEW result \in Results[\E p \in PhotosOf(d) : p.located],
             SaveAnalysis(d, result)
      PROVE  Inv'
  <2>1. PICK located \in BOOLEAN : result \in Results[located]
    <3>1. (\E p \in PhotosOf(d) : p.located) \in BOOLEAN
      OBVIOUS
    <3>2. QED
      BY <1>5, <3>1
  <2>2. result \in {AnalyzeDiaryPhotos(located, pages, reply) : pages \in Searches, reply \in Replies}
        /\ result # <<>>
    BY <2>1 DEF Results
  <2> PICK pages \in Searches, reply \in Replies : result = AnalyzeDiaryPhotos(located, pages, reply)
    BY <2>2
  <2>3. result # <<>>
    BY <2>2
  <2>4. result \in Seq(Range(result))
    BY AnalysisIsList
  <2>5. QED
    BY <1>5, <2>3, <2>4, SaveKeeps
<1>6. ASSUME NEW start \in FiledDays, NEW end \in FiledDays,
             GetDiariesByDateRange(start, end) \/ GetDiariesSummaryByDateRange(start, end)
      PROVE  Inv'
  BY <1>6, AskRangeKeeps DEF GetDiariesByDateRange, GetDiariesSummaryByDateRange
<1>7. ASSUME NEW month \in DOMAIN FirstOfMonth, GenerateInsights(month) PROVE Inv'
  BY <1>7, InsightsKeeps
<1>8. CASE LoadPhotos \/ LoadCovers \/ SelectPrevious \/ Answer
  BY <1>8, LoadPhotosKeeps, LoadCoversKeeps, SelectPreviousKeeps, AnswerKeeps
<1>9. CASE UNCHANGED vars
  BY <1>9, ReadsStutter
<1>10. QED
  BY <1>1, <1>2, <1>3, <1>4, <1>5, <1>6, <1>7, <1>8, <1>9 DEF Next

LEMMA InvAlways == Spec => []Inv
BY ReadsInit, ReadsNext, PTL DEF Spec
-----------------------------------------------------------------------------
\* What the answers say.

\* A range of days and one diary.
DayKinds == {"range", "calendar", "diary"}

\* The row of an answer: its time is on the day of its diary, in the hour the diary
\* is counted under, and of its meal if the cover tells a time.
LEMMA ShownTime ==
    ASSUME Inv, NEW d \in read.rows
    PROVE  /\ d.day \in Int /\ DateOf(MergeDateWithCoverTakenAt(d)) = d.day
           /\ HourOf(MergeDateWithCoverTakenAt(d)) = HourSlot(d)
           /\ CoverOf(d) # {} =>
                 ClassifyTimeType(KstNaiveToUtc(MergeDateWithCoverTakenAt(d))) = d.time_type
<1>1. RowFact(d) /\ DiaryFact(d)
  BY DEF Inv, ReadFact, RowFact
<1>2. d.day \in Int /\ DateOf(UtcToKst(d.diary_date)) = d.day
  BY <1>1, ReadsAssumption, DayOfMidnight DEF DiaryFact, Day
<1>3. CASE CoverOf(d) = {}
  <2>1. MergeDateWithCoverTakenAt(d) = 24 * d.day
    BY <1>2, <1>3 DEF MergeDateWithCoverTakenAt
  <2>2. (24 * d.day) \div 24 = d.day
    BY <1>2
  <2>3. UtcToKst(d.diary_date) = 24 * d.day
    BY <1>1, <1>2 DEF DiaryFact, UtcToKst, KstDateToUtc, KstOffset
  <2>4. HourSlot(d) = HourOf(24 * d.day)
    BY <1>3, <2>3 DEF HourSlot
  <2>5. QED
    BY <1>2, <1>3, <2>1, <2>2, <2>4 DEF DateOf
<1>4. CASE CoverOf(d) # {}
  <2>1. PICK p : p = CHOOSE q \in CoverOf(d) : TRUE
    OBVIOUS
  <2>2. p \in read.covers /\ p.id = d.cover_photo_id /\ p.taken_at # Null
    BY <1>4, <2>1 DEF CoverOf
  <2>3. PhotoFact(p) /\ p.diary_id = d.id
    BY <2>2 DEF Inv, Tables, CoverFact
  <2>4. p.taken_at \in Int
    BY <2>2, <2>3 DEF PhotoFact
  <2>5. d.time_type = ClassifyTimeType(p.taken_at)
    <3>1. PICK x \in diaries : x.id = p.diary_id /\ x.time_type = ClassifyTimeType(p.taken_at)
      BY <2>2, <2>3 DEF PhotoFact
    <3>2. PICK y \in diaries : y.id = d.id /\ y.time_type = d.time_type
      BY <1>1 DEF RowFact
    <3>3. x = y
      BY <2>3, <3>1, <3>2 DEF Inv, Tables, Keyed
    <3>4. QED
      BY <3>1, <3>2, <3>3
  <2>6. PICK hour : hour = HourOf(UtcToKst(p.taken_at))
    OBVIOUS
  <2>7. hour \in 0 .. 23 /\ HourSlot(d) = hour
    BY <1>4, <2>1, <2>4, <2>6 DEF HourSlot, HourOf, UtcToKst, KstOffset
  <2>8. MergeDateWithCoverTakenAt(d) = 24 * d.day + hour
    BY <1>2, <1>4, <2>1, <2>6 DEF MergeDateWithCoverTakenAt
  <2> PICK shown : shown = 24 * d.day + hour
    OBVIOUS
  <2>9. shown \in Int /\ DateOf(shown) = d.day /\ HourOf(shown) = hour
    <3>1. (24 * d.day + hour) \div 24 = d.day /\ (24 * d.day + hour) % 24 = hour
      BY <1>2, <2>7
    <3>2. QED
      BY <1>2, <2>7, <3>1 DEF DateOf, HourOf
  <2>10. KstNaiveToUtc(shown) \in Int /\ UtcToKst(KstNaiveToUtc(shown)) = shown
    BY <2>9, ReadingOfReading
  <2>11. ClassifyTimeType(KstNaiveToUtc(shown)) = ClassifyTimeType(p.taken_at)
    BY <2>4, <2>6, <2>9, <2>10, MealOfHour
  <2>12. QED
    BY <1>2, <2>5, <2>7, <2>8, <2>9, <2>11
<1>5. QED
  BY <1>3, <1>4

\* The time shown with a diary is one of its meal, on its day, whatever commits
\* between the SELECTs of the read: a cover that was replaced since is gone or
\* still a photo of that diary.
THEOREM ShownTimeIsOfMealAlways == Spec => []ShownTimeIsOfMeal
<1>1. Inv => ShownTimeIsOfMeal
  <2> SUFFICES ASSUME Inv, NEW d \in read.rows, CoverOf(d) # {}
               PROVE  LET shown == BuildDiaryWithPhotos(d).diary_date
                      IN  DateOf(shown) = d.day /\ ClassifyTimeType(KstNaiveToUtc(shown)) = d.time_type
    BY DEF ShownTimeIsOfMeal
  <2>1. BuildDiaryWithPhotos(d).diary_date = MergeDateWithCoverTakenAt(d)
    BY DEF BuildDiaryWithPhotos
  <2>2. QED
    BY <2>1, ShownTime
<1>2. QED
  BY <1>1, InvAlways, PTL

\* A range of days is answered with the diaries filed under its days, each on its
\* day, and a calendar has an entry for each day with the photos of its diaries.
THEOREM AnswerHoldsItsDaysAlways == Spec => []AnswerHoldsItsDays
<1>1. Inv => AnswerHoldsItsDays
  <2> SUFFICES ASSUME Inv, read.kind \in DayKinds
               PROVE  AnswerHoldsItsDays
    BY DEF AnswerHoldsItsDays, Answered, DayKinds
  <2> DEFINE days == read.start .. read.end
             wanted == {d \in read.asked : d.day \in days}
  <2>1. wanted = read.rows
    BY DEF Inv, ReadFact, DayKinds
  <2>2. \A d \in read.rows :
            /\ BuildDiaryWithPhotos(d).id = d.id
            /\ DateOf(BuildDiaryWithPhotos(d).diary_date) = d.day
            /\ BuildDiaryWithPhotos(d).photos = {p.id : p \in {q \in read.photos : q.diary_id = d.id}}
    BY ShownTime DEF BuildDiaryWithPhotos, Ids
  <2>3. Ids(Built) = Ids(read.rows)
    BY <2>2 DEF Built, Ids
  <2>4. \A a \in Built : DateOf(a.diary_date) \in days
    BY <2>1, <2>2 DEF Built
  <2>5. DOMAIN BuildDatePhotosResponse = days
    BY <2>4 DEF BuildDatePhotosResponse
  <2>6. ASSUME NEW day \in days
        PROVE  BuildDatePhotosResponse[day] =
                  {p.id : p \in {q \in read.photos : \E d \in wanted : d.day = day /\ q.diary_id = d.id}}
    <3>1. BuildDatePhotosResponse[day] = UNION {a.photos : a \in {b \in Built : DateOf(b.diary_date) = day}}
      BY DEF BuildDatePhotosResponse
    <3>2. \A i : i \in UNION {a.photos : a \in {b \in Built : DateOf(b.diary_date) = day}} <=>
                 \E d \in read.rows : d.day = day /\ i \in BuildDiaryWithPhotos(d).photos
      BY <2>2 DEF Built
    <3>3. \A i : i \in {p.id : p \in {q \in read.photos : \E d \in wanted : d.day = day /\ q.diary_id = d.id}} <=>
                 \E d \in read.rows : d.day = day /\ i \in BuildDiaryWithPhotos(d).photos
      BY <2>1, <2>2
    <3> HIDE DEF wanted
    <3>4. QED
      BY <3>1, <3>2, <3>3
  <2>7. QED
    BY <2>1, <2>3, <2>5, <2>6 DEF AnswerHoldsItsDays
<1>2. QED
  BY <1>1, InvAlways, PTL

\* The restaurant a diary shows, unless its user set it since, is the first of its
\* suggestions that can be shown, however often analyses are saved over it.
THEOREM UneditedShowsFirstSuggestionAlways == Spec => []UneditedShowsFirstSuggestion
<1>1. Inv => UneditedShowsFirstSuggestion
  BY DEF Inv
<1>2. QED
  BY <1>1, InvAlways, PTL

\* Rows, counters, covers and reads are what their columns allow.
THEOREM ReadsTypeCorrect == Spec => []TypeOK
<1>1. Inv => TypeOK
  <2> SUFFICES ASSUME Inv PROVE TypeOK
    OBVIOUS
  <2>1. photo_seq \in 0 .. MaxPhotoIds /\ MaxPhotoIds \in Nat
    BY ReadsAssumption DEF Inv, Tables
  <2>2. Keyed(diaries) /\ Keyed(photos)
    BY DEF Inv, Tables, Keyed
  <2>3. ASSUME NEW d \in diaries
        PROVE  /\ d.id \in Id /\ d.day \in FiledDays /\ d.deleted \in BOOLEAN
               /\ d.diary_date \in Instant /\ d.time_type \in Meals
               /\ d.cover_photo_id \in PhotoId \cup {Null} /\ d.photo_count \in 0 .. MaxPhotoIds
               /\ d.category \in Categories \cup {Null}
    <3>1. DiaryFact(d)
      BY LiveFact
    <3>2. d.diary_date \in Instant
      <4>1. d.day \in Int /\ d.diary_date = KstDateToUtc(d.day)
        BY <3>1, ReadsAssumption DEF DiaryFact, Day
      <4>2. QED
        BY <4>1, MidnightsAscend DEF Instant
    <3>3. d.cover_photo_id \in PhotoId \cup {Null} /\ d.photo_count \in 0 .. MaxPhotoIds
      BY <2>1, <3>1 DEF DiaryFact, PhotoId
    <3>4. QED
      BY <3>1, <3>2, <3>3 DEF DiaryFact
  <2>4. \A p \in photos : p.id \in 1 .. photo_seq /\ \E d \in diaries : d.id = p.diary_id
    BY DEF Inv, Tables, PhotoFact
  <2>5. QED
    BY <2>1, <2>2, <2>3, <2>4 DEF Inv, AnalysisFact, ReadColumns, TypeOK
<1>2. QED
  BY <1>1, InvAlways, PTL
-----------------------------------------------------------------------------
\* The insights.

Earlier(m, n) == m[1] < n[1] \/ (m[1] = n[1] /\ m[2] < n[2])

\* The months are in a row.
LEMMA MonthsInARow ==
    ASSUME NEW m \in Int \X (1 .. 12), NEW n \in Int \X (1 .. 12)
    PROVE  /\ m = n \/ Earlier(m, n) \/ Earlier(n, m)
           /\ Earlier(m, n) => NextMonth(m) = n \/ Earlier(NextMonth(m), n)
           /\ NextMonth(PreviousMonth(m)) = m
<1>1. PICK y \in Int, k \in 1 .. 12 : m = <<y, k>>
  OBVIOUS
<1>2. PICK z \in Int, l \in 1 .. 12 : n = <<z, l>>
  OBVIOUS
<1>3. m = n \/ Earlier(m, n) \/ Earlier(n, m)
  BY <1>1, <1>2 DEF Earlier
<1>4. ASSUME Earlier(m, n) PROVE NextMonth(m) = n \/ Earlier(NextMonth(m), n)
  <2>1. y < z \/ (y = z /\ k < l)
    BY <1>1, <1>2, <1>4 DEF Earlier
  <2>2. CASE k = 12
    <3>1. NextMonth(m) = <<y + 1, 1>>
      BY <1>1, <2>2 DEF NextMonth
    <3>2. y + 1 < z \/ (y + 1 = z /\ (1 < l \/ l = 1))
      BY <2>1, <2>2
    <3>3. QED
      BY <1>2, <3>1, <3>2 DEF Earlier
  <2>3. CASE k # 12
    <3>1. NextMonth(m) = <<y, k + 1>>
      BY <1>1, <2>3 DEF NextMonth
    <3>2. y < z \/ (y = z /\ (k + 1 < l \/ k + 1 = l))
      BY <2>1, <2>3
    <3>3. QED
      BY <1>2, <3>1, <3>2 DEF Earlier
  <2>4. QED
    BY <2>2, <2>3
<1>5. NextMonth(PreviousMonth(m)) = m
  <2>1. CASE k = 1
    <3>1. PreviousMonth(m) = <<y - 1, 12>>
      BY <1>1, <2>1 DEF PreviousMonth
    <3>2. NextMonth(<<y - 1, 12>>) = <<y - 1 + 1, 1>>
      BY DEF NextMonth
    <3>3. QED
      BY <1>1, <2>1, <3>1, <3>2
  <2>2. CASE k # 1
    <3>1. PreviousMonth(m) = <<y, k - 1>> /\ k - 1 # 12
      BY <1>1, <2>2 DEF PreviousMonth
    <3>2. NextMonth(<<y, k - 1>>) = <<y, k - 1 + 1>>
      BY <3>1 DEF NextMonth
    <3>3. QED
      BY <1>1, <3>1, <3>2
  <2>3. QED
    BY <2>1, <2>2
<1>6. QED
  BY <1>3, <1>4, <1>5

\* A day between the first of a month and the first of the next is of that month.
LEMMA MonthOfDay ==
    ASSUME NEW day \in Int, NEW m \in DOMAIN FirstOfMonth, NextMonth(m) \in DOMAIN FirstOfMonth,
           FirstOfMonth[m] <= day, day < FirstOfMonth[NextMonth(m)]
    PROVE  MonthOf(day) = m
<1> DEFINE LastBy(n) == /\ FirstOfMonth[n] <= day
                        /\ \A o \in DOMAIN FirstOfMonth : FirstOfMonth[o] <= day => FirstOfMonth[o] <= FirstOfMonth[n]
<1>1. \A n \in DOMAIN FirstOfMonth : FirstOfMonth[n] \in Int /\ n \in Int \X (1 .. 12)
  BY CalendarAssumption DEF Day
<1>2. \A n, o \in DOMAIN FirstOfMonth : Earlier(n, o) => FirstOfMonth[n] < FirstOfMonth[o]
  BY CalendarAssumption DEF Earlier
<1>3. ASSUME NEW n \in DOMAIN FirstOfMonth, FirstOfMonth[n] <= day
      PROVE  n = m \/ Earlier(n, m)
  <2> SUFFICES ASSUME Earlier(m, n) PROVE FALSE
    BY <1>1, MonthsInARow
  <2>1. NextMonth(m) = n \/ Earlier(NextMonth(m), n)
    BY <1>1, MonthsInARow
  <2>2. FirstOfMonth[NextMonth(m)] <= FirstOfMonth[n]
    BY <1>1, <1>2, <2>1
  <2>3. QED
    BY <1>1, <1>3, <2>2
<1>4. LastBy(m)
  BY <1>1, <1>2, <1>3
<1>5. ASSUME NEW n \in DOMAIN FirstOfMonth, LastBy(n) PROVE n = m
  <2>1. FirstOfMonth[m] <= FirstOfMonth[n]
    BY <1>4, <1>5
  <2>2. n = m \/ FirstOfMonth[n] < FirstOfMonth[m]
    BY <1>2, <1>3, <1>5
  <2>3. QED
    BY <1>1, <2>1, <2>2
<1>6. MonthOf(day) = CHOOSE n \in DOMAIN FirstOfMonth : LastBy(n)
  BY DEF MonthOf
<1> HIDE DEF LastBy
<1>7. QED
  BY <1>4, <1>5, <1>6

\* The bounds of the query are those of the month.
LEMMA InMonthIsMonthOf ==
    ASSUME NEW d, DiaryFact(d), NEW m \in DOMAIN FirstOfMonth, NextMonth(m) \in DOMAIN FirstOfMonth
    PROVE  InMonth(d, m) <=> MonthOf(d.day) = m
<1>1. d.day \in Int /\ d.day \in FiledDays /\ d.diary_date = KstDateToUtc(d.day)
  BY ReadsAssumption DEF DiaryFact, Day
<1>2. \A n \in DOMAIN FirstOfMonth : FirstOfMonth[n] \in Int
  BY CalendarAssumption DEF Day
<1>3. ASSUME NEW n \in DOMAIN FirstOfMonth, NextMonth(n) \in DOMAIN FirstOfMonth
      PROVE  InMonth(d, n) <=> FirstOfMonth[n] <= d.day /\ d.day < FirstOfMonth[NextMonth(n)]
  <2>1. FirstOfMonth[n] \in Int /\ FirstOfMonth[NextMonth(n)] \in Int
    BY <1>2, <1>3
  <2>2. QED
    BY <1>1, <2>1, MidnightsAscend DEF InMonth
<1>4. PICK n \in DOMAIN FirstOfMonth :
          /\ NextMonth(n) \in DOMAIN FirstOfMonth
          /\ FirstOfMonth[n] <= d.day /\ d.day < FirstOfMonth[NextMonth(n)]
  BY <1>1, CalendarAssumption
<1>5. MonthOf(d.day) = n /\ InMonth(d, n)
  BY <1>1, <1>3, <1>4, MonthOfDay
<1>6. InMonth(d, m) => MonthOf(d.day) = m
  BY <1>1, <1>3, MonthOfDay
<1>7. QED
  BY <1>5, <1>6

\* Finitely many rows have finitely many keys.
LEMMA KeysFinite ==
    ASSUME NEW R, IsFiniteSet(R), NEW key, key = [r \in R |-> key[r]], NEW D, D = {key[r] : r \in R}
    PROVE  key \in [R -> D] /\ IsFiniteSet(D)
<1>1. key \in [R -> D]
  OBVIOUS
<1>2. key \in Surjection(R, D)
  BY <1>1 DEF Surjection
<1>3. IsFiniteSet(D)
  BY <1>2, FS_Surjection
<1>4. QED
  BY <1>1, <1>3

LEMMA CategoriesFinite == IsFiniteSet(Categories)
<1>1. IsFiniteSet({"korean"})
  BY FS_Singleton
<1>2. IsFiniteSet({"korean"} \cup {"chinese"})
  BY <1>1, FS_AddElement
<1>3. IsFiniteSet(({"korean"} \cup {"chinese"}) \cup {"japanese"})
  BY <1>2, FS_AddElement
<1>4. IsFiniteSet((({"korean"} \cup {"chinese"}) \cup {"japanese"}) \cup {"western"})
  BY <1>3, FS_AddElement
<1>5. IsFiniteSet(((({"korean"} \cup {"chinese"}) \cup {"japanese"}) \cup {"western"}) \cup {"etc"})
  BY <1>4, FS_AddElement
<1>6. IsFiniteSet((((({"korean"} \cup {"chinese"}) \cup {"japanese"}) \cup {"western"}) \cup {"etc"}) \cup {"home_cooked"})
  BY <1>5, FS_AddElement
<1>7. Categories = (((({"korean"} \cup {"chinese"}) \cup {"japanese"}) \cup {"western"}) \cup {"etc"}) \cup {"home_cooked"}
  BY DEF Categories
<1>8. QED
  BY <1>6, <1>7

\* The weeks count the rows by the seven days they lie in, and add up to them.
LEMMA WeeksAddUp ==
    ASSUME NEW R, R = read.rows, IsFiniteSet(R), NEW first \in Int, first = FirstOfMonth[read.month],
           \A d \in R : d.day \in Int /\ DateOf(UtcToKst(d.diary_date)) = d.day
    PROVE  /\ Total(Insights.weekly_counts) = Cardinality(R)
           /\ \A w \in DOMAIN Insights.weekly_counts :
                 Insights.weekly_counts[w] =
                    Cardinality({d \in R : d.day - first \in (7 * w - 7) .. (7 * w - 1)})
<1> DEFINE key == [d \in R |-> WeekOf(d)]
<1>1. \A d \in R : key[d] = (d.day - first) \div 7 + 1
  BY DEF WeekOf
<1>2. Insights.weekly_counts =
          [k \in UNION {{WeekOf(d)} : d \in R} |-> Cardinality({d \in R : k \in {WeekOf(d)}})]
  BY DEF Insights, Tally
<1>3. UNION {{WeekOf(d)} : d \in R} = {key[d] : d \in R}
  OBVIOUS
<1>4. \A k : {d \in R : k \in {WeekOf(d)}} = {d \in R : key[d] = k}
  OBVIOUS
<1>5. key = [d \in R |-> key[d]]
  OBVIOUS
<1> HIDE DEF key
<1>6. Insights.weekly_counts = [k \in {key[d] : d \in R} |-> Cardinality({d \in R : key[d] = k})]
  <2>1. \A k : Cardinality({d \in R : k \in {WeekOf(d)}}) = Cardinality({d \in R : key[d] = k})
    BY <1>4
  <2>2. DOMAIN Insights.weekly_counts = {key[d] : d \in R}
    BY <1>2, <1>3
  <2>3. \A k \in DOMAIN Insights.weekly_counts : Insights.weekly_counts[k] = Cardinality({d \in R : key[d] = k})
    BY <1>2, <2>1
  <2>4. Insights.weekly_counts = [k \in DOMAIN Insights.weekly_counts |-> Insights.weekly_counts[k]]
    BY <1>2
  <2>5. QED
    BY <2>2, <2>3, <2>4
<1>7. Total(Insights.weekly_counts) = Cardinality(R)
  <2>1. PICK D : D = {key[d] : d \in R}
    OBVIOUS
  <2>2. key \in [R -> D] /\ IsFiniteSet(D)
    BY <1>5, <2>1, KeysFinite
  <2>3. Insights.weekly_counts = [k \in D |-> Cardinality({d \in R : key[d] = k})]
    BY <1>6, <2>1
  <2>4. QED
    BY <2>2, <2>3, TotalCounts
<1>8. ASSUME NEW w \in {key[d] : d \in R}
      PROVE  {d \in R : key[d] = w} = {d \in R : d.day - first \in (7 * w - 7) .. (7 * w - 1)}
  <2>1. w \in Int
    BY <1>1
  <2>2. ASSUME NEW day \in Int
        PROVE  (day - first) \div 7 + 1 = w <=> day - first \in (7 * w - 7) .. (7 * w - 1)
    <3>1. PICK n \in Int : n = day - first
      OBVIOUS
    <3>2. n \div 7 + 1 = w <=> 7 * w - 7 <= n /\ n <= 7 * w - 1
      BY <2>1
    <3>3. QED
      BY <2>1, <3>1, <3>2
  <2>3. QED
    BY <1>1, <2>2
<1>9. ASSUME NEW w \in DOMAIN Insights.weekly_counts
      PROVE  Insights.weekly_counts[w] =
                Cardinality({d \in R : d.day - first \in (7 * w - 7) .. (7 * w - 1)})
  <2>1. w \in {key[d] : d \in R} /\ Insights.weekly_counts[w] = Cardinality({d \in R : key[d] = w})
    BY <1>6
  <2>2. QED
    BY <1>8, <2>1
<1>10. QED
  BY <1>7, <1>9

\* Of finitely many numbers one is the greatest.
LEMMA SomeGreatest ==
    ASSUME NEW tally, NEW K, K # {}, NEW N \in Nat, \A k \in K : tally[k] \in 0 .. N
    PROVE  \E m \in K : \A l \in K : tally[l] <= tally[m]
<1> DEFINE Rest == {N - tally[k] : k \in K}
<1>1. Rest \subseteq Nat /\ Rest # {}
  OBVIOUS
<1>2. PICK least \in Rest : \A r \in Rest : ~(<<r, least>> \in OpToRel(<, Nat))
  <2> HIDE DEF Rest
  <2>1. QED
    BY <1>1, NatLessThanWellFounded, WFMin
<1>3. ASSUME NEW r \in Rest PROVE least <= r
  <2> HIDE DEF Rest
  <2>1. least \in Nat /\ r \in Nat
    BY <1>1
  <2>2. <<r, least>> \notin OpToRel(<, Nat)
    BY <1>2
  <2>3. ~(r < least)
    BY <2>1, <2>2 DEF OpToRel
  <2>4. QED
    BY <2>1, <2>3
<1>4. PICK m \in K : least = N - tally[m]
  OBVIOUS
<1>5. ASSUME NEW l \in K PROVE tally[l] <= tally[m]
  <2>1. N - tally[m] <= N - tally[l]
    BY <1>3, <1>4
  <2>2. tally[l] \in Int /\ tally[m] \in Int
    OBVIOUS
  <2>3. QED
    BY <2>1, <2>2
<1>6. QED
  BY <1>5

\* There are n keys that lead: one by one, the greatest that is left is added.
LEMMA SomeLead ==
    ASSUME NEW tally, NEW N \in Nat, \A k \in DOMAIN tally : tally[k] \in 0 .. N, NEW n \in Nat
    PROVE  \E S \in SUBSET DOMAIN tally : Leads(S, tally, n)
<1> DEFINE G == {k \in 0 .. n :
                    \E S \in SUBSET DOMAIN tally : IsFiniteSet(S) /\ Leads(S, tally, k)}
<1>1. 0 \in G
  <2>1. IsFiniteSet({}) /\ Cardinality({}) = 0
    BY FS_EmptySet
  <2>2. Leads({}, tally, 0)
    BY <2>1 DEF Leads
  <2>3. QED
    BY <2>1, <2>2
<1>2. ASSUME NEW k \in 1 .. n, k - 1 \in G PROVE k \in G
  <2>1. PICK S \in SUBSET DOMAIN tally : IsFiniteSet(S) /\ Leads(S, tally, k - 1)
    BY <1>2
  <2>2. Cardinality(S) \in Nat
    BY <2>1, FS_CardinalityType
  <2>3. CASE S = DOMAIN tally
    <3>1. Leads(S, tally, k)
      BY <2>1, <2>2, <2>3 DEF Leads
    <3>2. QED
      BY <2>1, <3>1
  <2>4. CASE S # DOMAIN tally
    <3>1. PICK K : K = DOMAIN tally \ S
      OBVIOUS
    <3>2. K # {} /\ \A l \in K : tally[l] \in 0 .. N
      BY <2>4, <3>1
    <3>3. PICK m \in K : \A l \in K : tally[l] <= tally[m]
      BY <3>2, SomeGreatest
    <3>4. PICK T : T = S \cup {m}
      OBVIOUS
    <3>5. T \in SUBSET DOMAIN tally /\ m \notin S
      BY <3>1, <3>4
    <3>6. IsFiniteSet(T) /\ Cardinality(T) = Cardinality(S) + 1
      BY <2>1, <3>4, <3>5, FS_AddElement
    <3>7. Cardinality(S) = k - 1
      BY <2>1, <2>4 DEF Leads
    <3>8. Cardinality(T) = k
      BY <3>6, <3>7
    <3>9. \A x \in T, l \in DOMAIN tally \ T : tally[l] <= tally[x]
      BY <2>1, <3>1, <3>3, <3>4 DEF Leads
    <3>10. Leads(T, tally, k)
      BY <3>8, <3>9 DEF Leads
    <3>11. QED
      BY <3>5, <3>6, <3>10
  <2>5. QED
    BY <2>3, <2>4
<1>3. n \in G
  <2> HIDE DEF G
  <2>1. n \in 0 .. n
    OBVIOUS
  <2>2. QED
    BY <1>1, <1>2, <2>1, UpTo
<1>4. QED
  BY <1>3

\* The distribution tells some hours with all their rows, no more than the slots
\* there are; if it leaves one out, the slots are full, and with hours as busy.
LEMMA BusiestHoursTold ==
    ASSUME NEW R, R = read.rows, IsFiniteSet(R)
    PROVE  /\ Cardinality(DOMAIN Distribution) <= MaxSlots
           /\ \A h \in DOMAIN Distribution : Distribution[h] = Cardinality({d \in R : HourSlot(d) = h})
           /\ \A d \in R : HourSlot(d) \notin DOMAIN Distribution =>
                 /\ Cardinality(DOMAIN Distribution) = MaxSlots
                 /\ \A h \in DOMAIN Distribution :
                       Cardinality({e \in R : HourSlot(e) = HourSlot(d)})
                          <= Cardinality({e \in R : HourSlot(e) = h})
<1> DEFINE At(h) == {d \in R : HourSlot(d) = h}
<1>1. PICK tally : tally = [k \in {HourSlot(d) : d \in R} |-> Cardinality(At(k))]
  OBVIOUS
<1>2. Distribution = MostCommon(tally, MaxSlots)
  <2>1. Tally(read.rows, LAMBDA d : {HourSlot(d)}) =
            [k \in UNION {{HourSlot(d)} : d \in R} |-> Cardinality({d \in R : k \in {HourSlot(d)}})]
    BY DEF Tally
  <2>2. UNION {{HourSlot(d)} : d \in R} = {HourSlot(d) : d \in R}
    OBVIOUS
  <2>3. \A k : {d \in R : k \in {HourSlot(d)}} = At(k)
    OBVIOUS
  <2>4. Tally(read.rows, LAMBDA d : {HourSlot(d)}) = tally
    BY <1>1, <2>1, <2>2, <2>3
  <2>5. QED
    BY <2>4 DEF Distribution
<1>3. DOMAIN tally = {HourSlot(d) : d \in R} /\ \A k \in DOMAIN tally : tally[k] = Cardinality(At(k))
  BY <1>1
<1>4. Cardinality(R) \in Nat /\ MaxSlots \in Nat
  BY FS_CardinalityType, ReadsAssumption
<1>5. \A k : Cardinality(At(k)) \in 0 .. Cardinality(R)
  <2> SUFFICES ASSUME NEW k PROVE Cardinality(At(k)) \in 0 .. Cardinality(R)
    OBVIOUS
  <2>1. At(k) \subseteq R
    OBVIOUS
  <2> HIDE DEF At
  <2>2. IsFiniteSet(At(k)) /\ Cardinality(At(k)) <= Cardinality(R)
    BY <2>1, FS_Subset
  <2>3. Cardinality(At(k)) \in Nat
    BY <2>2, FS_CardinalityType
  <2>4. QED
    BY <1>4, <2>2, <2>3
<1> HIDE DEF At
<1>6. PICK S : S = CHOOSE s \in SUBSET DOMAIN tally : Leads(s, tally, MaxSlots)
  OBVIOUS
<1>7. S \in SUBSET DOMAIN tally /\ Leads(S, tally, MaxSlots)
  <2>1. \E s \in SUBSET DOMAIN tally : Leads(s, tally, MaxSlots)
    BY <1>3, <1>4, <1>5, SomeLead
  <2>2. QED
    BY <1>6, <2>1
<1>8. Distribution = [h \in S |-> tally[h]]
  BY <1>2, <1>6 DEF MostCommon, Restrict
<1>9. DOMAIN Distribution = S /\ \A h \in S : Distribution[h] = Cardinality(At(h))
  BY <1>3, <1>7, <1>8
<1>10. ASSUME NEW d \in R, HourSlot(d) \notin S
       PROVE  /\ Cardinality(S) = MaxSlots
              /\ \A h \in S : Cardinality(At(HourSlot(d))) <= Cardinality(At(h))
  <2>1. HourSlot(d) \in DOMAIN tally
    BY <1>3
  <2>2. Cardinality(S) = MaxSlots
    BY <1>7, <1>10, <2>1 DEF Leads
  <2>3. \A h \in S : tally[HourSlot(d)] <= tally[h]
    BY <1>7, <1>10, <2>1 DEF Leads
  <2>4. QED
    BY <1>3, <1>7, <2>1, <2>2, <2>3
<1>11. Cardinality(S) <= MaxSlots
  BY <1>7 DEF Leads
<1>12. QED
  BY <1>9, <1>10, <1>11 DEF At

\* Every row with a category is counted in it, and no other row is.
LEMMA CategoriesAddUp ==
    ASSUME NEW R, R = read.rows, IsFiniteSet(R), \A d \in R : d.category \in Categories \cup {Null}
    PROVE  Total(Insights.category_stats.current) = Cardinality({d \in R : d.category # Null})
<1> DEFINE S == {d \in R : d.category # Null}
           key == [d \in S |-> d.category]
<1>1. Insights.category_stats.current = [c \in Categories |-> Cardinality({d \in R : d.category = c})]
  BY DEF Insights, CategoryStats, CategoryCounts
<1>2. \A c \in Categories : {d \in R : d.category = c} = {d \in S : key[d] = c}
  BY ReadsAssumption
<1>3. key \in [S -> Categories]
  OBVIOUS
<1>4. IsFiniteSet(S)
  BY FS_Subset
<1> HIDE DEF S, key
<1>5. Insights.category_stats.current = [c \in Categories |-> Cardinality({d \in S : key[d] = c})]
  BY <1>1, <1>2
<1>6. Total(Insights.category_stats.current) = Cardinality(S)
  BY <1>3, <1>4, <1>5, CategoriesFinite, TotalCounts
<1>7. QED
  BY <1>6 DEF S

\* The insights of a month, where there are days enough for an answer, count each
\* diary filed under a day of it in its week and its category; the hours they tell
\* are the ones shown, counted in full, and none that is left out is busier.
THEOREM InsightsAddUpAlways == Spec => []InsightsAddUp
<1>1. Inv => InsightsAddUp
  <2> SUFFICES ASSUME Inv, read.kind = "insights" PROVE InsightsAddUp
    BY DEF InsightsAddUp, Answered
  <2>1. PICK R : R = read.rows
    OBVIOUS
  <2>2. PICK counted : counted = {d \in read.asked : MonthOf(d.day) = read.month}
    OBVIOUS
  <2>3. ReadFact /\ read.month \in DOMAIN FirstOfMonth
        /\ PreviousMonth(read.month) \in DOMAIN FirstOfMonth /\ NextMonth(read.month) \in DOMAIN FirstOfMonth
    BY DEF Inv, ReadFact
  <2>4. \A d \in read.asked \cup read.previous : DiaryFact(d)
    BY <2>3 DEF ReadFact, RowFact
  <2>5. counted = R
    <3>1. R = {d \in read.asked : InMonth(d, read.month)}
      BY <2>1, <2>3 DEF ReadFact
    <3>2. \A d \in read.asked : InMonth(d, read.month) <=> MonthOf(d.day) = read.month
      BY <2>3, <2>4, InMonthIsMonthOf
    <3>3. QED
      BY <2>2, <3>1, <3>2
  <2>6. IsFiniteSet(R)
    BY <2>1, <2>3, FS_Subset DEF ReadFact
  <2>7. \A d \in R : /\ d.day \in Int /\ DateOf(UtcToKst(d.diary_date)) = d.day
                     /\ d.category \in Categories \cup {Null}
    <3>1. \A d \in R : DiaryFact(d)
      BY <2>1, <2>3, <2>4 DEF ReadFact
    <3>2. QED
      BY <3>1, ReadsAssumption, DayOfMidnight DEF DiaryFact, Day
  <2>8. PICK first \in Int : first = FirstOfMonth[read.month]
    BY <2>3, CalendarAssumption DEF Day
  <2>9. HasSufficientData <=> Cardinality({d.day : d \in counted}) >= MinDays
    <3>1. {DateOf(UtcToKst(d.diary_date)) : d \in read.rows} = {d.day : d \in counted}
      BY <2>1, <2>5, <2>7
    <3>2. QED
      BY <3>1 DEF HasSufficientData
  <2>10. /\ Total(Insights.weekly_counts) = Cardinality(counted)
         /\ \A w \in DOMAIN Insights.weekly_counts :
               Insights.weekly_counts[w] = Cardinality(
                   {d \in counted : d.day - FirstOfMonth[read.month] \in (7 * w - 7) .. (7 * w - 1)})
    BY <2>1, <2>5, <2>6, <2>7, <2>8, WeeksAddUp
  <2>11. \A d \in counted : HourOf(BuildDiaryWithPhotos(d).diary_date) = HourSlot(d)
    BY <2>1, <2>5, ShownTime DEF BuildDiaryWithPhotos
  <2>12. Total(Insights.category_stats.current) = Cardinality({d \in counted : d.category # Null})
    BY <2>1, <2>5, <2>6, <2>7, CategoriesAddUp
  <2>13. \A d \in read.previous : FirstOfMonth[NextMonth(MonthOf(d.day))] = FirstOfMonth[read.month]
    <3> SUFFICES ASSUME NEW d \in read.previous
                 PROVE  NextMonth(MonthOf(d.day)) = read.month
      OBVIOUS
    <3>1. read.month \in Int \X (1 .. 12)
      BY <2>3, CalendarAssumption
    <3>2. NextMonth(PreviousMonth(read.month)) = read.month
      BY <3>1, MonthsInARow
    <3>3. InMonth(d, PreviousMonth(read.month))
      BY <2>3 DEF ReadFact
    <3>4. MonthOf(d.day) = PreviousMonth(read.month)
      BY <2>3, <2>4, <3>2, <3>3, InMonthIsMonthOf
    <3>5. QED
      BY <3>2, <3>4
  <2> DEFINE at_hour(h) == {d \in counted : HourOf(BuildDiaryWithPhotos(d).diary_date) = h}
             told == DOMAIN Insights.distribution
  <2>14. \A h : at_hour(h) = {d \in R : HourSlot(d) = h}
    BY <2>5, <2>11
  <2>15. Insights.distribution = Distribution
    BY DEF Insights
  <2>16. /\ Cardinality(told) <= MaxSlots
         /\ \A h \in told : Insights.distribution[h] = Cardinality(at_hour(h))
         /\ \A d \in counted : HourOf(BuildDiaryWithPhotos(d).diary_date) \notin told =>
               /\ Cardinality(told) = MaxSlots
               /\ \A h \in told :
                     Cardinality(at_hour(HourOf(BuildDiaryWithPhotos(d).diary_date)))
                        <= Cardinality(at_hour(h))
    <3> HIDE DEF at_hour
    <3>1. QED
      BY <2>1, <2>5, <2>6, <2>11, <2>14, <2>15, BusiestHoursTold
  <2>17. QED
    BY <2>2, <2>9, <2>10, <2>12, <2>13, <2>16 DEF InsightsAddUp
<1>2. QED
  BY <1>1, InvAlways, PTL
=============================================================================
