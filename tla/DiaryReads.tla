----------------------------- MODULE DiaryReads -----------------------------
(***************************************************************************)
(* What the app gets to see of its diaries: GET /diaries and its calendar  *)
(* view, GET /diaries/{id} and its suggestions, GET /me/insights.          *)
(*                                                                         *)
(* A read is several SELECTs of one session under READ COMMITTED: the      *)
(* diaries, then their photos and covers; other requests commit in         *)
(* between.  A write is one transaction here: what writes do to each other *)
(* is in DiaryPhotos, BatchUpload and AnalysisPipeline.                    *)
(*                                                                         *)
(* The diaries are those of one user: every query asks for its user_id.    *)
(* A place is a record of name, link, road address and lot address, a lot  *)
(* address a sequence of words.                                            *)
(***************************************************************************)
EXTENDS KstTime, FiniteSetsExt, SequencesExt

CONSTANTS
    Null,            \* no value: None, or null in the JSON of a reply
    MaxDiaries, MaxPhotoIds,   \* bounds on the rows ever inserted
    MaxWrites,       \* bound on the writes that commit during a read
    FiledDays,       \* days diaries are filed under
    Pictures,        \* EXIF data of the pictures users upload
    Replies,         \* replies of the language model: sequences of items, or other JSON
    Searches,        \* answers of Kakao to one search: sequences of pages
    Bodies,          \* what else than an offered restaurant a PATCH may send
    FirstOfMonth,    \* the first day of each <<year, month>> of the calendar
    MaxSpan,         \* the 42 days of get_diaries_by_date_range
    MinDays,         \* MIN_DIARY_THRESHOLD
    MaxSlots,        \* the 5 time slots of calculate_diary_time_stats
    MaxTags          \* the 10 of calculate_tag_stats and calculate_location_stats

Categories == {"korean", "chinese", "japanese", "western", "etc", "home_cooked"}

ASSUME ReadsAssumption ==
    /\ {MaxDiaries, MaxPhotoIds, MaxWrites, MaxSpan, MinDays, MaxSlots, MaxTags} \subseteq Nat
    /\ FiledDays \subseteq Day
    /\ Null \notin Int \cup Categories
    /\ \A picture \in Pictures : picture.clock \in Int \cup {Null}
    /\ \A reply \in Replies : reply # Null => reply \in Seq(Range(reply))
    /\ \A body \in Bodies : "category" \in DOMAIN body => body.category \in Categories \cup {Null}

VARIABLES
    diaries,         \* rows of diaries
    photos,          \* rows of photos
    photo_seq,       \* photo ids given so far
    analysis,        \* diary_analysis.result of each diary
    read             \* the read under way: what was asked and what is loaded

vars == <<diaries, photos, photo_seq, analysis, read>>

Meals == {"breakfast", "lunch", "dinner", "snack"}
Id == 1 .. MaxDiaries
PhotoId == 1 .. MaxPhotoIds
Live == {d \in diaries : ~d.deleted}

\* A table with a primary key.
Keyed(table) == \A x, y \in table : x.id = y.id => x = y

TypeOK ==
    /\ Keyed(diaries) /\ Keyed(photos)
    /\ \A d \in diaries :
          /\ d.id \in Id /\ d.day \in FiledDays /\ d.deleted \in BOOLEAN
          /\ d.diary_date \in Instant /\ d.time_type \in Meals
          /\ d.cover_photo_id \in PhotoId \cup {Null} /\ d.photo_count \in 0 .. MaxPhotoIds
          /\ d.category \in Categories \cup {Null}
    /\ \A p \in photos : p.id \in 1 .. photo_seq /\ \E d \in diaries : d.id = p.diary_id
    /\ photo_seq \in 0 .. MaxPhotoIds
    /\ DOMAIN analysis \subseteq Id /\ \A i \in DOMAIN analysis : analysis[i] # <<>>
    /\ read.writes \in 0 .. MaxWrites /\ read.kind \in {"none", "range", "calendar", "diary", "insights"}
    /\ read.todo \subseteq {"photos", "covers", "previous"}

NoRead == [kind |-> "none", asked |-> {}, start |-> 0, end |-> 0, month |-> <<0, 0>>,
           rows |-> {}, photos |-> {}, covers |-> {}, previous |-> {}, todo |-> {}, writes |-> 0]

Init ==
    /\ diaries = {} /\ photos = {} /\ photo_seq = 0
    /\ analysis = <<>>
    /\ read = NoRead
-----------------------------------------------------------------------------
\* Uploads and edits.

\* extract_exif_data takes the camera's clock for a Korean one.
TakenAt(picture) == IF picture.clock = Null THEN Null ELSE KstNaiveToUtc(picture.clock)

\* A coordinate of 0 counts as none.
Located(picture) == {picture.latitude, picture.longitude} \cap {0, Null} = {}

\* Faulty: no branch for the night.
ClassifyTimeType_NoNight(taken_at) ==
    IF taken_at = Null THEN "lunch"
    ELSE LET hour == HourOf(UtcToKst(taken_at))
         IN  CASE hour \in 5 .. 9 -> "breakfast"
               [] hour \in 10 .. 16 -> "lunch"
               [] hour \in 17 .. 21 -> "dinner"
               [] OTHER -> Null

\* classify_time_type.
ClassifyTimeType(taken_at) ==
    IF taken_at = Null THEN "lunch"
    ELSE LET hour == HourOf(UtcToKst(taken_at))
         IN  CASE hour \in 5 .. 9 -> "breakfast"
               [] hour \in 10 .. 16 -> "lunch"
               [] hour \in 17 .. 21 -> "dinner"
               [] OTHER -> "snack"

NewDiary(day, meal) ==
    [id |-> Cardinality(diaries) + 1, day |-> day,
     diary_date |-> KstDateToUtc(day), time_type |-> meal, deleted |-> FALSE,
     cover_photo_id |-> Null, photo_count |-> 0, restaurant_name |-> Null,
     restaurant_url |-> Null, road_address |-> Null, address_name |-> Null,
     category |-> Null, tags |-> {}, edited |-> FALSE]

\* Another request commits.
Meanwhile ==
    IF read.kind = "none" THEN UNCHANGED read
    ELSE read.writes < MaxWrites /\ read' = [read EXCEPT !.writes = @ + 1]

\* A new photo of d, with d as it becomes.
Store(d, new, taken_at, located) ==
    /\ photo_seq < MaxPhotoIds /\ photo_seq' = photo_seq + 1
    /\ photos' = photos \cup
          {[id |-> photo_seq + 1, diary_id |-> d.id, taken_at |-> taken_at, located |-> located]}
    /\ diaries' = (diaries \ {d}) \cup {new}
    /\ Meanwhile /\ UNCHANGED analysis

\* POST /photos/batch-upload of one picture: into the user's live diary of the
\* day and meal, or a new one.
Upload(day, picture) ==
    LET meal == ClassifyTimeType(TakenAt(picture))
        found == {x \in Live : x.time_type = meal /\ x.diary_date = KstDateToUtc(day)}
    IN  /\ found # {} \/ Cardinality(diaries) < MaxDiaries
        /\ \E d \in IF found # {} THEN found ELSE {NewDiary(day, meal)} :
              Store(d, [d EXCEPT !.photo_count = @ + 1,
                                 !.cover_photo_id = IF @ = Null THEN photo_seq + 1 ELSE @],
                    TakenAt(picture), Located(picture))

\* POST /diaries/{id}/photos: no EXIF data are read, no cover is set.
AddPhoto(d) == Store(d, [d EXCEPT !.photo_count = @ + 1], Null, FALSE)

PhotosOf(d) == {p \in photos : p.diary_id = d.id}
Ids(S) == {x.id : x \in S}
-----------------------------------------------------------------------------
\* The analysis: what Kakao and the language model say, as it is kept.

\* search_nearby_restaurants: pages are fetched up to the last one or an empty
\* one; one that fails drops them all.
SearchNearbyRestaurants(pages) ==
    LET last == SelectInSeq(pages, LAMBDA p : p.fails \/ p.documents = <<>> \/ p.is_end)
        fetched == SubSeq(pages, 1, IF last = 0 THEN Len(pages) ELSE last)
    IN  IF \E p \in Range(fetched) : p.fails THEN <<>>
        ELSE FlattenSeq([i \in DOMAIN fetched |-> fetched[i].documents])

\* analyze_food_images: what is JSON, but no list, counts as an empty one.
AnalyzeFoodImages(reply) == IF reply = Null THEN <<>> ELSE reply

\* analyze_diary_photos: an item of the reply gets the lot address of the nearby
\* place with its name, the last of several.  Anything that fails on the way, and
\* 30 seconds, give the empty list.
AnalyzeDiaryPhotos(located, pages, reply) ==
    LET nearby == IF located THEN SearchNearbyRestaurants(pages) ELSE <<>>
        AddressOf(name) == LET last == SelectLastInSeq(nearby, LAMBDA p : p.name = name)
                           IN  IF last = 0 THEN Null ELSE nearby[last].address_name
        items == AnalyzeFoodImages(reply)
    IN  [i \in DOMAIN items |-> [items[i] EXCEPT !.address_name = AddressOf(items[i].restaurant_name)]]

\* The results the analysis of a diary may have; the empty one is an error.
Results ==
    [located \in BOOLEAN |->
        {AnalyzeDiaryPhotos(located, pages, reply) : pages \in Searches, reply \in Replies} \ {<<>>}]

\* DiaryCategory.from_str.
FromStr(category) == IF category \in Categories THEN category ELSE Null

\* _extract_top_restaurant.
ExtractTopRestaurant(result) == result[1]

\* save_diary_analysis, apply_top_restaurant: what becomes of the diary.  The first
\* item fills the columns, the first photo becomes the cover.
Analysed(d, result) ==
    LET top == ExtractTopRestaurant(result)
    IN  [d EXCEPT !.restaurant_name = top.restaurant_name,
                  !.restaurant_url = top.restaurant_url,
                  !.road_address = top.road_address,
                  !.address_name = top.address_name,
                  !.category = FromStr(top.category),
                  !.tags = result[1].tags, !.edited = FALSE,
                  !.cover_photo_id = IF PhotosOf(d) = {} THEN @ ELSE Min(Ids(PhotosOf(d)))]

\* Faulty: the result that is there stays.
SaveAnalysis_KeepsResult(d, result) ==
    /\ analysis' = [i \in DOMAIN analysis \cup {d.id} |->
                       IF i \in DOMAIN analysis THEN analysis[i] ELSE result]
    /\ diaries' = (diaries \ {d}) \cup {Analysed(d, result)}
    /\ Meanwhile /\ UNCHANGED <<photos, photo_seq>>

\* _save_analysis_result of a diary, also of one that is done or deleted by now: the
\* worker may be a late one.
SaveAnalysis(d, result) ==
    /\ analysis' = [i \in DOMAIN analysis \cup {d.id} |-> IF i = d.id THEN result ELSE analysis[i]]
    /\ diaries' = (diaries \ {d}) \cup {Analysed(d, result)}
    /\ Meanwhile /\ UNCHANGED <<photos, photo_seq>>

\* parse_diary_analysis: the suggestions, those that can be shown.
ParseDiaryAnalysis(result) ==
    FoldLeft(LAMBDA kept, c : IF Null \notin {c.restaurant_name, c.restaurant_url, c.road_address}
                              THEN Append(kept, c) ELSE kept, <<>>, result)

\* A RestaurantItem of a suggestion; it takes no null for a category.
RestaurantItem(c) == c.category # Null

\* get_diary_restaurants; one item that is refused makes the answer an error.
Suggestions(d) ==
    LET parsed == IF d.id \in DOMAIN analysis THEN ParseDiaryAnalysis(analysis[d.id]) ELSE <<>>
    IN  IF \A c \in Range(parsed) : RestaurantItem(c)
        THEN {[restaurant_name |-> c.restaurant_name, restaurant_url |-> c.restaurant_url,
               road_address |-> c.road_address, address_name |-> Null] : c \in Range(parsed)}
        ELSE {}

\* search_restaurants_by_keyword: one page of places; nothing if the call fails.
SearchRestaurantsByKeyword(page) == IF page.fails THEN {} ELSE Range(page.documents)

\* search_by_keyword: those that can be shown.
SearchByKeyword(page) ==
    {[restaurant_name |-> p.name, restaurant_url |-> p.url, road_address |-> p.road_address,
      address_name |-> p.address_name] :
     p \in {q \in SearchRestaurantsByKeyword(page) : Null \notin {q.name, q.url, q.road_address}}}

\* What a search by keyword may show.
Found == UNION {SearchByKeyword(page) : page \in UNION {Range(pages) : pages \in Searches}}

\* search_restaurants: the restaurants the app can show to choose from for d, with a
\* keyword those found, without one the suggestions.
Offered(d) == Found \cup Suggestions(d)

\* exclude_unset, exclude_none: a field that is not sent, or sent as null, stays.
Sends(body, field) == field \in DOMAIN body /\ body[field] # Null
Sent(body, field, old) == IF Sends(body, field) THEN body[field] ELSE old

\* PATCH /diaries/{id} with any of the fields: nothing asks whether the restaurant
\* was offered.  Some photos stay, of which one is the cover: the one the client
\* names, the old one or the first.
Edit(d, body, keep, cover) ==
    /\ keep # {} /\ cover \in keep
    /\ photos' = photos \ {p \in PhotosOf(d) : p.id \notin keep}
    /\ diaries' = (diaries \ {d}) \cup
          {[d EXCEPT !.restaurant_name = Sent(body, "restaurant_name", @),
                     !.restaurant_url = Sent(body, "restaurant_url", @),
                     !.road_address = Sent(body, "road_address", @),
                     !.address_name = Sent(body, "address_name", @),
                     !.category = Sent(body, "category", @),
                     !.tags = Sent(body, "tags", @),
                     !.edited = @ \/ \E field \in {"restaurant_name", "restaurant_url", "road_address"} :
                                        Sends(body, field),
                     !.cover_photo_id = cover, !.photo_count = Cardinality(keep)]}
    /\ Meanwhile /\ UNCHANGED <<photo_seq, analysis>>

\* DELETE /diaries/{id}; the foreign key clears the cover.
Delete(d) ==
    /\ diaries' = (diaries \ {d}) \cup {[d EXCEPT !.deleted = TRUE, !.cover_photo_id = Null]}
    /\ photos' = photos \ PhotosOf(d)
    /\ Meanwhile /\ UNCHANGED <<photo_seq, analysis>>
-----------------------------------------------------------------------------
\* Reads.

\* Faulty: the bounds are UTC midnights.
InDays_Utc(d, start, end) == 24 * start <= d.diary_date /\ d.diary_date < 24 * (end + 1)

\* The bounds of the crud get_diaries_by_date_range.
InDays(d, start, end) ==
    KstDateToUtc(start) <= d.diary_date /\ d.diary_date < KstDateToUtc(end + 1)

Ask(question) == read.kind = "none" /\ read' = question /\ UNCHANGED <<diaries, photos, photo_seq, analysis>>

\* The usecase get_diaries_by_date_range: any other range is refused.
AskRange(kind, start, end) ==
    /\ start <= end /\ end - start <= MaxSpan
    /\ Ask([NoRead EXCEPT !.kind = kind, !.asked = Live, !.start = start, !.end = end,
                          !.rows = {d \in Live : InDays(d, start, end)},
                          !.todo = {"photos", "covers"}])

\* GET /diaries, and GET /diaries/summary for the calendar.
GetDiariesByDateRange(start, end) == AskRange("range", start, end)
GetDiariesSummaryByDateRange(start, end) == AskRange("calendar", start, end)

GetDiary(d) ==
    /\ d \in Live
    /\ Ask([NoRead EXCEPT !.kind = "diary", !.asked = {d}, !.start = d.day, !.end = d.day,
                          !.rows = {d}, !.todo = {"photos", "covers"}])

NextMonth(month) == IF month[2] = 12 THEN <<month[1] + 1, 1>> ELSE <<month[1], month[2] + 1>>
PreviousMonth(month) == IF month[2] = 1 THEN <<month[1] - 1, 12>> ELSE <<month[1], month[2] - 1>>

\* The months follow each other, and days diaries are filed under lie in one.
ASSUME CalendarAssumption ==
    /\ DOMAIN FirstOfMonth \subseteq Int \X (1 .. 12)
    /\ FirstOfMonth \in [DOMAIN FirstOfMonth -> Day]
    /\ \A m, n \in DOMAIN FirstOfMonth :
          m[1] < n[1] \/ (m[1] = n[1] /\ m[2] < n[2]) => FirstOfMonth[m] < FirstOfMonth[n]
    /\ \A day \in FiledDays : \E m \in DOMAIN FirstOfMonth :
          /\ NextMonth(m) \in DOMAIN FirstOfMonth
          /\ FirstOfMonth[m] <= day /\ day < FirstOfMonth[NextMonth(m)]

\* get_month_date_range, and the WHERE of get_diaries_for_insights.
InMonth(d, month) ==
    /\ KstDateToUtc(FirstOfMonth[month]) <= d.diary_date
    /\ d.diary_date < KstDateToUtc(FirstOfMonth[NextMonth(month)])

\* generate_insights, in a month with a month before and after.
GenerateInsights(month) ==
    /\ {PreviousMonth(month), NextMonth(month)} \subseteq DOMAIN FirstOfMonth
    /\ Ask([NoRead EXCEPT !.kind = "insights", !.asked = Live, !.month = month,
                          !.rows = {d \in Live : InMonth(d, month)},
                          !.todo = {"covers", "previous"}])

Load(what, loaded) ==
    /\ what \in read.todo
    /\ read' = [loaded EXCEPT !.todo = @ \ {what}]
    /\ UNCHANGED <<diaries, photos, photo_seq, analysis>>

\* The selectinload of photos, and that of cover_photo.
LoadPhotos == Load("photos", [read EXCEPT !.photos = {p \in photos : p.diary_id \in Ids(read.rows)}])

LoadCovers ==
    Load("covers", [read EXCEPT !.covers =
        {p \in photos : p.id \in {d.cover_photo_id : d \in read.rows}}])

SelectPrevious ==
    /\ "covers" \notin read.todo
    /\ Load("previous", [read EXCEPT !.previous = {d \in Live : InMonth(d, PreviousMonth(read.month))}])

Answered(kinds) == read.kind \in kinds /\ read.todo = {}

\* The answer is sent; what it says is defined below.
Answer ==
    /\ read.kind # "none" /\ read.todo = {}
    /\ read' = NoRead
    /\ UNCHANGED <<diaries, photos, photo_seq, analysis>>
-----------------------------------------------------------------------------
\* Answers.

CoverOf(d) == {p \in read.covers : p.id = d.cover_photo_id /\ p.taken_at # Null}

\* Faulty: the time of the cover is left in UTC.
MergeDateWithCoverTakenAt_Utc(d) ==
    24 * DateOf(UtcToKst(d.diary_date)) +
        IF CoverOf(d) = {} THEN 0 ELSE HourOf((CHOOSE p \in CoverOf(d) : TRUE).taken_at)

\* _merge_date_with_cover_taken_at: a Korean reading.
MergeDateWithCoverTakenAt(d) ==
    24 * DateOf(UtcToKst(d.diary_date)) +
        IF CoverOf(d) = {} THEN 0 ELSE HourOf(UtcToKst((CHOOSE p \in CoverOf(d) : TRUE).taken_at))

\* _build_diary_with_photos; a cover that is not among the photos has no link.
BuildDiaryWithPhotos(d) ==
    LET own == Ids({p \in read.photos : p.diary_id = d.id})
    IN  [id |-> d.id, diary_date |-> MergeDateWithCoverTakenAt(d), time_type |-> d.time_type,
         cover_photo_url |-> own \cap {d.cover_photo_id}, photos |-> own]

Built == {BuildDiaryWithPhotos(d) : d \in read.rows}

\* _build_date_photos_response.
BuildDatePhotosResponse ==
    [day \in (read.start .. read.end) \cup {DateOf(a.diary_date) : a \in Built} |->
        UNION {a.photos : a \in {b \in Built : DateOf(b.diary_date) = day}}]

\* How many rows have each key; a row may have several.
Tally(rows, Keys(_)) ==
    [k \in UNION {Keys(d) : d \in rows} |-> Cardinality({d \in rows : k \in Keys(d)})]

\* A choice of n keys, of all if they are fewer, none of which counts less than one
\* that is left out.
Leads(S, tally, n) ==
    /\ Cardinality(S) <= n /\ (Cardinality(S) = n \/ S = DOMAIN tally)
    /\ \A k \in S, l \in DOMAIN tally \ S : tally[l] <= tally[k]

\* Counter.most_common.  The rows come in no order, so any keys with one count.
MostCommon(tally, n) ==
    Restrict(tally, CHOOSE S \in SUBSET DOMAIN tally : Leads(S, tally, n))

\* Faulty: days of the month are counted from one, so the seventh opens the second week.
WeekOf_FromOne(d) == (DateOf(UtcToKst(d.diary_date)) - FirstOfMonth[read.month] + 1) \div 7 + 1

WeekOf(d) == (DateOf(UtcToKst(d.diary_date)) - FirstOfMonth[read.month]) \div 7 + 1

\* _extract_dong: the word before the first number, or else the last word, if it
\* ends like the name of a quarter.
ExtractDong(address) ==
    LET number == SelectInSeq(address, LAMBDA w : w.number)
        at == IF number = 0 THEN Len(address) ELSE number - 1
    IN  IF at > 0 /\ address[at].dong_level THEN {address[at].word} ELSE {}

\* The hour a diary is counted under; the half hours are left out.
HourSlot(d) == HourOf(IF CoverOf(d) = {} THEN UtcToKst(d.diary_date)
                      ELSE UtcToKst((CHOOSE p \in CoverOf(d) : TRUE).taken_at))

\* has_sufficient_data; too few days are a 400.
HasSufficientData == Cardinality({DateOf(UtcToKst(d.diary_date)) : d \in read.rows}) >= MinDays

PhotoCount(rows) == MapThenSumSet(LAMBDA d : d.photo_count, rows)

\* calculate_photo_stats: in percent, unrounded; from nothing to something is 100.
ChangeRate ==
    LET current == PhotoCount(read.rows)
        previous == PhotoCount(read.previous)
    IN  IF previous > 0 THEN ((current - previous) * 100) \div previous
        ELSE IF current > 0 THEN 100 ELSE 0

CategoryCounts(rows) == [c \in Categories |-> Cardinality({d \in rows : d.category = c})]

\* calculate_category_stats; which category leads is left out.
CategoryStats == [current |-> CategoryCounts(read.rows), previous |-> CategoryCounts(read.previous)]

TagStats == MostCommon(Tally(read.rows, LAMBDA d : d.tags), MaxTags)

LocationStats ==
    MostCommon(Tally(read.rows, LAMBDA d : IF d.address_name = Null THEN {} ELSE ExtractDong(d.address_name)),
               MaxTags)

\* calculate_diary_time_stats; the first slot, as most active, is left out.
Distribution == MostCommon(Tally(read.rows, LAMBDA d : {HourSlot(d)}), MaxSlots)

\* The answer of generate_insights, if there are days enough.
Insights ==
    [change_rate |-> ChangeRate,
     category_stats |-> CategoryStats,
     weekly_counts |-> Tally(read.rows, LAMBDA d : {WeekOf(d)}),
     distribution |-> Distribution,
     tag_stats |-> TagStats,
     location_stats |-> LocationStats]
-----------------------------------------------------------------------------
Next ==
    \/ \E day \in FiledDays, picture \in Pictures : Upload(day, picture)
    \/ \E d \in Live :
          \/ AddPhoto(d) \/ Delete(d)
          \/ \E body \in Bodies \cup Offered(d), keep \in SUBSET Ids(PhotosOf(d)) :
                \E cover \in keep : Edit(d, body, keep, cover)
          \/ GetDiary(d)
    \/ \E d \in diaries : \E result \in Results[\E p \in PhotosOf(d) : p.located] :
          SaveAnalysis(d, result)
    \/ \E start, end \in FiledDays :
          GetDiariesByDateRange(start, end) \/ GetDiariesSummaryByDateRange(start, end)
    \/ \E month \in DOMAIN FirstOfMonth : GenerateInsights(month)
    \/ LoadPhotos \/ LoadCovers \/ SelectPrevious
    \/ Answer

Spec == Init /\ [][Next]_vars
-----------------------------------------------------------------------------
\* Properties.

\* A range of days is answered with the diaries filed under those days when it
\* was asked, each on its day; the calendar view has one entry for each day
\* asked, and in it the photos of the diaries filed under that day.
AnswerHoldsItsDays ==
    Answered({"range", "calendar", "diary"}) =>
        LET days == read.start .. read.end
            wanted == {d \in read.asked : d.day \in days}
        IN  /\ Ids(Built) = Ids(wanted)
            /\ Answered({"calendar"}) => DOMAIN BuildDatePhotosResponse = days
            /\ Answered({"calendar"}) => \A day \in days : BuildDatePhotosResponse[day] =
                  {p.id : p \in {q \in read.photos : \E d \in wanted :
                                     d.day = day /\ q.diary_id = d.id}}

\* The time shown with a diary is on its day and of its meal, also when the photo
\* was taken on another day, or in an hour that belongs to another day in UTC: of the
\* shown time the upload would make the same meal.
ShownTimeIsOfMeal ==
    Answered({"range", "calendar", "diary"}) =>
        \A d \in read.rows : CoverOf(d) # {} =>
            LET shown == BuildDiaryWithPhotos(d).diary_date
            IN  DateOf(shown) = d.day /\ ClassifyTimeType(KstNaiveToUtc(shown)) = d.time_type

MonthOf(day) ==
    CHOOSE m \in DOMAIN FirstOfMonth :
        /\ FirstOfMonth[m] <= day
        /\ \A n \in DOMAIN FirstOfMonth : FirstOfMonth[n] <= day => FirstOfMonth[n] <= FirstOfMonth[m]

Total(tally) == MapThenSumSet(LAMBDA k : tally[k], DOMAIN tally)

\* The insights of a month are about the diaries filed under a day of it, and all of
\* them, if these are days enough: each is counted in one week, the one of its day,
\* and in its category.  The hours of the distribution are those the app shows with
\* the diaries; all diaries of an hour are counted, and the hours left out are no
\* busier than those that are told.  The month compared with is the one before.
InsightsAddUp ==
    Answered({"insights"}) =>
        LET counted == {d \in read.asked : MonthOf(d.day) = read.month}
            in_week(w) == {d \in counted :
                d.day - FirstOfMonth[read.month] \in (7 * w - 7) .. (7 * w - 1)}
            shown_hour(d) == HourOf(BuildDiaryWithPhotos(d).diary_date)
            at_hour(h) == {d \in counted : shown_hour(d) = h}
            answer == Insights
            told == DOMAIN answer.distribution
        IN  /\ HasSufficientData <=> Cardinality({d.day : d \in counted}) >= MinDays
            /\ HasSufficientData =>
                  /\ Total(answer.weekly_counts) = Cardinality(counted)
                  /\ \A w \in DOMAIN answer.weekly_counts :
                        answer.weekly_counts[w] = Cardinality(in_week(w))
                  /\ Total(answer.category_stats.current) =
                        Cardinality({d \in counted : d.category # Null})
                  /\ Cardinality(told) <= MaxSlots
                  /\ \A h \in told : answer.distribution[h] = Cardinality(at_hour(h))
                  /\ \A d \in counted : shown_hour(d) \notin told =>
                        /\ Cardinality(told) = MaxSlots
                        /\ \A h \in told : Cardinality(at_hour(shown_hour(d))) <= Cardinality(at_hour(h))
            /\ \A d \in read.previous : FirstOfMonth[NextMonth(MonthOf(d.day))] = FirstOfMonth[read.month]

\* Unless its user has set the restaurant since the last analysis, the restaurant a
\* diary shows, if it can be shown, is the first of its suggestions, also when a late
\* worker saved a second analysis: columns and suggestions come from one reply.
UneditedShowsFirstSuggestion ==
    \A d \in diaries :
        LET shown == <<d.restaurant_name, d.restaurant_url, d.road_address>>
            is_shown(c) == <<c.restaurant_name, c.restaurant_url, c.road_address>> = shown
            suggested == IF d.id \in DOMAIN analysis THEN ParseDiaryAnalysis(analysis[d.id]) ELSE <<>>
        IN  ~d.edited /\ Null \notin Range(shown) => suggested # <<>> /\ is_shown(suggested[1])
=============================================================================
