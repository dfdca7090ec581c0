---------------------------- MODULE MCDiaryReads ----------------------------
(***************************************************************************)
(* New Year: the days 0 and 31 open December and January.  A diary may be  *)
(* filed under New Year's Day and under the last day of the first week of  *)
(* January, the two days that are enough for the insights here.            *)
(***************************************************************************)
EXTENDS DiaryReads

CONSTANTS A, B, Road, Link

MCFirstOfMonth == <<2025, 12>> :> 0 @@ <<2026, 1>> :> 31 @@ <<2026, 2>> :> 62 @@ <<2026, 3>> :> 90
MCFiledDays == {31, 37}

\* On New Year's Eve at four in the afternoon, with a place; at one in the night
\* after it, without one.  A photo without EXIF data comes with AddPhoto.
MCPictures == {
    [clock |-> 24 * 30 + 16, latitude |-> 37, longitude |-> 127],
    [clock |-> 24 * 31 + 1, latitude |-> 0, longitude |-> 127]}

Item(name, url, road, category) ==
    [restaurant_name |-> name, restaurant_url |-> url, road_address |-> road,
     address_name |-> Null, category |-> category, tags |-> {"noodles"}]

\* A reply that names two places, one that names a place without an address
\* first, and one that is no list.
MCReplies == {
    <<Item(A, Link, Road, "korean"), Item(B, Link, Road, "etc")>>,
    <<Item(A, Link, Null, "noodles"), Item(B, Link, Road, "korean")>>,
    Null}

Word(word, number, dong_level) == [word |-> word, number |-> number, dong_level |-> dong_level]
Document(name, quarter, url) ==
    [name |-> name, road_address |-> Road, url |-> url,
     address_name |-> <<Word("Seoul", FALSE, FALSE), Word(quarter, FALSE, TRUE),
                        Word("224-1", TRUE, FALSE)>>]
Page(documents, is_end, fails) == [documents |-> documents, is_end |-> is_end, fails |-> fails]

\* Two pages, on which a name stands twice, once without a link; a second page
\* that fails.
MCSearches == {
    <<Page(<<Document(B, "Yeonnam", Link)>>, FALSE, FALSE),
      Page(<<Document(B, "Yeonnam", Null)>>, TRUE, FALSE)>>,
    <<Page(<<Document(B, "Yeonnam", Link)>>, FALSE, FALSE), Page(<<>>, TRUE, TRUE)>>}

\* A name without the rest of its place, and a null.
MCBodies == {[restaurant_name |-> B, restaurant_url |-> Null]}
=============================================================================
