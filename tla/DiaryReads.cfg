\* Two diaries and two photos at most, around New Year, and one commit of somebody
\* else during a read.  The rows are used up: no deadlock check.
SPECIFICATION Spec
CONSTANTS
    Null = Null
    A = A
    B = B
    Road = Road
    Link = Link
    MaxDiaries = 2
    MaxPhotoIds = 2
    MaxWrites = 1
    FiledDays <- MCFiledDays
    Pictures <- MCPictures
    Replies <- MCReplies
    Searches <- MCSearches
    Bodies <- MCBodies
    FirstOfMonth <- MCFirstOfMonth
    MaxSpan = 7
    MinDays = 2
    MaxSlots = 1
    MaxTags = 1
CHECK_DEADLOCK FALSE
INVARIANTS
    TypeOK
    AnswerHoldsItsDays
    ShownTimeIsOfMeal
    InsightsAddUp
    UneditedShowsFirstSuggestion
