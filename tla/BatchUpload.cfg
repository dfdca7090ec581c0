\* Two uploads of up to three files over two meals, two photos in a diary, two
\* disk or database errors.  The requests are used up: no deadlock check.
SPECIFICATION Spec
CONSTANTS
    r1 = r1
    r2 = r2
    Request = {r1, r2}
    Past = Past
    breakfast = breakfast
    lunch = lunch
    Meal = {breakfast, lunch}
    MaxFiles = 3
    MaxPhotos = 2
    MaxFaults = 2
CHECK_DEADLOCK FALSE
INVARIANTS
    TypeOK
    UnspoiltAnswerTrue
    FailureLeavesNothing
    OneLiveDiaryPerMeal
    NoEmptyDiary
    NewDiaryHandedOverOnce
PROPERTY EventuallyAnswered
