\* Three requests of any kind, at most three photos in the diary, one or two files
\* a request.  The requests are used up: no deadlock check.
SPECIFICATION Spec
CONSTANTS
    r1 = r1
    r2 = r2
    r3 = r3
    Request = {r1, r2, r3}
    None = None
    MaxPhotos = 3
    MaxFiles = 2
    NumPhotos = 6
SYMMETRY MCSymmetry
CHECK_DEADLOCK FALSE
INVARIANTS
    TypeOK
    RowHasFile
    PhotoCountReadable
    CountCoversPhotos
    CoverIsAPhoto
    NothingLeftBehind
