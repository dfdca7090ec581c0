\* Two uploads into one diary at the same time.
SPECIFICATION Spec
CONSTANTS
    r1 = r1
    r2 = r2
    Request = {r1, r2}
    None = None
    MaxPhotos = 2
    MaxFiles = 1
    NumPhotos = 6
SYMMETRY MCSymmetry
CHECK_DEADLOCK FALSE
INVARIANT PhotoLimit
