\* Three votes, of one user or of nobody, and two bookmarks, over two seed runs.
SPECIFICATION Spec
CONSTANTS
    Docs = {d1}
    Results = {x1}
    Users = {u1}
    Anonymous = Anonymous
    Voters = {v1, v2, v3}
    Markers = {m1, m2}
    None = None
    MaxSeeds = 2
SYMMETRY Slots
INVARIANTS TypeOK OneRowPerUser TargetStillThere ConflictOnlyIfOverlapping
PROPERTIES SubmissionsAreUpserts
CHECK_DEADLOCK FALSE
