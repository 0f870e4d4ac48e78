SPECIFICATION Spec
CONSTANTS
    IntMax = 127
    NoNum = NoNum
    NoSession = NoSession
    FirstTime = 4
    Workers = {w1, w2}
    Keys = {k1}
    Timestamps = {t1, t2}
    Offsets = {1, 4}
    Spans = {1, 2}
    Indexed = TRUE
    Window = 1
    MaxTime = 7
INVARIANTS SequenceIdentity PlaylistIdentity
PROPERTY FreshAdvance
