SPECIFICATION MCSpec
CONSTANTS
    IntMax = 127
    NoNum = NoNum
    Null = Null
    MaxRequests = 3
    NoSession = NoSession
    Workers = {w1, w2}
    Keys = {k1}
    Spans = {1}
    MaxLost = 1
    MaxJumps = 1
SYMMETRY Symmetry
INVARIANTS
    AnswersMatched
    PlaylistsExact
    SessionFollows
