SPECIFICATION MCSpec
CONSTANTS
    Processes = {p1, p2, p3, p4}
    Contenders = {c1, c2, c3}
    Inodes = {i1, i2, i3}
    NoFile = NoFile
    Empty = Empty
    SerialClaims = TRUE
    ProbeMayFail = FALSE
    NoValue = NoValue
    Infinite = Infinite
    Calls <- MCCalls
    Lines <- MCLines
    Sinks = {"stdout", "file", "bad", "full"}
    Submits = {TRUE, FALSE}
    Rejected = {TRUE, FALSE}
    MaxInterrupts = 2
SYMMETRY MCSymmetry
INVARIANTS
    AtMostOneSupervisor SupervisorIsVisible
    SomeContenderClaims
    OneEnvelope AnswerIsTheChilds NoChildLeft
    AskedIsWatched ValidIsStarted TypedIsHeeded
PROPERTY RefusedOnlyForOwner
CHECK_DEADLOCK FALSE
