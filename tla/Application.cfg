\* A block of up to four bytes, cut into every possible row of strings of argv
\* and of the environment, each of the latter at its place or replaced by a
\* string of up to one character; titles shorter and longer than all of them.
\* All choices of servers, and a second SIGTERM.
SPECIFICATION AppFairSpec
CONSTANTS
    Char = {"/", ".", "a"}
    Slash = "/"
    Dot = "."
    NPos = 7
    MaxSize = 4
    SetLength = 1
    TitleLengths = {2, 20}
    MaxSigterms = 2
INVARIANTS
    GivenStringsKept
    TitleContained
    RequestsHandled
    StoppedAtReturn
    OneSigtermIsSafe
PROPERTY
    SigtermEnds
CHECK_DEADLOCK FALSE
