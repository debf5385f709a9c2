\* Two source files and a test; up to two items and four characters.
SPECIFICATION Spec
CONSTANTS
    Paths = {1, 2, 3}
    TestPaths = {3}
    Named <- NamedLists
    Length <- Lengths
    Chars <- Excerpts
    Lines = {1, 8}
    Scores = {1, 20}
    MaxRows = 3
    ItemCounts = {1, 2}
    MinResults = 1
    Budget = 4
    Trim <- Trimmed
    Profiles = {"minimal", "normal"}
    Texts <- AnswerSizes
    Baselines = {100, 200, 5000, 11110}
INVARIANTS
    TypeOK
    NothingVanishes
    OmissionsAreForced
    CountsWithinTwo
