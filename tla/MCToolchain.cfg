\* Texts of five lines, an until capped at two rounds; two proposals of seven nodes;
\* an editor's session of six messages; 116 thousand situations of a launch.
SPECIFICATION MCSpec
CONSTANTS
    Alphabets <- Themes
    MaxLines = 5
    RoundCap = 2
    HasCacheBudget = TRUE
    NoRow = NoRow
    Document <- d0
    HandWritten <- byhand
    HandKeys = {"hand", "second"}
    MaxProposals = 2
    MaxTasks = 2
    MaxVersion = 2
    Uris = {u1}
    EditorTexts = {t1, t2}
    Fixable = {t1, t2}
    NoText = NoText
    MaxSent = 6
    Documents <- MCDocuments
    Files <- MCFiles
    Surroundings <- MCSurroundings
    Options <- MCOptions
INVARIANTS NothingIsDropped WarningsAreComplete ModesAgree EveryNodeIsReachedOnce
           EditorAgrees CheckedConfigLaunches EntryPointsAgree
PROPERTY ApprovalsKeepTheRest
CHECK_DEADLOCK FALSE
