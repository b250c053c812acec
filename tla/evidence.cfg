\* Configuration, workspace, review and lists, with settings in the module.
SPECIFICATION EvidenceSpec
CONSTANTS
    Settings <- Considered
    MaxExecutions = 2
    Requests = {q1, q2}
    Custom = {c1}
    Unset = Unset
    a = a
    b = b
    q2 = q2
    None = None
    Texts <- SomeTexts
    Titles <- SomeTitles
    Scores <- SomeScores
    PullRequests = {1}
    Shas = {a, b}
    PageSize = 2
    MaxRuns = 2
INVARIANTS
    TypeOK
    WorkspaceIsSound
PROPERTIES
    ConfigurationFits
    ReviewIsOfTheGates
    ScreensAreHonest
\* Executions are bounded and a review ends.
CHECK_DEADLOCK FALSE
