\* A change none of whose files the coverage report has.
SPECIFICATION GatesSpec
CONSTANTS
    SourceFiles <- AppFiles
    Formats <- ReportFormats
    MinTotals = {0, 5000, 6667}
    MaxDrops <- DropLimits
    MinChanged = {0, 6667}
    NoLimit <- Unlimited
    NoFile = NoFile
    BaseReports <- Measurements
    TiesDown = {}
    MaxLines = 3
    MaxRepeated = 1
    Setups <- ChangeSets
    MaxComplexity = 2
    MaxGap = 1
    NotGiven = NotGiven
    f1 = f1
    f2 = f2
    LanguagesScanned = {"python", "go"}
    Policies <- FailOn
    Words = {"critical", "error", "warning", "medium", "moderate", "info"}
    MaxItems <- MostItems
INVARIANT OmittedFilesCountAsZero
\* A gate ends.
CHECK_DEADLOCK FALSE
