\* Two repositories and three names, so that names can be swapped; tokens:
\* two threads share the cache; payloads: two processes.
SPECIFICATION CopiesSpec
SYMMETRY Symmetry
CONSTANTS
    Repos = {p, q}
    Names = {x, y, z}
    Rows = {v, w}
    None = None
    Installations = {i, j}
    Threads = {s, t}
    Lifetime = 5
    Margin = 2
    CallTime = 1
    CommandTime = 2
    Skew = 1
    Requests = {h1, h2}
    Keys = {"repositories", "repository", "pull-requests", "analysis-runs",
            "dashboard-summary", "quality-gate-config", "coverage-config"}
    Nothing = Nothing
INVARIANTS
    TypeOK
    TokensOutliveRequests
    PayloadsAreSound
PROPERTIES
    RowsFollowRepositories
