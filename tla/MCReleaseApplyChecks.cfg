CONSTANTS
    Repo <- MCRepo
    Order <- MCOrder
    RepoOf <- MCRepoOf
    Trigger <- MCTrigger
    Edits <- MCEdits
    Pinned = {"lib"}
    AlwaysNeeded = {}
    Skip = {{}, {"lib"}}
    MaxDevelop = 1
    MaxRuns = 2
SPECIFICATION Spec
PROPERTIES UsedRefsChecked
CHECK_DEADLOCK FALSE
