CONSTANTS
    author = author
    reviewer = reviewer
    admin = admin
    None = None
    Problems = {p1}
    Users = {author, reviewer, admin}
    Permissions <- MCPermissions
    Budgets <- MCBudgets
    ArchiveInputs <- MCArchiveInputs
    Uploads <- MCUploads
    Requests = {q1, q2}
    VisibilityInputs = {"private"}
    MaxStatements = 2
    MaxUploads = 2
    MaxChecks = 1
    MaxFaults = 1
SYMMETRY RequestSymmetry
SPECIFICATION Spec
INVARIANTS TypeOK PublishedWasReviewed SetsHaveArchives ConsoleNamesFirstBlocker ParserPairsExactly
PROPERTY PublishedContentFrozen
CHECK_DEADLOCK FALSE
