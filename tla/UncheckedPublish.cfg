CONSTANTS
    author = author
    reviewer = reviewer
    admin = admin
    None = None
    Problems = {p1}
    Users = {author, reviewer, admin}
    Permissions <- MCPermissions
    Budgets <- MCBudgets
    ArchiveInputs <- MCArchiveInputs
    Uploads <- MCUploads
    Requests = {q1}
    VisibilityInputs = {"public"}
    MaxStatements = 2
    MaxUploads = 2
    MaxChecks = 1
    MaxFaults = 0
SPECIFICATION Spec
INVARIANT PublishedIsChecked
CHECK_DEADLOCK FALSE
