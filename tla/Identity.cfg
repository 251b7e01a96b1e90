SPECIFICATION MCSpec
CONSTANTS
    None = None
    Handlers = {1, 2}
    Invites = {1, 2}
    Accounts = {1, 2}
    Emails = {e1, e2}
    Other = e2
    Platform = {2}
    MayFail = TRUE
INVARIANTS
    TypeOK
    NoAccountUnattended
    RemovedUsersHaveNoAccount
    AcceptedInvitesMadeUsers
PROPERTIES
    UnattendedIsResolved
CHECK_DEADLOCK FALSE
