SPECIFICATION MCSpec
CONSTANTS
    None = None
    Handlers = {1}
    Invites = {1, 2}
    Accounts = {1, 2}
    Emails = {e1}
    Other = e2
    Platform = {}
    MayFail = FALSE
INVARIANT UndoneAcceptanceMadeNoUser
CHECK_DEADLOCK FALSE
