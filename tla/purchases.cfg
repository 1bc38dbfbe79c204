SPECIFICATION Spec
CONSTANTS
    Users <- HostAndGuest
    Inviter <- InvitedByHost
    Accounts = {n1, n2, n3}
    MinBalance = 2
    Fee = 1
    Percent = 100
    Opening <- EnoughForOne
    Moves <- UpAndDown
    Buyers = {b1, b2}
    Free = free
    Kinds = {"plan", "test"}
    Failures = {"refused", "lost", "crash", "telegram"}
    MaxMoves = 1
    MaxFailures = 1
INVARIANTS RowsHaveAccounts FeesAreForServices NoStrayAccounts
PROPERTIES FeeNeverOverdraws
CHECK_DEADLOCK FALSE
