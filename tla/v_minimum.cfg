SPECIFICATION Spec
CONSTANTS
    Users <- Guest
    Inviter <- InvitedByHost
    Accounts = {n1, n2}
    MinBalance = 2
    Fee = 1
    Percent = 100
    Opening <- EnoughForOne
    Moves <- NoMoves
    Buyers = {b1, b2}
    Free = free
    Kinds = {"plan"}
    Failures = {}
    MaxMoves = 0
    MaxFailures = 0
PROPERTY MinimumForNewService
CHECK_DEADLOCK FALSE
