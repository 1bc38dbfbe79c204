SPECIFICATION FairSpec
CONSTANTS
    Users <- OneUser
    Services <- TwoServices
    Owner <- SoleOwner
    Inviter <- NoInviter
    Price <- PriceWhole
    Percent = 0
    Opening <- Pennies
    Syncs = {s1}
    Cashiers = {c1}
    Cleaners = {k1}
    Desks = {}
    Free = free
    Requests = {}
    Amounts = {2}
    Failures = {"refused"}
    MaxUsed = 1
    MaxClock = 2
    MaxOrders = 2
    MaxFailures = 2
INVARIANTS RowsMatchPanel
PROPERTIES CutOff Restored DeletedIsFinal
CHECK_DEADLOCK FALSE
