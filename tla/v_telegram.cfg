SPECIFICATION Spec
CONSTANTS
    Users <- OneUser
    Services <- OneService
    Owner <- SoleOwner
    Inviter <- NoInviter
    Price <- PriceWhole
    Percent = 0
    Opening <- Pennies
    Syncs = {}
    Cashiers = {}
    Cleaners = {}
    Desks = {d1}
    Free = free
    Requests = {"delete"}
    Amounts = {1}
    Failures = {"telegram"}
    MaxUsed = 1
    MaxClock = 0
    MaxOrders = 1
    MaxFailures = 1
INVARIANT RowsMatchPanel
CHECK_DEADLOCK FALSE
