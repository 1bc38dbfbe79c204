SPECIFICATION FairSpec
CONSTANTS
    Users <- OneUser
    Services <- OneService
    Owner <- SoleOwner
    Inviter <- NoInviter
    Price <- PriceWhole
    Percent = 0
    Opening <- Pennies
    Syncs = {s1}
    Cashiers = {c1}
    Cleaners = {}
    Desks = {}
    Free = free
    Requests = {}
    Amounts = {2}
    Failures = {"lost"}
    MaxUsed = 1
    MaxClock = 0
    MaxOrders = 1
    MaxFailures = 1

PROPERTY Restored
CHECK_DEADLOCK FALSE
