SPECIFICATION FairSpec
CONSTANTS
    Users <- OneUser
    Services <- OneService
    Owner <- SoleOwner
    Inviter <- NoInviter
    Price <- PriceWhole
    Percent = 0
    Opening <- Pennies
    Syncs = {s1}
    Cashiers = {c1}
    Cleaners = {}
    Desks = {}
    Free = free
    Requests = {}
    Amounts = {1}
    Failures = {"lost"}
    MaxUsed = 2
    MaxClock = 0
    MaxOrders = 1
    MaxFailures = 1

PROPERTY CutOff
CHECK_DEADLOCK FALSE
