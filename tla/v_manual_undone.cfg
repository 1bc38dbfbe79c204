SPECIFICATION Spec
CONSTANTS
    Users <- OneUser
    Services <- OneService
    Owner <- SoleOwner
    Inviter <- NoInviter
    Price <- PriceWhole
    Percent = 0
    Opening <- Pennies
    Syncs = {s1}
    Cashiers = {c1}
    Cleaners = {}
    Desks = {d1}
    Free = free
    Requests = {"disable"}
    Amounts = {2}
    Failures = {}
    MaxUsed = 1
    MaxClock = 0
    MaxOrders = 2
    MaxFailures = 0

PROPERTY ManualStaysOff
CHECK_DEADLOCK FALSE
