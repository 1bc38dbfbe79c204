SPECIFICATION Spec
CONSTANTS
    Users <- OneUser
    Services <- OneService
    Owner <- SoleOwner
    Inviter <- NoInviter
    Price <- PriceWhole
    Percent = 0
    Opening <- Pennies
    Syncs = {s1}
    Cashiers = {}
    Cleaners = {k1}
    Desks = {d1}
    Free = free
    Requests = {"disable"}
    Amounts = {1}
    Failures = {}
    MaxUsed = 1
    MaxClock = 1
    MaxOrders = 1
    MaxFailures = 0

PROPERTY ManualIsPreserved
CHECK_DEADLOCK FALSE
