SPECIFICATION Spec
CONSTANTS
    Users <- OneUser
    Services <- OneService
    Owner <- SoleOwner
    Inviter <- NoInviter
    Price <- PriceWhole
    Percent = 0
    Opening <- Pennies
    Syncs = {s1}
    Cashiers = {c1}
    Cleaners = {}
    Desks = {d1}
    Free = free
    Requests = {"reactivate"}
    Amounts = {1}
    Failures = {"refused"}
    MaxUsed = 2
    MaxClock = 0
    MaxOrders = 2
    MaxFailures = 1

PROPERTY StatusFollowsBalance
CHECK_DEADLOCK FALSE
