SPECIFICATION Spec
CONSTANTS
    Users <- OneUser
    Services <- TwoServices
    Owner <- SoleOwner
    Inviter <- NoInviter
    Price <- PriceRounded
    Percent = 0
    Opening <- Pennies
    Syncs = {s1, s2}
    Cashiers = {c1}
    Cleaners = {k1}
    Desks = {d1}
    Free = free
    Requests = {"debit"}
    Amounts = {2}
    Failures = {"refused", "lost", "crash"}
    MaxUsed = 1
    MaxClock = 1
    MaxOrders = 2
    MaxFailures = 1

PROPERTIES KeepsPromise ExpiredOnlyBroke
CHECK_DEADLOCK FALSE
