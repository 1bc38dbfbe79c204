SPECIFICATION Spec
CONSTANTS
    Users <- OneUser
    Services <- OneService
    Owner <- SoleOwner
    Inviter <- NoInviter
    Price <- PriceWhole
    Percent = 0
    Opening <- Pennies
    Syncs = {s1}
    Cashiers = {c1}
    Cleaners = {k1}
    Desks = {d1}
    Free = free
    Requests = {"reactivate", "reenable", "disable", "delete", "delete_all", "block", "unblock", "debit"}
    Amounts = {1}
    Failures = {"refused", "lost", "crash", "telegram", "reset"}
    MaxUsed = 2
    MaxClock = 1
    MaxOrders = 2
    MaxFailures = 1
INVARIANTS TypeOK WalletIsLedger MeteredOnce
CHECK_DEADLOCK FALSE
