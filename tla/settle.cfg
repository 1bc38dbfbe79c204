SPECIFICATION Spec
CONSTANTS
    Users <- TwoUsers
    Services <- TwoServices
    Owner <- InvitedOwner
    Inviter <- InvitedByFirst
    Price <- PriceRounded
    Percent = 50
    Opening <- Pennies
    Syncs = {s1, s2}
    Cashiers = {c1, c2}
    Cleaners = {}
    Desks = {}
    Free = free
    Requests = {}
    Amounts = {2}
    Failures = {"refused", "lost", "crash"}
    MaxUsed = 2
    MaxClock = 0
    MaxOrders = 2
    MaxFailures = 1
INVARIANTS Inductive ChargesAreLogged CostIsFair
