SPECIFICATION Spec
CONSTANTS
    Payments <- OneCard
    Crypto <- None
    Chats = {m1, m2}
    Admins = {a1}
    Jobs = {j1}
    Free = free
    Failures = {}
    MaxReceipts = 2
    MaxClicks = 2
    MaxFailures = 0
INVARIANT DepositedOnce
CHECK_DEADLOCK FALSE
