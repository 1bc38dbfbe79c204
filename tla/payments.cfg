SPECIFICATION FairSpec
CONSTANTS
    Payments <- CardAndInvoices
    Crypto <- TwoInvoices
    Chats = {m1}
    Admins = {a1, a2}
    Jobs = {j1}
    Free = free
    Failures = {"telegram", "provider", "crash"}
    MaxReceipts = 2
    MaxClicks = 2
    MaxFailures = 1
INVARIANTS ApprovedIsDeposited
PROPERTIES DepositClosesRequest PaidIsDeposited
CHECK_DEADLOCK FALSE
