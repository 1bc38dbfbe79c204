SPECIFICATION Spec
CONSTANTS
    Panels <- TwoPanels
    Plans <- OnePlan
    Names = {"old", "new"}
    Admins = {a1, a2}
    Buyers = {b1}
    Prices = {1, 2}
    Inputs <- SomeNumbers
    Home <- OldOnFirst
    Shop <- FirstActive
    Grouped = {1}
    Nobody = nobody
    MaxClicks = 6
PROPERTY KeptPriceStays
CHECK_DEADLOCK FALSE
