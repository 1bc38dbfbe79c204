SPECIFICATION FairSpec
CONSTANTS
    Default <- Menu3
    Colors = {"none", "red"}
    People = {a, b, c}
    Env = {a}
    Cards = {"n1", "n2"}
    Holders = {"h1", "h2"}
    HolderOf <- OwnerOf
    Chats = {g1, g2}
    Topics <- TwoTopics
    Numbers = {"stars_to_toman_rate"}
    Texts = {"low_balance_threshold"}
    Switches = {"payment_stars_enabled"}
    Words = {"1000", "free"}
    Positive = {"1000"}
    Edits <- SomeEdits
    OpeningMenus <- SomeMenus
    OpeningCards = {"n1"}
    OpeningAdmins = {b}
    OpeningForms <- SomeForms
    Sections <- SomeSections
    Procs = {p, q}
    Nobody = nobody
    Unset = unset
    Free = free
    MaxFailures = 1
INVARIANTS TypeOK AppointedByAdmins ReceiptIsShown MenuIsWhole
PROPERTIES HandlersEnd
CHECK_DEADLOCK FALSE
