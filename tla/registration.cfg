SPECIFICATION FairSpec
CONSTANTS
    People <- Two
    MaxUpdate = 4
    Kind <- KindOf
    Sender <- From
    Code <- Invited
    Text <- Lists
    Free = free
    MaxIds = 8
    MaxFailures = 1
INVARIANTS TypeOK InviterIsOlder ImportIsWhole AnnouncedOnce CreditedOncePerRun StarsSurvive
PROPERTIES AllAreHandled
CHECK_DEADLOCK FALSE
