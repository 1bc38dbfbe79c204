SPECIFICATION Spec
CONSTANTS
    People <- Two
    MaxUpdate = 4
    Kind <- KindOf
    Sender <- From
    Code <- Invited
    Text <- Lists
    Free = free
    MaxIds = 8
    MaxFailures = 0
INVARIANT ToldIsSaved
CHECK_DEADLOCK FALSE
