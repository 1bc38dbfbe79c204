SPECIFICATION Spec
CONSTANTS
    People <- Two
    MaxUpdate = 4
    Kind <- KindOf
    Sender <- From
    Code <- Invited
    Text <- Lists
    Free = free
    MaxIds = 8
    MaxFailures = 1
INVARIANT StarsOnce
CHECK_DEADLOCK FALSE
