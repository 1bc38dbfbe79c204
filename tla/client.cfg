SPECIFICATION FairSpec
CONSTANTS
    Calls <- Three
    Keys <- Panels
    Key <- Asks
    Op <- For
    Found <- There
    Closed <- Shut
    NoToken = none
    MaxEpoch = 1
INVARIANTS TokensStayHome DeniedByRevocation
PROPERTIES Implements CallsEnd
CHECK_DEADLOCK FALSE
