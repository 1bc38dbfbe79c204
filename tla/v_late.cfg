SPECIFICATION Spec
CONSTANTS
    Calls <- Three
    Keys <- Panels
    Key <- Asks
    Op <- For
    Found <- There
    Closed <- Shut
    NoToken = none
    MaxEpoch = 1
PROPERTIES RaisedIsOver
CHECK_DEADLOCK FALSE
