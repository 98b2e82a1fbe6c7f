SPECIFICATION RowSpec
CONSTANTS
    Requests = {r1, r2}
    MaxPassword = 1
CHECK_DEADLOCK FALSE
PROPERTIES
    MarkedUntilErased
