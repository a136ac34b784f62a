SPECIFICATION LiveSpec
CONSTANTS
    InitialWindow = 2
    MaxWindow = 3
    Windows = {3}
    MaxVarint = 3
    MaxStreamsLimit = 3
    Total = 3
    MaxPackets = 2
CHECK_DEADLOCK FALSE
INVARIANT CreditSound
PROPERTY LimitNeverRetracted AllCreditArrives
