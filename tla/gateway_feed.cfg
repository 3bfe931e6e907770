SPECIFICATION Spec
CONSTANTS
    p1 = p1
    x = x
    y = y
    m1 = m1
    m2 = m2
    m3 = m3
    Devices <- MCDevices
    Sessions <- MCSessions
    Messages <- MCMessages
    Chats <- MCChats
    DeviceOf <- MCDeviceOf
    SessionOf <- MCSessionOf
    MaxConns = 3
    MaxEvents = 1
    MaxSends = 4
    Capacity = 2
    None = None
INVARIANTS
    OpenIsFed
PROPERTIES
    DuplicatesDropped
CHECK_DEADLOCK FALSE
