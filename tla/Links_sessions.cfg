SPECIFICATION LinksSpec
CONSTANTS
    Senders = {s1, s2}
    Receivers = {r1, r2}
    Messages = {m1, m2}
    Limit = 2
    Size = 3
    Byte = {0, 1}
    NumPhys = 2
    RingSize = 4
    MaxWrite = 5
    ReadSize = 3
    MaxPacket = 2
    Descriptors = {0, 3, 4}
    Lengths = {0, 1, 4, 5}
    RxSize = 3
    MaxOut = 2
    SpiDevices = {imu, mag}
    NoDevice = none
    MaxTransfers = 2
    PeripheralClock = 1024
    ClockSpeeds = {0, 3, 100}
INVARIANTS NoLostWakeup 
PROPERTIES ImplementsFifo ImplementsByteFifo WrittenIsSent 
CHECK_DEADLOCK FALSE
