\* One system: the 60 s timer against the loss of the websocket.
SPECIFICATION Spec
CONSTANTS
    System = {s1}
    Slot = {a, b}
    FirstSlot = a
    Socket = {k1, k2}
    NoSocket = NoSocket
PROPERTIES
    TimerFindsEntry
