\* One system, three concurrent update calls and up to three websockets.
SPECIFICATION FairSpec
CONSTANTS
    System = {s1}
    Slot = {a, b, c}
    FirstSlot = a
    Socket = {k1, k2, k3}
    NoSocket = NoSocket
INVARIANTS
    TypeOK
    RegisteredIsListening
    NeverForgotten
PROPERTIES
    LoadedResolves
    Reconnects
    ImplementsSession
