CONSTANTS
    MaxMessages = 2
    MaxBytes = 3
    Sizes <- MCSizes
    MaxPushes = 4
    MaxCloses = 1
SPECIFICATION FairSpec
INVARIANTS
    TypeOK
    BytesAccounted
    NoLostWakeup
PROPERTIES
    Delivered
    ImplementsMailbox
