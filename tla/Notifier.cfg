CONSTANTS
    Messages = 4
    QueueSize = 2
    MaxSends = 3
SPECIFICATION FairSpec
INVARIANTS NotifierTypeOK CriticalOnRecord
PROPERTIES InOrder ImplementsOutbox CallsReturn DealtWith
CHECK_DEADLOCK FALSE
