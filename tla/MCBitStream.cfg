\* The capacity has other bytes than the lengths of the messages: every byte
\* of the length has to be written over.
CONSTANTS
    Codes <- MCCodes
    Covers <- MCCovers
    Messages <- MCMessages
    Caps = {259}
    Changes <- MCChanges
CHECK_DEADLOCK FALSE
SPECIFICATION Spec
INVARIANTS
    Understood
    HeaderGuarded
    Writable
