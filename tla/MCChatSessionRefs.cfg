CONSTANTS
    Contacts = {ann}
    Myself = me
    MaxSessions = 2
    MaxMsgs = 2
    MaxChanges = 1
SPECIFICATION Spec
CHECK_DEADLOCK FALSE
PROPERTY DeletedOnlyUnreferenced
