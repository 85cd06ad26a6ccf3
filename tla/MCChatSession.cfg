CONSTANTS
    Contacts = {ann}
    Myself = me
    MaxSessions = 2
    MaxMsgs = 2
    MaxChanges = 1
SPECIFICATION Spec
\* The bound on messages and an idle user end every run of the model.
CHECK_DEADLOCK FALSE
INVARIANTS TypeOK RefsCountTasks EventListSound HiddenHasUnread
PROPERTIES MessagesHandled ClosedGoesAway AppliedIsShown
