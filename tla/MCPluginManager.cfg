SPECIFICATION Spec
CONSTANTS
    Plugins = {history, chatwindow, jabber}
    Protocols = {jabber}
    DefaultOn = {chatwindow}
    MaxCalls = 3
    history = history
    chatwindow = chatwindow
    jabber = jabber
INVARIANTS
    TypeOK
    UnloadsAreLoaded
    DoneAfterDeletes
    ReleasedAfterSave
PROPERTIES
    ImplementsLifecycle
CHECK_DEADLOCK FALSE
