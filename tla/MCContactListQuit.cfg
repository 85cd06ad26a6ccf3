SPECIFICATION Spec
CONSTANTS
    Metas = {m1, m2}
    Groups = {work}
    Contacts <- MCContacts
    Protocols <- MCProtocols
    ProtocolOf <- MCProtocolOf
    Nobody = Nobody
    MaxOps = 2
    MaxFailures = 1
    MaxEnds = 1
PROPERTY SavesWhatIsThere
CHECK_DEADLOCK FALSE
