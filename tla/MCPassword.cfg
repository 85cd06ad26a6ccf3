CONSTANTS
    Passwords = {secret}
    NoPassword = none
    MaxCalls = 2
    MaxWallets = 2
    MaxWrong = 1
SPECIFICATION Spec
\* A client that asks for nothing more lets the model come to rest.
CHECK_DEADLOCK FALSE
INVARIANTS TypeOK DanglingOnlyAfterBox LastSetWins
PROPERTY RequestsServed
