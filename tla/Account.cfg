SPECIFICATION Spec
CONSTANTS
    Accounts = {"ann", "bob"}
    Calls = {"call"}
    MaxEvents = 3
    MaxFaults = 2
INVARIANTS
    TypeOK
    TokensAgree
    OneAccount
PROPERTY
    StartsUp
