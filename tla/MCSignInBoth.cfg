\* Two sign-ins of one subject, with failures and without.
CONSTANTS
    None = None
    Subjects = {s1}
    Browsers = {b1, b2}
    TokenHasGroups = TRUE
SPECIFICATION FairSpec
INVARIANTS TypeOK SessionsHaveAccounts
PROPERTIES AccountsKept FlagWasTold SignInsEnd
