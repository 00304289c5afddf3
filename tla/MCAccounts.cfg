SPECIFICATION Spec
CONSTANTS
    Names = {root, other}
    Root = root
    Requests = {r1, r2}
    Tokens = {t1, t2}
    MaxFailures = 1
    MaxChanges = 2
    None = None
SYMMETRY Symmetry
INVARIANTS SomeAdminRemains SessionsFollowAccounts OthersSignedOut FailuresBounded
CHECK_DEADLOCK FALSE
