CONSTANTS
    b1 = b1
    me1 = me1
    poll1 = poll1
    Tabs = {b1}
    Calls = {me1, poll1}
    TabOf <- MCOneTab
    Me = {me1}
    AccessTtl = 1
    RefreshTtl = 3
    Inactivity = 2
    MaxTime = 4
    MaxTokens = 3
    MaxRefreshes = 2
    MaxEvents = 2
SPECIFICATION Spec
INVARIANTS LogoutInvalidates
CHECK_DEADLOCK FALSE
