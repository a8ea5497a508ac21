CONSTANTS
    LoginCalls = {"l1"}
    LogoutCalls = {"o1"}
    OtherCalls = {"c1"}
    MaxLogins = 2
    MaxCalls = 4
SPECIFICATION MobileSpec
CHECK_DEADLOCK FALSE
INVARIANT ClearedOnLogout
