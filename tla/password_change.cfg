\* One handler, three requests: what a password change reports in mode "oidc"
SPECIFICATION AcctSpec
CONSTANTS
    Handlers = {h1}
    MaxRequests = 3
    None = None
    Emails = {e1, e2}
    Subjects = {s1, s2}
    Passwords = {w1, w2}
INVARIANT ChangedCanSignIn
CHECK_DEADLOCK FALSE
