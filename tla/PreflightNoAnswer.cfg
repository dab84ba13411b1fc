SPECIFICATION Spec
CONSTANTS
    u1 = u1
    u2 = u2
    URLs <- MCURLs
    NoURL = NoURL
INVARIANT NoAnswerIsRetried
CHECK_DEADLOCK FALSE
