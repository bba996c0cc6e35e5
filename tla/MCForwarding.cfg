\* Two requests, each with the code's three attempts.
CONSTANTS
    Requests = {r1, r2}
    MaxRetries = 3
SPECIFICATION ForwardSpec
INVARIANTS OutcomesBalance SentWasAccepted AnalysedOnce
PROPERTIES ReadIsAnswered
CHECK_DEADLOCK FALSE
