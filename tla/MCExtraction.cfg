\* Two workers, two payloads in turn or at once, of 24 and one that cannot be read.
CONSTANTS
    Workers = {w1, w2}
    Payloads <- MCPayloads
    Unreadable <- MCUnreadable
    MaxTasks = 2
SPECIFICATION Spec
INVARIANTS DictionaryIsWhatWasSaid ValuesOncePerPayload
CHECK_DEADLOCK FALSE
