\* One POST of some 1320 projects, or a session of three edits after the seed.
CONSTANTS
    Sanitized <- MCSanitized
    Leading <- MCLeading
    Prefixed <- MCPrefixed
    DefaultDeps <- MCDefaultDeps
    Seeds <- MCSeeds
    NamespaceTexts <- MCNamespaceTexts
    TypeTexts <- MCTypeTexts
    ListTexts <- MCListTexts
    Posts <- MCPosts
    MaxEdits = 3
SPECIFICATION SessionSpec
INVARIANTS NothingAuthoredIsLost FindingsAreDeserved ValidationCoversGeneration PreviewIsCurrent
CHECK_DEADLOCK FALSE
