\* Snapshots of up to four mentions of attributes, two observations around every request.
CONSTANTS
    Names <- MCNames
    NamespaceOf <- MCNamespaceOf
    LengthOf <- MCLengthOf
    Groups <- MCGroups
    MaxMentions = 4
    Terms <- MCTerms
    Equals <- MCEquals
    Begins <- MCBegins
    InName <- MCInName
    InBrief <- MCInBrief
    DefaultPage = 2
    MaxPage = 3
    Observable <- MCObservable
    Queries <- MCQueries
    Filters <- MCFilters
    Limits <- MCLimits
    DefaultLimit = 2
    MaxLimit = 2
    DefaultRows = 2
    MaxRows = 2
    MaxObserved = 2
SPECIFICATION Spec
INVARIANTS LookupFindsFirst SearchAgrees CompareIsRight
