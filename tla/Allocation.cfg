SPECIFICATION FairSpec
CONSTANTS
    p1 = p1
    p2 = p2
    p3 = p3
    p4 = p4
    p5 = p5
    c1 = c1
    c2 = c2
    c3 = c3
    c4 = c4
    old = old
    new = new
    resigned = resigned
    Procs = {p1, p2, p3, p4, p5}
    Calls = {c1, c2, c3, c4}
    NULL = NULL
    Server <- MCServer
    Key <- MCKey
    Payload <- MCPayload
    KeyMaterial <- MCKeyMaterial
    Primary <- MCPrimary
    Legacy <- MCLegacy
    Preflights <- MCPreflights
    Starts <- MCStarts
    MaxAborts = 1
INVARIANTS TypeOK IndexesDense OneRequestPerKey AnswersTruthful CatalogBoundToActive ServesMigrated OnlyVerifiedKeys
PROPERTIES AllocatedFromActive EverythingEnds
CHECK_DEADLOCK FALSE
