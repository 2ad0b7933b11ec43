SPECIFICATION Spec
CONSTANTS
    p1 = p1
    p2 = p2
    p3 = p3
    p4 = p4
    p5 = p5
    c1 = c1
    c2 = c2
    c3 = c3
    c4 = c4
    old = old
    new = new
    resigned = resigned
    Procs = {p1, p2, p3}
    Calls = {c1}
    NULL = NULL
    Server <- MCServer
    Key <- MCKey
    Payload <- MCPayload
    KeyMaterial <- MCKeyMaterial
    Primary <- MCPrimaryNewKey
    Legacy <- MCNoLegacy
    Preflights <- MCPreflights
    Starts <- MCAllStart
    MaxAborts = 1
INVARIANT SingleLineage
CHECK_DEADLOCK FALSE
