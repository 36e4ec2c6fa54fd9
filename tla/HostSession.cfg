SPECIFICATION HostSpec
CONSTANTS
    s1 = s1
    s2 = s2
    p1 = p1
    p2 = p2
    ctrl = ctrl
    ctrlByCode = ctrlByCode
    ctrlByNumber = ctrlByNumber
    NoCode = NoCode
    Sessions = {s1, s2}
    Peers = {p1, p2}
    Codes <- MCCodes
    Keys = {ctrl}
    CtrlKey = ctrl
    KeyNames = {ctrlByCode, ctrlByNumber}
    KeyTable <- MCKeyTable
    Legacy <- MCLegacy
    Grants = {"view_only"}
    MaxEdits = 1
SYMMETRY Alike
INVARIANTS
    KeysAreOwned
    OperatorDecides
