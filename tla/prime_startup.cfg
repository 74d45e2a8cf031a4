SPECIFICATION Spec
CONSTANTS
    Places = {p1, p2}
    NoPlace = NoPlace
    MININTERVAL = 0
    MAXINTERVAL = 1
    RESYNC = 1
    Skews <- MCSkews
    MinAge <- MCMinAge
    Commands = {"gps", "reset", "off"}
    MaxCmds = 1
INVARIANTS
    StartupPositionSent
