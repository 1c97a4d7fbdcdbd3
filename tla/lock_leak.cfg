CONSTANTS
    Terminals = {t1}
    Previews = {}
    Runs = {}
    Stops = {}
    First = First
    None = None
    t1 = t1
    t2 = t2
    MaxMishaps = 1
    MaxActivities = 1
SPECIFICATION FairSpec
PROPERTIES TerminalLocksAreReleased
CHECK_DEADLOCK FALSE
