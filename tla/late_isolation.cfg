CONSTANTS
    Terminals = {t1}
    Previews = {}
    Runs = {r1}
    Stops = {}
    First = First
    None = None
    t1 = t1
    t2 = t2
    MaxMishaps = 1
    MaxActivities = 2
SPECIFICATION Spec
PROPERTIES IsolationSparesRuns
CHECK_DEADLOCK FALSE
