CONSTANTS
    Terminals = {t1, t2}
    Previews = {p1}
    Runs = {r1}
    Stops = {u1}
    First = First
    None = None
    t1 = t1
    t2 = t2
    MaxMishaps = 1
    MaxActivities = 2
SPECIFICATION FairSpec
CONSTRAINT FewActivities
INVARIANTS TypeOK RunExcludesTerminal DetachedIsUnused
PROPERTIES ImplementsOccupancy ExpiryReleasesTerminal ExpiryReleasesStartup
CHECK_DEADLOCK FALSE
